------------------------ MODULE IpvsAttributesProofs ------------------------
(***************************************************************************)
(* Proofs about IpvsAttributes, for any services and targets callers use,  *)
(* any sizes of bytes and addresses, old kernels and new.                  *)
(***************************************************************************)
EXTENDS IpvsAttributes, TLAPS

(* Bytes as sequences                                                      *)

LEMMA BytesAre ==
  ASSUME NEW n \in Nat, NEW b \in Bytes(n)
  PROVE  /\ b \in Seq(0..Base - 1) /\ Len(b) = n /\ DOMAIN b = 1..n
         /\ \A i \in 1..n : b[i] \in 0..Base - 1
BY AttributesAssumption DEF Bytes

LEMMA FirstBytes ==
  ASSUME NEW n \in Nat, NEW m \in 1..n, NEW b \in Bytes(n)
  PROVE  SubSeq(b, 1, m) = [i \in 1..m |-> b[i]] /\ SubSeq(b, 1, m) \in Bytes(m)
<1>1. b \in [1..n -> 0..Base - 1] /\ Base \in Nat \ {0, 1}
  BY AttributesAssumption DEF Bytes
<1>2. SubSeq(b, 1, m) = [i \in 1..m |-> b[i]]
  BY <1>1
<1>3. [i \in 1..m |-> b[i]] \in Bytes(m)
  BY <1>1 DEF Bytes
<1> QED
  BY <1>2, <1>3

LEMMA LastBytes ==
  ASSUME NEW n \in Nat, NEW m \in 1..n - 1, NEW b \in Bytes(n)
  PROVE  SubSeq(b, m + 1, n) = [i \in 1..n - m |-> b[m + i]] /\ SubSeq(b, m + 1, n) \in Bytes(n - m)
<1>1. b \in [1..n -> 0..Base - 1] /\ Base \in Nat \ {0, 1}
  BY AttributesAssumption DEF Bytes
<1>2. SubSeq(b, m + 1, n) = [i \in 1..n - m |-> b[m + i]]
  BY <1>1
<1>3. [i \in 1..n - m |-> b[m + i]] \in Bytes(n - m)
  BY <1>1 DEF Bytes
<1> QED
  BY <1>2, <1>3

(* A port survives its two bytes.                                          *)
LEMMA PortBytes ==
  ASSUME NEW p \in Ports
  PROVE  BigEndian(p) \in Bytes(2) /\ FromBigEndian(BigEndian(p)) = p
<1>1. p \in Nat /\ Base \in Nat \ {0, 1}
  BY AttributesAssumption DEF Ports
<1>2. p \div Base \in 0..Base - 1 /\ p % Base \in 0..Base - 1
  BY <1>1 DEF Ports
<1>3. p % Base = p - (p \div Base) * Base
  BY AttributesAssumption DEF Ports
<1>4. (p \div Base) * Base + (p % Base) = p
  <2>1. (p \div Base) * Base \in Nat
    BY <1>1, <1>2
  <2> QED
    BY <1>1, <1>2, <1>3, <2>1
<1> DEFINE q == p \div Base
           r == p % Base
<1> HIDE DEF q, r
<1>5. <<q, r>> \in Bytes(2)
  BY <1>2 DEF Bytes, q, r
<1>6. FromBigEndian(<<q, r>>) = q * Base + r
  BY DEF FromBigEndian
<1> QED
  BY <1>4, <1>5, <1>6 DEF BigEndian, q, r

(* The forms of an address                                                 *)

LEMMA AddressForm ==
  ASSUME NEW ip \in Addresses
  PROVE  \/ ip = <<>> /\ Len(ip) = 0
         \/ ip \in Bytes(Short) /\ Len(ip) = Short
         \/ ip \in Bytes(Long) /\ Len(ip) = Long
BY BytesAre, AttributesAssumption DEF Addresses

LEMMA NotEmpty == <<>> \notin Bytes(Short) /\ <<>> \notin Bytes(Long)
BY BytesAre, AttributesAssumption

(* What To4 makes of an address, and that the bytes written are those the  *)
(* caller means.                                                           *)
LEMMA HostForm ==
  ASSUME NEW ip \in Addresses
  PROVE  /\ rawIPData(ip) = Host(ip)
         /\ Host(ip) \in Addresses
         /\ Host(ip) = <<>> <=> ip = <<>>
         /\ ip # <<>> /\ FamilyOf(ip) = "INET" => Host(ip) \in Bytes(Short)
         /\ ip # <<>> /\ FamilyOf(ip) = "INET6" => Host(ip) \in Bytes(Long)
         /\ FamilyOf(ip) \in Families
         /\ ip = <<>> => FamilyOf(ip) = "INET6"
<1>1. To4(ip) \in {<<>>} \cup Bytes(Short)
  <2>1. CASE ip \in Bytes(Long) /\ Len(ip) = Long
    <3>1. SubSeq(ip, Long - Short + 1, Long) \in Bytes(Long - (Long - Short))
      <4>1. Long - Short \in 1..Long - 1 /\ Long \in Nat
        BY AttributesAssumption
      <4>2. \A m \in 1..Long - 1 : SubSeq(ip, m + 1, Long) \in Bytes(Long - m)
        BY <2>1, <4>1, LastBytes
      <4> QED
        BY <4>1, <4>2
    <3>2. Long - (Long - Short) = Short
      BY AttributesAssumption
    <3> QED
      BY <2>1, <3>1, <3>2, AttributesAssumption DEF To4
  <2>2. CASE ip \in Bytes(Short) /\ Len(ip) = Short
    BY <2>2 DEF To4
  <2>3. CASE ip = <<>> /\ Len(ip) = 0
    BY <2>3, AttributesAssumption DEF To4
  <2> QED
    BY <2>1, <2>2, <2>3, AddressForm
<1>2. ip \in Bytes(Short) => To4(ip) = ip
  BY BytesAre, AttributesAssumption DEF To4
<1>3. ip = <<>> => To4(ip) = <<>>
  BY AttributesAssumption DEF To4
<1>4. Len(ip) <= Short <=> ip = <<>> \/ ip \in Bytes(Short)
  BY AddressForm, NotEmpty, AttributesAssumption, BytesAre
<1> QED
  BY <1>1, <1>2, <1>3, <1>4, AddressForm, NotEmpty DEF rawIPData, Host, FamilyOf, Addresses, Families

LEMMA PaddedForm ==
  ASSUME NEW b \in Addresses, NEW n \in Nat
  PROVE  /\ Padded(b, n) \in Bytes(n)
         /\ \A i \in 1..n : Padded(b, n)[i] = IF i <= Len(b) THEN b[i] ELSE 0
<1>1. \A i \in Nat : 0 < i /\ i <= Len(b) => b[i] \in 0..Base - 1
  BY AddressForm, BytesAre, AttributesAssumption
<1> QED
  BY <1>1, AttributesAssumption DEF Padded, Bytes

(* What the kernel keeps of an address, and what is read back.             *)
LEMMA KernelAddrForm ==
  ASSUME NEW b \in Addresses, NEW family \in Families
  PROVE  KernelAddr(family, b) \in Bytes(Long)
<1>1. Padded(b, Short) \in Addresses
  BY PaddedForm, AttributesAssumption DEF Addresses
<1> QED
  BY <1>1, PaddedForm, AttributesAssumption DEF KernelAddr

LEMMA KernelAddrFour ==
  ASSUME NEW b \in Bytes(Short)
  PROVE  /\ SubSeq(KernelAddr("INET", b), 1, Short) = b
         /\ KernelAddr("INET", b)[1] = b[1]
         /\ \A i \in Short + 1..Long : KernelAddr("INET", b)[i] = 0
<1> DEFINE k == KernelAddr("INET", b)
<1>1. Padded(b, Short) = b /\ b \in Addresses /\ Len(b) = Short
  BY BytesAre, AttributesAssumption DEF Padded, Bytes, Addresses
<1>2. k = Padded(b, Long)
  BY <1>1 DEF KernelAddr
<1>3. k \in Bytes(Long) /\ \A i \in 1..Long : k[i] = IF i <= Short THEN b[i] ELSE 0
  BY <1>1, <1>2, PaddedForm, AttributesAssumption
<1> HIDE DEF k
<1>4. SubSeq(k, 1, Short) = [i \in 1..Short |-> k[i]]
  BY <1>3, FirstBytes, AttributesAssumption
<1>5. [i \in 1..Short |-> k[i]] = b
  BY <1>3, AttributesAssumption DEF Bytes
<1>6. k[1] = b[1] /\ \A i \in Short + 1..Long : k[i] = 0
  BY <1>3, AttributesAssumption
<1> QED
  BY <1>4, <1>5, <1>6 DEF k

LEMMA KernelAddrSix ==
  ASSUME NEW b \in Bytes(Long)
  PROVE  KernelAddr("INET6", b) = b
BY BytesAre, AttributesAssumption DEF KernelAddr, Padded, Bytes

(* No address is no host.                                                  *)
LEMMA KernelAddrNone ==
  ASSUME NEW family \in Families
  PROVE  ~IsHost(family, KernelAddr(family, <<>>))
<1>1. <<>> \in Addresses /\ Len(<<>>) = 0
  BY DEF Addresses
<1> DEFINE b == <<>>
<1> HIDE DEF b
<1>2. Padded(b, Short) \in Addresses /\ \A i \in 1..Short : Padded(b, Short)[i] = 0
  <2>1. Short \in Nat /\ b \in Addresses /\ Len(b) = 0
    BY <1>1, AttributesAssumption DEF b
  <2>2. Padded(b, Short) \in Bytes(Short)
        /\ \A i \in 1..Short : Padded(b, Short)[i] = IF i <= Len(b) THEN b[i] ELSE 0
    BY <2>1, PaddedForm
  <2>3. \A i \in 1..Short : ~(i <= 0)
    BY <2>1
  <2>4. Padded(b, Short) \in Addresses
    BY <2>2 DEF Addresses
  <2> QED
    BY <2>1, <2>2, <2>3, <2>4
<1>3. \A i \in 1..Long : Padded(b, Long)[i] = 0
  <2>1. Long \in Nat /\ b \in Addresses /\ Len(b) = 0
    BY <1>1, AttributesAssumption DEF b
  <2>2. \A i \in 1..Long : Padded(b, Long)[i] = IF i <= Len(b) THEN b[i] ELSE 0
    BY <2>1, PaddedForm
  <2>3. \A i \in 1..Long : ~(i <= 0)
    BY <2>1
  <2> QED
    BY <2>1, <2>2, <2>3
<1>4. Padded(Padded(b, Short), Long)[1] = 0
  <2>1. Padded(Padded(b, Short), Long)[1] = IF 1 <= Len(Padded(b, Short)) THEN Padded(b, Short)[1] ELSE 0
    BY <1>2, PaddedForm, AttributesAssumption
  <2> QED
    BY <1>2, <2>1, AttributesAssumption
<1>5. DOMAIN Padded(b, Long) = 1..Long
  BY DEF Padded
<1> QED
  BY <1>3, <1>4, <1>5, AttributesAssumption DEF KernelAddr, IsHost, Zeros, Families, b

-----------------------------------------------------------------------------
(* Keys of the kernel's table *)

LEMMA CallerTypes ==
  ASSUME NEW s \in Services
  PROVE  /\ s \in [family : Families, mark : Nat, proto : STRING, addr : Addresses, port : Ports]
         /\ \A d \in Targets[s] : d \in [addr : Addresses, port : Ports]
BY CallersAssumption

LEMMA ServiceKeyForm ==
  ASSUME NEW s \in Services
  PROVE  /\ s.mark # NoMark => ServiceKey(s) = [family |-> s.family, mark |-> s.mark]
         /\ s.mark = NoMark =>
              ServiceKey(s) = [family |-> s.family, proto |-> s.proto,
                               addr |-> KernelAddr(s.family, Host(s.addr)), port |-> BigEndian(s.port)]
         /\ ServiceKey(s).family = s.family
<1>1. rawIPData(s.addr) = Host(s.addr)
  BY CallerTypes, HostForm
<1>2. CASE s.mark # NoMark
  BY <1>2 DEF ServiceKey, Keyed, fillService
<1>3. CASE s.mark = NoMark
  <2>1. fillService(s) = [family |-> s.family, proto |-> s.proto,
                          addr |-> Host(s.addr), port |-> BigEndian(s.port)]
    BY <1>1, <1>3 DEF fillService
  <2> QED
    BY <1>3, <2>1 DEF ServiceKey, Keyed
<1> QED
  BY <1>2, <1>3

LEMMA ServerKeyForm ==
  ASSUME NEW s \in Services, NEW d \in Targets[s]
  PROVE  ServerKey(s, d) =
           <<ServiceKey(s), [addr |-> KernelAddr(s.family, Host(d.addr)), port |-> BigEndian(d.port)]>>
<1>1. fillDestination(d) = [addr |-> Host(d.addr), port |-> BigEndian(d.port)]
  BY CallerTypes, HostForm DEF fillDestination
<1> QED
  BY <1>1 DEF ServerKey, Keyed

LEMMA ServiceKeyTyped ==
  ASSUME NEW s \in Services, "addr" \in DOMAIN ServiceKey(s)
  PROVE  ServiceKey(s).addr \in Bytes(Long) /\ ServiceKey(s).port \in Bytes(2)
<1>1. KernelAddr(s.family, Host(s.addr)) \in Bytes(Long) /\ BigEndian(s.port) \in Bytes(2)
  BY CallerTypes, HostForm, KernelAddrForm, PortBytes
<1> QED
  BY <1>1, ServiceKeyForm

LEMMA ServerKeyTyped ==
  ASSUME NEW s \in Services, NEW d \in Targets[s]
  PROVE  ServerKey(s, d)[2].addr \in Bytes(Long) /\ ServerKey(s, d)[2].port \in Bytes(2)
<1>1. KernelAddr(s.family, Host(d.addr)) \in Bytes(Long) /\ BigEndian(d.port) \in Bytes(2)
  BY CallerTypes, HostForm, KernelAddrForm, PortBytes
<1> QED
  BY <1>1, ServerKeyForm

-----------------------------------------------------------------------------
(* The kernel's table holds what callers put in *)

KnownServices(f) == \A k \in DOMAIN f : \E s \in Services : k = ServiceKey(s)

(* A server has a service, a weight and an address that is a host.         *)
KnownServers(f) ==
  \A x \in DOMAIN f :
    /\ f[x] \in Weights
    /\ \E s \in Services : \E d \in Targets[s] :
         x = ServerKey(s, d) /\ IsHost(s.family, ServerKey(s, d)[2].addr)

KnownTable(f, g) ==
  KnownServices(f) /\ KnownServers(g) /\ \A x \in DOMAIN g : x[1] \in DOMAIN f

Known ==
  /\ KnownTable(services, servers)
  /\ timeouts \in [Timeouts -> Nat]
  /\ last.ok \in BOOLEAN

LEMMA KnownTyped == Known => TypeOK
<1> SUFFICES ASSUME Known PROVE TypeOK
  OBVIOUS
<1>1. ASSUME NEW k \in DOMAIN services, "addr" \in DOMAIN k
      PROVE  k.addr \in Bytes(Long) /\ k.port \in Bytes(2)
  <2>1. PICK s \in Services : k = ServiceKey(s)
    BY DEF Known, KnownTable, KnownServices
  <2> QED
    BY <1>1, <2>1, ServiceKeyTyped
<1>2. ASSUME NEW x \in DOMAIN servers
      PROVE  x[2].addr \in Bytes(Long) /\ x[2].port \in Bytes(2)
  <2>1. PICK s \in Services : \E d \in Targets[s] : x = ServerKey(s, d)
    BY DEF Known, KnownTable, KnownServers
  <2> QED
    BY <2>1, ServerKeyTyped
<1> QED
  BY <1>1, <1>2 DEF Known, KnownTable, KnownServers, TypeOK

LEMMA ChangeKnows ==
  ASSUME Known, NEW call, NEW can \in BOOLEAN, NEW f, NEW g, Change(call, can, f, g),
         can => KnownTable(f, g)
  PROVE  Known'
BY DEF Change, Answer, Known, KnownTable, KnownServices, KnownServers

LEMMA ListKnows ==
  ASSUME Known, NEW call, NEW ok \in BOOLEAN, NEW list, List(call, ok, list)
  PROVE  Known'
BY DEF List, Answer, kernel, Known, KnownTable, KnownServices, KnownServers

LEMMA KnownWithService ==
  ASSUME KnownTable(services, servers), NEW s \in Services, NEW v
  PROVE  KnownTable(With(services, ServiceKey(s), v), servers)
BY DEF KnownTable, KnownServices, With

LEMMA KnownWithServer ==
  ASSUME KnownTable(services, servers), NEW s \in Services, NEW d \in Targets[s], NEW w \in Weights,
         There(s), IsHost(s.family, ServerKey(s, d)[2].addr)
  PROVE  KnownTable(services, With(servers, ServerKey(s, d), w))
<1>1. ServerKey(s, d)[1] = ServiceKey(s)
  BY DEF ServerKey
<1> QED
  BY <1>1 DEF KnownTable, KnownServers, With, There

LEMMA KnownWithout ==
  ASSUME KnownTable(services, servers), NEW S, NEW V,
         \A x \in DOMAIN servers : x[1] \in S => x \in V
  PROVE  KnownTable(Without(services, S), Without(servers, V))
BY DEF KnownTable, KnownServices, KnownServers, Without

LEMMA KnownStep == Known /\ [Next]_vars => Known'
<1> SUFFICES ASSUME Known, [Next]_vars PROVE Known'
  OBVIOUS
<1>1. KnownTable(services, servers)
  BY DEF Known
<1>2. ASSUME NEW s \in Services, NEW sched, NewService(s, sched) \/ UpdateService(s, sched)
      PROVE  Known'
  <2>1. There(s) \in BOOLEAN
    BY DEF There
  <2> QED
    BY <1>1, <1>2, <2>1, KnownWithService, ChangeKnows DEF NewService, UpdateService
<1>3. ASSUME NEW s \in Services, DelService(s)
      PROVE  Known'
  <2>1. KnownTable(Without(services, {ServiceKey(s)}), Without(servers, ServersOf(ServiceKey(s))))
    BY <1>1, KnownWithout DEF ServersOf
  <2>2. There(s) \in BOOLEAN
    BY DEF There
  <2>3. Change(<<"DelService", Named(s)>>, There(s),
               Without(services, {ServiceKey(s)}), Without(servers, ServersOf(ServiceKey(s))))
    BY <1>3 DEF DelService
  <2> QED
    BY <2>1, <2>2, <2>3, ChangeKnows
<1>4. CASE Flush
  <2>1. KnownTable(<<>>, <<>>)
    BY DEF KnownTable, KnownServices, KnownServers
  <2> QED
    BY <1>4, <2>1, ChangeKnows DEF Flush
<1>5. ASSUME NEW s \in Services, NEW d \in Targets[s], NEW w \in Weights,
             NewDestination(s, d, w) \/ UpdateDestination(s, d, w)
      PROVE  Known'
  <2>1. ASSUME ServerKey(s, d) \in DOMAIN servers
        PROVE  There(s) /\ IsHost(s.family, ServerKey(s, d)[2].addr)
    <3>1. ServerKey(s, d)[1] = ServiceKey(s) /\ There(s)
      BY <1>1, <2>1 DEF ServerKey, KnownTable, There
    <3>2. PICK t \in Services : \E e \in Targets[t] :
            ServerKey(s, d) = ServerKey(t, e) /\ IsHost(t.family, ServerKey(t, e)[2].addr)
      BY <1>1, <2>1 DEF KnownTable, KnownServers
    <3>3. ServiceKey(s) = ServiceKey(t)
      BY <3>1, <3>2 DEF ServerKey
    <3>4. s.family = t.family
      BY <3>3, ServiceKeyForm
    <3> QED
      BY <3>1, <3>2, <3>4
  <2>2. There(s) /\ IsHost(s.family, ServerKey(s, d)[2].addr) =>
          KnownTable(services, With(servers, ServerKey(s, d), w))
    BY <1>1, KnownWithServer
  <2>3. CASE NewDestination(s, d, w)
    BY <2>2, <2>3, ChangeKnows DEF NewDestination
  <2>4. CASE UpdateDestination(s, d, w)
    <3>1. Change(<<"UpdateDestination", Named(s), Endpoint(d), WeightRead(w)>>,
                 ServerKey(s, d) \in DOMAIN servers, services, With(servers, ServerKey(s, d), w))
      BY <2>4 DEF UpdateDestination
    <3>2. (ServerKey(s, d) \in DOMAIN servers) \in BOOLEAN
      OBVIOUS
    <3> QED
      BY <2>1, <2>2, <3>1, <3>2, ChangeKnows
  <2> QED
    BY <1>5, <2>3, <2>4
<1>6. ASSUME NEW s \in Services, NEW d \in Targets[s], DelDestination(s, d)
      PROVE  Known'
  <2>1. KnownTable(services, Without(servers, {ServerKey(s, d)}))
    BY <1>1 DEF KnownTable, KnownServers, Without
  <2>2. Change(<<"DelDestination", Named(s), Endpoint(d)>>, ServerKey(s, d) \in DOMAIN servers,
               services, Without(servers, {ServerKey(s, d)}))
    BY <1>6 DEF DelDestination
  <2>3. (ServerKey(s, d) \in DOMAIN servers) \in BOOLEAN
    OBVIOUS
  <2> QED
    BY <2>1, <2>2, <2>3, ChangeKnows
<1>7. ASSUME NEW s \in Services, IsServicePresent(s) \/ GetService(s) \/ GetDestinations(s)
      PROVE  Known'
  <2>1. There(s) \in BOOLEAN
    BY DEF There
  <2>2. CASE IsServicePresent(s) \/ GetService(s)
    BY <2>1, <2>2, ListKnows DEF IsServicePresent, GetService
  <2>3. CASE GetDestinations(s)
    <3> DEFINE ok == \A x \in ServersOf(ServiceKey(s)) : FamilyRead(x[1], x[2]) # "none"
    <3>1. ok \in BOOLEAN
      OBVIOUS
    <3>2. \E list : List(<<"GetDestinations", Named(s)>>, ok, list)
      BY <2>3 DEF GetDestinations
    <3> HIDE DEF ok
    <3> QED
      BY <3>1, <3>2, ListKnows
  <2> QED
    BY <1>7, <2>2, <2>3
<1>8. CASE GetServices \/ GetConfig
  BY <1>8, ListKnows DEF GetServices, GetConfig
<1>9. ASSUME NEW c \in [Timeouts -> Durations], SetConfig(c)
      PROVE  Known'
  <2>1. Seconds(c) \in [Timeouts -> Nat]
    <3>1. \A t \in Timeouts : c[t] \in Nat
      BY AttributesAssumption
    <3>2. \A n \in Nat : n \div Second \in Nat
      BY AttributesAssumption
    <3> QED
      BY <3>1, <3>2 DEF Seconds
  <2>2. timeouts' \in [Timeouts -> Nat] /\ last'.ok = TRUE /\ UNCHANGED <<services, servers>>
    BY <1>9, <2>1 DEF SetConfig, Answer, Known
  <2> QED
    BY <2>2 DEF Known, KnownTable, KnownServices, KnownServers
<1>10. CASE UNCHANGED vars
  BY <1>10 DEF vars, kernel, Known, KnownTable, KnownServices, KnownServers
<1> QED
  BY <1>2, <1>3, <1>4, <1>5, <1>6, <1>7, <1>8, <1>9, <1>10 DEF Next

LEMMA KnownStart == Init => Known
BY DEF Init, Known, KnownTable, KnownServices, KnownServers

(* The kernel keeps addresses of full length and ports of two bytes,       *)
(* whichever form of net.IP a caller uses, and no destination outlives its *)
(* service.                                                                *)
THEOREM TypeCorrect == Spec => []TypeOK
BY KnownStart, KnownStep, KnownTyped, PTL DEF Spec

-----------------------------------------------------------------------------
(* What the kernel's keys mean *)

LEMMA MeantName ==
  ASSUME FamiliesAgree, NEW s \in Services
  PROVE  MeantService(ServiceKey(s)) = Named(s) /\ assembleService(ServiceKey(s)) = Named(s)
<1>1. s \in [family : Families, mark : Nat, proto : STRING, addr : Addresses, port : Ports]
  BY CallerTypes
<1>2. /\ Named(s) = [family |-> s.family, mark |-> s.mark, proto |-> s.proto, addr |-> Host(s.addr), port |-> s.port]
  BY <1>1 DEF Named
<1>3. CASE s.mark # NoMark
  <2>1. ServiceKey(s) = [family |-> s.family, mark |-> s.mark]
    BY <1>3, ServiceKeyForm
  <2>2. s.proto = "none" /\ Host(s.addr) = <<>> /\ s.port = 0
    BY <1>1, <1>3, HostForm DEF FamiliesAgree
  <2> QED
    BY <1>2, <2>1, <2>2 DEF MeantService, assembleService
<1>4. CASE s.mark = NoMark
  <2> DEFINE a == KernelAddr(s.family, Host(s.addr))
             b == BigEndian(s.port)
             k == [family |-> s.family, proto |-> s.proto, addr |-> a, port |-> b]
  <2>1. ServiceKey(s) = k
    BY <1>4, ServiceKeyForm
  <2>2. FromBigEndian(b) = s.port
    BY <1>1, PortBytes
  <2>3. s.addr # <<>> /\ FamilyOf(s.addr) = s.family
    BY <1>4 DEF FamiliesAgree
  <2>4. (IF s.family = "INET" THEN SubSeq(a, 1, Short) ELSE a) = Host(s.addr)
    BY <1>1, <2>3, HostForm, KernelAddrFour, KernelAddrSix DEF Families
  <2>5. parseIP(a, s.family) = Host(s.addr)
    <3>1. s.family # "INET" => SubSeq(a, 1, Long) = a
      <4>1. a \in Bytes(Long)
        BY <1>1, HostForm, KernelAddrForm
      <4> HIDE DEF a
      <4>2. SubSeq(a, 1, Long) = [i \in 1..Long |-> a[i]]
        BY <4>1, FirstBytes, AttributesAssumption
      <4> QED
        BY <4>1, <4>2 DEF Bytes
    <3> QED
      BY <2>4, <3>1 DEF parseIP
  <2> HIDE DEF a, b
  <2>6. /\ "mark" \notin DOMAIN k /\ k.family = s.family /\ k.proto = s.proto /\ k.addr = a /\ k.port = b
    OBVIOUS
  <2> HIDE DEF k
  <2> QED
    BY <1>2, <1>4, <2>1, <2>2, <2>4, <2>5, <2>6 DEF MeantService, assembleService
<1> QED
  BY <1>3, <1>4

LEMMA MeantEndpoint ==
  ASSUME FamiliesAgree, NEW s \in Services, NEW d \in Targets[s], d.addr # <<>>
  PROVE  /\ MeantServer(ServerKey(s, d)) = <<Named(s), Endpoint(d)>>
         /\ IsHost(s.family, ServerKey(s, d)[2].addr) <=> IsHost(Endpoint(d).family, Endpoint(d).addr)
<1> DEFINE a == KernelAddr(s.family, Host(d.addr))
<1>1. /\ s.family \in Families /\ d.addr \in Addresses /\ d.port \in Ports
      /\ FamilyOf(d.addr) = s.family /\ ServiceKey(s).family = s.family
  BY CallerTypes, ServiceKeyForm DEF FamiliesAgree
<1>2. FromBigEndian(BigEndian(d.port)) = d.port
  BY <1>1, PortBytes
<1>3. (IF s.family = "INET" THEN SubSeq(a, 1, Short) ELSE a) = Host(d.addr)
  BY <1>1, HostForm, KernelAddrFour, KernelAddrSix DEF Families
<1>4. IsHost(s.family, a) <=> IsHost(s.family, Host(d.addr))
  <2>1. CASE s.family = "INET"
    <3>1. a[1] = Host(d.addr)[1]
      BY <1>1, <2>1, HostForm, KernelAddrFour
    <3> QED
      BY <2>1, <3>1 DEF IsHost
  <2>2. CASE s.family = "INET6"
    <3>1. a = Host(d.addr)
      BY <1>1, <2>2, HostForm, KernelAddrSix
    <3> QED
      BY <3>1
  <2> QED
    BY <1>1, <2>1, <2>2 DEF Families
<1>5. Endpoint(d) = [family |-> s.family, addr |-> Host(d.addr), port |-> d.port]
  BY <1>1 DEF Endpoint
<1> HIDE DEF a
<1>6. ServerKey(s, d) = <<ServiceKey(s), [addr |-> a, port |-> BigEndian(d.port)]>>
  BY ServerKeyForm DEF a
<1> DEFINE x == ServerKey(s, d)
<1>7. x[1] = ServiceKey(s) /\ x[2].addr = a /\ x[2].port = BigEndian(d.port)
  BY <1>6
<1> HIDE DEF x
<1>8. MeantServer(x) = <<MeantService(ServiceKey(s)), [family |-> s.family, port |-> d.port, addr |-> Host(d.addr)]>>
  BY <1>1, <1>2, <1>3, <1>7 DEF MeantServer
<1>9. MeantServer(x) = <<Named(s), Endpoint(d)>>
  BY <1>5, <1>8, MeantName
<1>10. IsHost(s.family, x[2].addr) <=> IsHost(Endpoint(d).family, Endpoint(d).addr)
  BY <1>4, <1>5, <1>7
<1> QED
  BY <1>9, <1>10 DEF x

LEMMA NoHost ==
  ASSUME NEW s \in Services, NEW d \in Targets[s], d.addr = <<>>
  PROVE  ~IsHost(s.family, ServerKey(s, d)[2].addr)
<1>1. s.family \in Families /\ d.addr \in Addresses
  BY CallerTypes
<1>2. ServerKey(s, d)[2].addr = KernelAddr(s.family, <<>>)
  BY <1>1, HostForm, ServerKeyForm
<1> QED
  BY <1>1, <1>2, KernelAddrNone

(* What callers mean tells the kernel's key.                               *)
LEMMA KeyOfName ==
  ASSUME NEW s \in Services, NEW t \in Services, Named(s) = Named(t)
  PROVE  ServiceKey(s) = ServiceKey(t) /\ s.family = t.family
<1>1. /\ s \in [family : Families, mark : Nat, proto : STRING, addr : Addresses, port : Ports]
      /\ t \in [family : Families, mark : Nat, proto : STRING, addr : Addresses, port : Ports]
  BY CallerTypes
<1>2. s.family = t.family /\ s.mark = t.mark /\ s.proto = t.proto /\ Host(s.addr) = Host(t.addr) /\ s.port = t.port
  BY <1>1 DEF Named
<1> QED
  BY <1>2, ServiceKeyForm

LEMMA KeyOfEndpoint ==
  ASSUME NEW s \in Services, NEW t \in Services, NEW d \in Targets[s], NEW e \in Targets[t],
         Named(s) = Named(t), Endpoint(d) = Endpoint(e)
  PROVE  ServerKey(s, d) = ServerKey(t, e)
<1>1. Host(d.addr) = Host(e.addr) /\ d.port = e.port
  BY DEF Endpoint
<1> QED
  BY <1>1, KeyOfName, ServerKeyForm

-----------------------------------------------------------------------------
(* The kernel's table, read for what it means *)

LEMMA SameFunction ==
  ASSUME NEW f, NEW g, f = [x \in DOMAIN f |-> f[x]], g = [x \in DOMAIN g |-> g[x]],
         \A x : x \in DOMAIN f <=> x \in DOMAIN g, \A x \in DOMAIN f : f[x] = g[x]
  PROVE  f = g
<1>1. DOMAIN f = DOMAIN g
  OBVIOUS
<1>2. [x \in DOMAIN f |-> f[x]] = [x \in DOMAIN g |-> g[x]]
  BY <1>1
<1> QED
  BY <1>2

LEMMA NoFunction ==
  ASSUME NEW f, f = [x \in DOMAIN f |-> f[x]], \A x : x \notin DOMAIN f
  PROVE  f = <<>>
<1>1. DOMAIN f = {}
  OBVIOUS
<1>2. [x \in DOMAIN f |-> f[x]] = <<>>
  BY <1>1
<1> QED
  BY <1>2

LEMMA NamedInjective ==
  ASSUME FamiliesAgree, NEW s \in Services, NEW t \in Services
  PROVE  Named(s) = Named(t) <=> ServiceKey(s) = ServiceKey(t)
BY MeantName, KeyOfName

LEMMA ServicesMeantAre ==
  ASSUME FamiliesAgree, NEW f, KnownServices(f)
  PROVE  /\ ServicesMeant(f) = [y \in DOMAIN ServicesMeant(f) |-> ServicesMeant(f)[y]]
         /\ \A y \in DOMAIN ServicesMeant(f) : \E s \in Services : y = Named(s)
         /\ \A s \in Services : Named(s) \in DOMAIN ServicesMeant(f) <=> ServiceKey(s) \in DOMAIN f
         /\ \A s \in Services : ServiceKey(s) \in DOMAIN f => ServicesMeant(f)[Named(s)] = f[ServiceKey(s)]
<1>1. \A x \in DOMAIN f : \E s \in Services : x = ServiceKey(s) /\ MeantService(x) = Named(s)
  BY MeantName DEF KnownServices
<1>2. \A y : y \in DOMAIN ServicesMeant(f) <=> \E x \in DOMAIN f : MeantService(x) = y
  BY DEF ServicesMeant
<1>3. \A s \in Services : Named(s) \in DOMAIN ServicesMeant(f) <=> ServiceKey(s) \in DOMAIN f
  BY <1>1, <1>2, MeantName, KeyOfName
<1>4. ASSUME NEW s \in Services, ServiceKey(s) \in DOMAIN f
      PROVE  ServicesMeant(f)[Named(s)] = f[ServiceKey(s)]
  <2> DEFINE y == Named(s)
             c == CHOOSE x \in DOMAIN f : MeantService(x) = y
  <2>1. y \in {MeantService(x) : x \in DOMAIN f} /\ MeantService(ServiceKey(s)) = y
    BY <1>4, MeantName
  <2>2. c \in DOMAIN f /\ MeantService(c) = y
    BY <1>4, <2>1
  <2>3. c = ServiceKey(s)
    <3>1. PICK t \in Services : c = ServiceKey(t) /\ MeantService(c) = Named(t)
      BY <1>1, <2>2
    <3> QED
      BY <2>2, <3>1, KeyOfName
  <2>4. ServicesMeant(f)[y] = f[c]
    BY <2>1 DEF ServicesMeant
  <2> QED
    BY <2>3, <2>4
<1>5. ServicesMeant(f) = [y \in DOMAIN ServicesMeant(f) |-> ServicesMeant(f)[y]]
  BY DEF ServicesMeant
<1> QED
  BY <1>1, <1>2, <1>3, <1>4, <1>5

LEMMA WithService ==
  ASSUME FamiliesAgree, NEW f, KnownServices(f), NEW s \in Services, NEW v
  PROVE  ServicesMeant(With(f, ServiceKey(s), v)) = With(ServicesMeant(f), Named(s), v)
<1> DEFINE g == With(f, ServiceKey(s), v)
           F == ServicesMeant(g)
           G == With(ServicesMeant(f), Named(s), v)
<1>1. /\ DOMAIN g = DOMAIN f \cup {ServiceKey(s)}
      /\ \A x \in DOMAIN g : g[x] = IF x = ServiceKey(s) THEN v ELSE f[x]
  BY DEF With
<1>2. KnownServices(g)
  BY <1>1 DEF KnownServices
<1> HIDE DEF g
<1>3. /\ F = [y \in DOMAIN F |-> F[y]]
      /\ \A y \in DOMAIN F : \E t \in Services : y = Named(t)
      /\ \A t \in Services : Named(t) \in DOMAIN F <=> ServiceKey(t) \in DOMAIN g
      /\ \A t \in Services : ServiceKey(t) \in DOMAIN g => F[Named(t)] = g[ServiceKey(t)]
  BY <1>2, ServicesMeantAre
<1>4. /\ \A y \in DOMAIN ServicesMeant(f) : \E t \in Services : y = Named(t)
      /\ \A t \in Services : Named(t) \in DOMAIN ServicesMeant(f) <=> ServiceKey(t) \in DOMAIN f
      /\ \A t \in Services : ServiceKey(t) \in DOMAIN f => ServicesMeant(f)[Named(t)] = f[ServiceKey(t)]
  BY ServicesMeantAre
<1>5. /\ G = [y \in DOMAIN G |-> G[y]]
      /\ \A y : y \in DOMAIN G <=> y \in DOMAIN ServicesMeant(f) \/ y = Named(s)
      /\ \A y \in DOMAIN G : G[y] = IF y = Named(s) THEN v ELSE ServicesMeant(f)[y]
  BY DEF With
<1> HIDE DEF F, G
<1>6. \A t \in Services : Named(s) = Named(t) <=> ServiceKey(s) = ServiceKey(t)
  BY NamedInjective
<1>7. \A y : y \in DOMAIN F <=> y \in DOMAIN G
  BY <1>1, <1>3, <1>4, <1>5, <1>6
<1>8. ASSUME NEW y \in DOMAIN F
      PROVE  F[y] = G[y]
  <2>1. PICK t \in Services : y = Named(t)
    BY <1>3
  <2>2. F[y] = g[ServiceKey(t)] /\ ServiceKey(t) \in DOMAIN g
    BY <1>3, <2>1
  <2>3. G[y] = IF y = Named(s) THEN v ELSE ServicesMeant(f)[y]
    BY <1>5, <1>7
  <2> QED
    BY <1>1, <1>4, <1>6, <2>1, <2>2, <2>3
<1>9. F = G
  BY <1>3, <1>5, <1>7, <1>8, SameFunction
<1> QED
  BY <1>9 DEF F, G, g

LEMMA WithoutService ==
  ASSUME FamiliesAgree, NEW f, KnownServices(f), NEW s \in Services
  PROVE  ServicesMeant(Without(f, {ServiceKey(s)})) = Without(ServicesMeant(f), {Named(s)})
<1> DEFINE g == Without(f, {ServiceKey(s)})
           F == ServicesMeant(g)
           G == Without(ServicesMeant(f), {Named(s)})
<1>1. /\ \A x : x \in DOMAIN g <=> x \in DOMAIN f /\ x # ServiceKey(s)
      /\ \A x \in DOMAIN g : g[x] = f[x]
  BY DEF Without
<1>2. KnownServices(g)
  BY <1>1 DEF KnownServices
<1> HIDE DEF g
<1>3. /\ F = [y \in DOMAIN F |-> F[y]]
      /\ \A y \in DOMAIN F : \E t \in Services : y = Named(t)
      /\ \A t \in Services : Named(t) \in DOMAIN F <=> ServiceKey(t) \in DOMAIN g
      /\ \A t \in Services : ServiceKey(t) \in DOMAIN g => F[Named(t)] = g[ServiceKey(t)]
  BY <1>2, ServicesMeantAre
<1>4. /\ \A y \in DOMAIN ServicesMeant(f) : \E t \in Services : y = Named(t)
      /\ \A t \in Services : Named(t) \in DOMAIN ServicesMeant(f) <=> ServiceKey(t) \in DOMAIN f
      /\ \A t \in Services : ServiceKey(t) \in DOMAIN f => ServicesMeant(f)[Named(t)] = f[ServiceKey(t)]
  BY ServicesMeantAre
<1>5. /\ G = [y \in DOMAIN G |-> G[y]]
      /\ \A y : y \in DOMAIN G <=> y \in DOMAIN ServicesMeant(f) /\ y # Named(s)
      /\ \A y \in DOMAIN G : G[y] = ServicesMeant(f)[y]
  BY DEF Without
<1> HIDE DEF F, G
<1>6. \A t \in Services : Named(s) = Named(t) <=> ServiceKey(s) = ServiceKey(t)
  BY NamedInjective
<1>7. \A y : y \in DOMAIN F <=> y \in DOMAIN G
  BY <1>1, <1>3, <1>4, <1>5, <1>6
<1>8. \A y \in DOMAIN F : F[y] = G[y]
  BY <1>1, <1>3, <1>4, <1>5, <1>7
<1>9. F = G
  BY <1>3, <1>5, <1>7, <1>8, SameFunction
<1> QED
  BY <1>9 DEF F, G, g

LEMMA NothingMeant == ServicesMeant(<<>>) = <<>> /\ ServersMeant(<<>>) = <<>>
<1>1. /\ ServicesMeant(<<>>) = [y \in DOMAIN ServicesMeant(<<>>) |-> ServicesMeant(<<>>)[y]]
      /\ \A y : y \notin DOMAIN ServicesMeant(<<>>)
  BY DEF ServicesMeant
<1>2. /\ ServersMeant(<<>>) = [y \in DOMAIN ServersMeant(<<>>) |-> ServersMeant(<<>>)[y]]
      /\ \A y : y \notin DOMAIN ServersMeant(<<>>)
  BY DEF ServersMeant
<1> QED
  BY <1>1, <1>2, NoFunction

(* Server x is d of service s, and d is a host.                            *)
ServerIs(x, s, d) == x = ServerKey(s, d) /\ IsHost(s.family, ServerKey(s, d)[2].addr) /\ d.addr # <<>>

LEMMA ServerIsKnown ==
  ASSUME NEW g, KnownServers(g), NEW x \in DOMAIN g
  PROVE  \E s \in Services : \E d \in Targets[s] : ServerIs(x, s, d)
BY NoHost DEF KnownServers, ServerIs

LEMMA ServerOfKey ==
  ASSUME NEW g, KnownServers(g), NEW s \in Services, NEW d \in Targets[s], ServerKey(s, d) \in DOMAIN g
  PROVE  ServerIs(ServerKey(s, d), s, d)
<1>1. PICK t \in Services : \E e \in Targets[t] : ServerIs(ServerKey(s, d), t, e)
  BY ServerIsKnown
<1>2. PICK e \in Targets[t] : ServerIs(ServerKey(s, d), t, e)
  BY <1>1
<1>3. ServiceKey(s) = ServiceKey(t)
  BY <1>2 DEF ServerIs, ServerKey
<1>4. s.family = t.family
  BY <1>3, ServiceKeyForm
<1>5. IsHost(s.family, ServerKey(s, d)[2].addr)
  BY <1>2, <1>4 DEF ServerIs
<1> QED
  BY <1>5, NoHost DEF ServerIs

LEMMA MeantOf ==
  ASSUME FamiliesAgree, NEW x, NEW s \in Services, NEW d \in Targets[s], ServerIs(x, s, d)
  PROVE  MeantServer(x) = <<Named(s), Endpoint(d)>>
BY MeantEndpoint DEF ServerIs

LEMMA EndpointInjective ==
  ASSUME FamiliesAgree, NEW s \in Services, NEW d \in Targets[s], NEW t \in Services, NEW e \in Targets[t],
         d.addr # <<>>, e.addr # <<>>
  PROVE  <<Named(s), Endpoint(d)>> = <<Named(t), Endpoint(e)>> <=> ServerKey(s, d) = ServerKey(t, e)
<1>1. <<Named(s), Endpoint(d)>> = <<Named(t), Endpoint(e)>> => ServerKey(s, d) = ServerKey(t, e)
  BY KeyOfEndpoint
<1>2. ServerKey(s, d) = ServerKey(t, e) => <<Named(s), Endpoint(d)>> = <<Named(t), Endpoint(e)>>
  BY MeantEndpoint
<1> QED
  BY <1>1, <1>2

LEMMA ServersMeantAre ==
  ASSUME FamiliesAgree, NEW g, KnownServers(g)
  PROVE  /\ ServersMeant(g) = [y \in DOMAIN ServersMeant(g) |-> ServersMeant(g)[y]]
         /\ \A y \in DOMAIN ServersMeant(g) : \E s \in Services : \E d \in Targets[s] :
              y = <<Named(s), Endpoint(d)>> /\ ServerKey(s, d) \in DOMAIN g /\ d.addr # <<>>
         /\ \A s \in Services : \A d \in Targets[s] :
              ServerKey(s, d) \in DOMAIN g =>
                /\ <<Named(s), Endpoint(d)>> \in DOMAIN ServersMeant(g) /\ d.addr # <<>>
                /\ ServersMeant(g)[<<Named(s), Endpoint(d)>>] = WeightRead(g[ServerKey(s, d)])
         /\ \A s \in Services : \A d \in Targets[s] :
              <<Named(s), Endpoint(d)>> \in DOMAIN ServersMeant(g) => ServerKey(s, d) \in DOMAIN g
<1>1. \A y : y \in DOMAIN ServersMeant(g) <=> \E x \in DOMAIN g : MeantServer(x) = y
  BY DEF ServersMeant
<1>2. ASSUME NEW y \in DOMAIN ServersMeant(g)
      PROVE  \E s \in Services : \E d \in Targets[s] :
               y = <<Named(s), Endpoint(d)>> /\ ServerKey(s, d) \in DOMAIN g /\ d.addr # <<>>
  <2>1. PICK x \in DOMAIN g : MeantServer(x) = y
    BY <1>1
  <2>2. PICK s \in Services : \E d \in Targets[s] : ServerIs(x, s, d)
    BY ServerIsKnown
  <2>3. PICK d \in Targets[s] : ServerIs(x, s, d)
    BY <2>2
  <2> QED
    BY <2>1, <2>3, MeantOf DEF ServerIs
<1>3. ASSUME NEW s \in Services, NEW d \in Targets[s], ServerKey(s, d) \in DOMAIN g
      PROVE  /\ <<Named(s), Endpoint(d)>> \in DOMAIN ServersMeant(g) /\ d.addr # <<>>
             /\ ServersMeant(g)[<<Named(s), Endpoint(d)>>] = WeightRead(g[ServerKey(s, d)])
  <2> DEFINE y == <<Named(s), Endpoint(d)>>
             c == CHOOSE x \in DOMAIN g : MeantServer(x) = y
  <2>1. ServerIs(ServerKey(s, d), s, d)
    BY <1>3, ServerOfKey
  <2>2. MeantServer(ServerKey(s, d)) = y
    BY <2>1, MeantOf
  <2>3. y \in {MeantServer(x) : x \in DOMAIN g}
    BY <1>3, <2>2
  <2>4. c \in DOMAIN g /\ MeantServer(c) = y
    BY <1>3, <2>2
  <2>5. c = ServerKey(s, d)
    <3>1. PICK t \in Services : \E e \in Targets[t] : ServerIs(c, t, e)
      BY <2>4, ServerIsKnown
    <3>2. PICK e \in Targets[t] : ServerIs(c, t, e)
      BY <3>1
    <3>3. <<Named(t), Endpoint(e)>> = y
      BY <2>4, <3>2, MeantOf
    <3>4. Named(t) = Named(s) /\ Endpoint(e) = Endpoint(d)
      BY <3>3
    <3>5. ServerKey(t, e) = ServerKey(s, d)
      BY <3>4, KeyOfEndpoint
    <3> QED
      BY <3>2, <3>5 DEF ServerIs
  <2>6. ServersMeant(g)[y] = WeightRead(g[c])
    BY <2>3 DEF ServersMeant
  <2>7. y \in DOMAIN ServersMeant(g)
    BY <1>1, <1>3, <2>2
  <2> HIDE DEF c
  <2> QED
    BY <2>1, <2>5, <2>6, <2>7 DEF ServerIs
<1>4. ASSUME NEW s \in Services, NEW d \in Targets[s], <<Named(s), Endpoint(d)>> \in DOMAIN ServersMeant(g)
      PROVE  ServerKey(s, d) \in DOMAIN g
  <2>1. PICK t \in Services : \E e \in Targets[t] :
          <<Named(s), Endpoint(d)>> = <<Named(t), Endpoint(e)>> /\ ServerKey(t, e) \in DOMAIN g
    BY <1>2, <1>4
  <2>2. PICK e \in Targets[t] :
          <<Named(s), Endpoint(d)>> = <<Named(t), Endpoint(e)>> /\ ServerKey(t, e) \in DOMAIN g
    BY <2>1
  <2>3. ServerKey(s, d) = ServerKey(t, e)
    BY <2>2, KeyOfEndpoint
  <2> QED
    BY <2>2, <2>3
<1>5. ServersMeant(g) = [y \in DOMAIN ServersMeant(g) |-> ServersMeant(g)[y]]
  BY DEF ServersMeant
<1> QED
  BY <1>2, <1>3, <1>4, <1>5

LEMMA WithServer ==
  ASSUME FamiliesAgree, NEW g, KnownServers(g), NEW s \in Services, NEW d \in Targets[s], NEW w \in Weights,
         IsHost(s.family, ServerKey(s, d)[2].addr)
  PROVE  ServersMeant(With(g, ServerKey(s, d), w)) = With(ServersMeant(g), <<Named(s), Endpoint(d)>>, WeightRead(w))
<1> DEFINE h == With(g, ServerKey(s, d), w)
           p == <<Named(s), Endpoint(d)>>
           F == ServersMeant(h)
           G == With(ServersMeant(g), p, WeightRead(w))
<1>1. /\ \A x : x \in DOMAIN h <=> x \in DOMAIN g \/ x = ServerKey(s, d)
      /\ \A x \in DOMAIN h : h[x] = IF x = ServerKey(s, d) THEN w ELSE g[x]
  BY DEF With
<1>2. KnownServers(h) /\ d.addr # <<>>
  BY <1>1, NoHost DEF KnownServers
<1> HIDE DEF h
<1>3. /\ F = [y \in DOMAIN F |-> F[y]]
      /\ \A y \in DOMAIN F : \E t \in Services : \E e \in Targets[t] :
           y = <<Named(t), Endpoint(e)>> /\ ServerKey(t, e) \in DOMAIN h /\ e.addr # <<>>
      /\ \A t \in Services : \A e \in Targets[t] :
           ServerKey(t, e) \in DOMAIN h =>
             /\ <<Named(t), Endpoint(e)>> \in DOMAIN F /\ e.addr # <<>>
             /\ F[<<Named(t), Endpoint(e)>>] = WeightRead(h[ServerKey(t, e)])
  BY <1>2, ServersMeantAre
<1>4. /\ \A y \in DOMAIN ServersMeant(g) : \E t \in Services : \E e \in Targets[t] :
           y = <<Named(t), Endpoint(e)>> /\ ServerKey(t, e) \in DOMAIN g /\ e.addr # <<>>
      /\ \A t \in Services : \A e \in Targets[t] :
           ServerKey(t, e) \in DOMAIN g =>
             /\ <<Named(t), Endpoint(e)>> \in DOMAIN ServersMeant(g) /\ e.addr # <<>>
             /\ ServersMeant(g)[<<Named(t), Endpoint(e)>>] = WeightRead(g[ServerKey(t, e)])
  BY ServersMeantAre
<1>5. /\ G = [y \in DOMAIN G |-> G[y]]
      /\ \A y : y \in DOMAIN G <=> y \in DOMAIN ServersMeant(g) \/ y = p
      /\ \A y \in DOMAIN G : G[y] = IF y = p THEN WeightRead(w) ELSE ServersMeant(g)[y]
  BY DEF With
<1> HIDE DEF F, G
<1>6. \A t \in Services : \A e \in Targets[t] :
        e.addr # <<>> => (<<Named(t), Endpoint(e)>> = p <=> ServerKey(t, e) = ServerKey(s, d))
  BY <1>2, EndpointInjective
<1> HIDE DEF p
<1>7. ASSUME NEW y \in DOMAIN F
      PROVE  y \in DOMAIN G /\ F[y] = G[y]
  <2>1. PICK t \in Services : \E e \in Targets[t] :
          y = <<Named(t), Endpoint(e)>> /\ ServerKey(t, e) \in DOMAIN h /\ e.addr # <<>>
    BY <1>3
  <2>2. PICK e \in Targets[t] : y = <<Named(t), Endpoint(e)>> /\ ServerKey(t, e) \in DOMAIN h /\ e.addr # <<>>
    BY <2>1
  <2>3. y = p <=> ServerKey(t, e) = ServerKey(s, d)
    BY <1>6, <2>2
  <2>4. F[y] = WeightRead(h[ServerKey(t, e)])
    BY <1>3, <2>2
  <2>5. CASE ServerKey(t, e) = ServerKey(s, d)
    BY <1>1, <1>5, <2>2, <2>3, <2>4, <2>5
  <2>6. CASE ServerKey(t, e) # ServerKey(s, d)
    <3>1. ServerKey(t, e) \in DOMAIN g /\ h[ServerKey(t, e)] = g[ServerKey(t, e)] /\ y # p
      BY <1>1, <2>2, <2>3, <2>6
    <3>2. y \in DOMAIN ServersMeant(g) /\ ServersMeant(g)[y] = WeightRead(g[ServerKey(t, e)])
      BY <1>4, <2>2, <3>1
    <3> QED
      BY <1>5, <2>4, <3>1, <3>2
  <2> QED
    BY <2>5, <2>6
<1>8. ASSUME NEW y \in DOMAIN G
      PROVE  y \in DOMAIN F
  <2>1. CASE y = p
    BY <1>1, <1>3, <2>1 DEF p
  <2>2. CASE y \in DOMAIN ServersMeant(g)
    BY <1>1, <1>3, <1>4, <2>2
  <2> QED
    BY <1>5, <2>1, <2>2
<1>9. F = G
  BY <1>3, <1>5, <1>7, <1>8, SameFunction
<1> QED
  BY <1>9 DEF F, G, h, p

LEMMA WithoutServersMeant ==
  ASSUME FamiliesAgree, NEW g, KnownServers(g), NEW S, NEW T,
         \A t \in Services : \A e \in Targets[t] :
           ServerKey(t, e) \in DOMAIN g /\ e.addr # <<>> => (ServerKey(t, e) \in S <=> <<Named(t), Endpoint(e)>> \in T)
  PROVE  ServersMeant(Without(g, S)) = Without(ServersMeant(g), T)
<1> DEFINE h == Without(g, S)
           F == ServersMeant(h)
           G == Without(ServersMeant(g), T)
<1>1. /\ \A x : x \in DOMAIN h <=> x \in DOMAIN g /\ x \notin S
      /\ \A x \in DOMAIN h : h[x] = g[x]
  BY DEF Without
<1>2. KnownServers(h)
  BY <1>1 DEF KnownServers
<1> HIDE DEF h
<1>3. /\ F = [y \in DOMAIN F |-> F[y]]
      /\ \A y \in DOMAIN F : \E t \in Services : \E e \in Targets[t] :
           y = <<Named(t), Endpoint(e)>> /\ ServerKey(t, e) \in DOMAIN h /\ e.addr # <<>>
      /\ \A t \in Services : \A e \in Targets[t] :
           ServerKey(t, e) \in DOMAIN h =>
             /\ <<Named(t), Endpoint(e)>> \in DOMAIN F /\ e.addr # <<>>
             /\ F[<<Named(t), Endpoint(e)>>] = WeightRead(h[ServerKey(t, e)])
  BY <1>2, ServersMeantAre
<1>4. /\ \A y \in DOMAIN ServersMeant(g) : \E t \in Services : \E e \in Targets[t] :
           y = <<Named(t), Endpoint(e)>> /\ ServerKey(t, e) \in DOMAIN g /\ e.addr # <<>>
      /\ \A t \in Services : \A e \in Targets[t] :
           ServerKey(t, e) \in DOMAIN g =>
             /\ <<Named(t), Endpoint(e)>> \in DOMAIN ServersMeant(g) /\ e.addr # <<>>
             /\ ServersMeant(g)[<<Named(t), Endpoint(e)>>] = WeightRead(g[ServerKey(t, e)])
  BY ServersMeantAre
<1>5. /\ G = [y \in DOMAIN G |-> G[y]]
      /\ \A y : y \in DOMAIN G <=> y \in DOMAIN ServersMeant(g) /\ y \notin T
      /\ \A y \in DOMAIN G : G[y] = ServersMeant(g)[y]
  BY DEF Without
<1> HIDE DEF F, G
<1>6. ASSUME NEW y \in DOMAIN F
      PROVE  y \in DOMAIN G /\ F[y] = G[y]
  <2>1. PICK t \in Services : \E e \in Targets[t] :
          y = <<Named(t), Endpoint(e)>> /\ ServerKey(t, e) \in DOMAIN h /\ e.addr # <<>>
    BY <1>3
  <2>2. PICK e \in Targets[t] : y = <<Named(t), Endpoint(e)>> /\ ServerKey(t, e) \in DOMAIN h /\ e.addr # <<>>
    BY <2>1
  <2>3. ServerKey(t, e) \in DOMAIN g /\ y \notin T /\ h[ServerKey(t, e)] = g[ServerKey(t, e)]
    BY <1>1, <2>2
  <2> QED
    BY <1>3, <1>4, <1>5, <2>2, <2>3
<1>7. ASSUME NEW y \in DOMAIN G
      PROVE  y \in DOMAIN F
  <2>1. PICK t \in Services : \E e \in Targets[t] :
          y = <<Named(t), Endpoint(e)>> /\ ServerKey(t, e) \in DOMAIN g /\ e.addr # <<>>
    BY <1>4, <1>5
  <2> QED
    BY <1>1, <1>3, <1>5, <2>1
<1>8. F = G
  BY <1>3, <1>5, <1>6, <1>7, SameFunction
<1> QED
  BY <1>8 DEF F, G, h

-----------------------------------------------------------------------------
(* Every call on the kernel is the one of the table *)

LEMMA TableWith ==
  /\ \A f, x, v : Table!With(f, x, v) = With(f, x, v)
  /\ \A f, S : Table!Without(f, S) = Without(f, S)
BY DEF Table!With, With, Table!Without, Without

LEMMA ChangeMeans ==
  ASSUME NEW call, NEW can \in BOOLEAN, NEW f, NEW g, Change(call, can, f, g),
         NEW F, NEW G, can => ServicesMeant(f) = F /\ ServersMeant(g) = G
  PROVE  Table!Change(call, can, F, G)
<1>1. /\ services' = IF can THEN f ELSE services
      /\ servers' = IF can THEN g ELSE servers
      /\ last' = [call |-> call, ok |-> can, list |-> {}]
      /\ timeouts' = timeouts
  BY DEF Change, Answer
<1>2. /\ ServicesMeant(services)' = ServicesMeant(services')
      /\ ServersMeant(servers)' = ServersMeant(servers')
      /\ Spanning(timeouts)' = Spanning(timeouts')
  BY DEF ServicesMeant, ServersMeant, Spanning, MeantService, MeantServer, WeightRead, FromBigEndian
<1>3. Table!Answer(call, can, {})
  BY <1>1 DEF Table!Answer
<1> QED
  BY <1>1, <1>2, <1>3 DEF Table!Change

LEMMA ListMeans ==
  ASSUME NEW call, NEW ok \in BOOLEAN, NEW list, List(call, ok, list)
  PROVE  Table!List(call, ok, list)
<1>1. UNCHANGED <<services, servers, timeouts>> /\ last' = [call |-> call, ok |-> ok, list |-> list]
  BY DEF List, Answer, kernel
<1>2. UNCHANGED <<ServicesMeant(services), ServersMeant(servers), Spanning(timeouts)>>
  BY <1>1 DEF ServicesMeant, ServersMeant, Spanning
<1>3. Table!Answer(call, ok, list)
  BY <1>1 DEF Table!Answer
<1> QED
  BY <1>2, <1>3 DEF Table!List

LEMMA ThereMeans ==
  ASSUME FamiliesAgree, Known, NEW s \in Services
  PROVE  /\ Named(s) \in Keys
         /\ There(s) <=> Named(s) \in DOMAIN ServicesMeant(services)
         /\ There(s) => ServicesMeant(services)[Named(s)] = services[ServiceKey(s)]
BY ServicesMeantAre DEF Keys, There, Known, KnownTable

LEMMA EndpointMeans ==
  ASSUME NEW s \in Services, NEW d \in Targets[s], NEW w \in Weights
  PROVE  /\ Named(s) \in Keys /\ Endpoint(d) \in Endpoints[Named(s)]
         /\ WeightRead(w) \in WeightsMeant
BY DEF Keys, Endpoints, EndpointsOf, WeightsMeant

LEMMA UnusableMeans ==
  ASSUME FamiliesAgree, NEW s \in Services, NEW d \in Targets[s]
  PROVE  IsHost(s.family, ServerKey(s, d)[2].addr) <=> Endpoint(d) \notin Unusable
<1>1. Endpoint(d) \in UNION {Endpoints[k] : k \in Keys}
  BY DEF Keys, Endpoints, EndpointsOf
<1>2. Endpoint(d) \in Unusable <=> Endpoint(d).addr = <<>> \/ ~IsHost(Endpoint(d).family, Endpoint(d).addr)
  BY <1>1 DEF Unusable
<1>3. Endpoint(d).addr = <<>> <=> d.addr = <<>>
  BY CallerTypes, HostForm DEF Endpoint
<1> QED
  BY <1>2, <1>3, NoHost, MeantEndpoint

LEMMA PutServiceMeans ==
  ASSUME FamiliesAgree, Known, NEW s \in Services, NEW sched \in Scheds,
         NewService(s, sched) \/ UpdateService(s, sched)
  PROVE  Table!Next
<1>1. ServicesMeant(With(services, ServiceKey(s), sched)) = With(ServicesMeant(services), Named(s), sched)
  BY WithService DEF Known, KnownTable
<1>2. Table!With(ServicesMeant(services), Named(s), sched) = With(ServicesMeant(services), Named(s), sched)
  BY TableWith
<1>3. There(s) \in BOOLEAN
  BY DEF There
<1>4. There(s) = (Named(s) \in DOMAIN ServicesMeant(services))
  BY <1>3, ThereMeans
<1>5. CASE NewService(s, sched)
  <2>1. Table!Change(<<"NewService", Named(s), sched>>, ~There(s),
                     With(ServicesMeant(services), Named(s), sched), ServersMeant(servers))
    BY <1>1, <1>3, <1>5, ChangeMeans DEF NewService
  <2>2. Table!NewService(Named(s), sched)
    BY <1>2, <1>4, <2>1 DEF Table!NewService
  <2> QED
    BY <2>2, ThereMeans DEF Table!Next
<1>6. CASE UpdateService(s, sched)
  <2>1. Table!Change(<<"UpdateService", Named(s), sched>>, There(s),
                     With(ServicesMeant(services), Named(s), sched), ServersMeant(servers))
    BY <1>1, <1>3, <1>6, ChangeMeans DEF UpdateService
  <2>2. Table!UpdateService(Named(s), sched)
    BY <1>2, <1>4, <2>1 DEF Table!UpdateService
  <2> QED
    BY <2>2, ThereMeans DEF Table!Next
<1> QED
  BY <1>5, <1>6

(* The servers of a service are those whose name has it.                   *)
LEMMA ServersOfMeans ==
  ASSUME FamiliesAgree, Known, NEW s \in Services
  PROVE  /\ \A t \in Services : \A e \in Targets[t] :
              ServerKey(t, e) \in DOMAIN servers =>
                (ServerKey(t, e) \in ServersOf(ServiceKey(s)) <=>
                   <<Named(t), Endpoint(e)>> \in Table!ServersOf(Named(s)))
<1> SUFFICES ASSUME NEW t \in Services, NEW e \in Targets[t], ServerKey(t, e) \in DOMAIN servers
             PROVE  ServerKey(t, e) \in ServersOf(ServiceKey(s)) <=>
                      <<Named(t), Endpoint(e)>> \in Table!ServersOf(Named(s))
  OBVIOUS
<1>1. ServerKey(t, e)[1] = ServiceKey(t)
  BY DEF ServerKey
<1>2. <<Named(t), Endpoint(e)>> \in DOMAIN ServersMeant(servers)
  BY ServersMeantAre DEF Known, KnownTable
<1>3. <<Named(t), Endpoint(e)>> \in Table!ServersOf(Named(s)) <=> Named(t) = Named(s)
  BY <1>2 DEF Table!ServersOf
<1> QED
  BY <1>1, <1>3, NamedInjective DEF ServersOf

LEMMA DelServiceMeans ==
  ASSUME FamiliesAgree, Known, NEW s \in Services, DelService(s)
  PROVE  Table!Next
<1> DEFINE F == Without(ServicesMeant(services), {Named(s)})
           G == Without(ServersMeant(servers), Table!ServersOf(Named(s)))
<1>1. ServicesMeant(Without(services, {ServiceKey(s)})) = F
  BY WithoutService DEF Known, KnownTable
<1>2. ServersMeant(Without(servers, ServersOf(ServiceKey(s)))) = G
  BY WithoutServersMeant, ServersOfMeans DEF Known, KnownTable
<1>3. There(s) \in BOOLEAN
  BY DEF There
<1>4. F = Table!Without(ServicesMeant(services), {Named(s)})
      /\ G = Table!Without(ServersMeant(servers), Table!ServersOf(Named(s)))
  BY TableWith
<1> HIDE DEF F, G
<1>5. Table!Change(<<"DelService", Named(s)>>, There(s), F, G)
  BY <1>1, <1>2, <1>3, ChangeMeans DEF DelService
<1>6. There(s) = (Named(s) \in DOMAIN ServicesMeant(services))
  BY <1>3, ThereMeans
<1>7. Table!DelService(Named(s))
  BY <1>4, <1>5, <1>6 DEF Table!DelService
<1> QED
  BY <1>7, ThereMeans DEF Table!Next

LEMMA FlushMeans ==
  ASSUME Flush
  PROVE  Table!Next
<1>1. Table!Change(<<"Flush">>, TRUE, <<>>, <<>>)
  BY ChangeMeans, NothingMeant DEF Flush
<1> QED
  BY <1>1 DEF Table!Flush, Table!Next

LEMMA PutDestinationMeans ==
  ASSUME FamiliesAgree, Known, NEW s \in Services, NEW d \in Targets[s], NEW w \in Weights,
         NewDestination(s, d, w) \/ UpdateDestination(s, d, w)
  PROVE  Table!Next
<1> DEFINE key == ServerKey(s, d)
           p == <<Named(s), Endpoint(d)>>
           G == With(ServersMeant(servers), p, WeightRead(w))
<1>1. IsHost(s.family, key[2].addr) => ServersMeant(With(servers, key, w)) = G
  BY WithServer DEF Known, KnownTable
<1>2. Table!With(ServersMeant(servers), p, WeightRead(w)) = G
  BY TableWith
<1>3. key \in DOMAIN servers <=> p \in DOMAIN ServersMeant(servers)
  BY ServersMeantAre DEF Known, KnownTable
<1>4. key \in DOMAIN servers => IsHost(s.family, key[2].addr)
  BY ServerOfKey DEF Known, KnownTable, ServerIs
<1>5. IsHost(s.family, key[2].addr) <=> Endpoint(d) \notin Unusable
  BY UnusableMeans
<1>6. Named(s) \in Keys /\ Endpoint(d) \in Endpoints[Named(s)] /\ WeightRead(w) \in WeightsMeant
  BY EndpointMeans
<1> HIDE DEF G
<1>7. CASE NewDestination(s, d, w)
  <2> DEFINE can == There(s) /\ key \notin DOMAIN servers /\ IsHost(s.family, key[2].addr)
  <2>1. can \in BOOLEAN
    OBVIOUS
  <2>2. Change(<<"NewDestination", Named(s), Endpoint(d), WeightRead(w)>>, can, services, With(servers, key, w))
    BY <1>7 DEF NewDestination
  <2>3. can => ServicesMeant(services) = ServicesMeant(services) /\ ServersMeant(With(servers, key, w)) = G
    BY <1>1
  <2>4. can <=> Named(s) \in DOMAIN ServicesMeant(services) /\ p \notin DOMAIN ServersMeant(servers)
                  /\ Endpoint(d) \notin Unusable
    BY <1>3, <1>5, ThereMeans
  <2> HIDE DEF can
  <2>5. Table!Change(<<"NewDestination", Named(s), Endpoint(d), WeightRead(w)>>, can, ServicesMeant(services), G)
    BY <2>1, <2>2, <2>3, ChangeMeans
  <2>6. Table!NewDestination(Named(s), Endpoint(d), WeightRead(w))
    BY <1>2, <2>1, <2>4, <2>5 DEF Table!NewDestination
  <2> QED
    BY <1>6, <2>6 DEF Table!Next
<1>8. CASE UpdateDestination(s, d, w)
  <2> DEFINE can == key \in DOMAIN servers
  <2>1. can \in BOOLEAN
    OBVIOUS
  <2>2. Change(<<"UpdateDestination", Named(s), Endpoint(d), WeightRead(w)>>, can, services, With(servers, key, w))
    BY <1>8 DEF UpdateDestination
  <2>3. can => ServicesMeant(services) = ServicesMeant(services) /\ ServersMeant(With(servers, key, w)) = G
    BY <1>1, <1>4
  <2>4. can <=> p \in DOMAIN ServersMeant(servers)
    BY <1>3
  <2> HIDE DEF can
  <2>5. Table!Change(<<"UpdateDestination", Named(s), Endpoint(d), WeightRead(w)>>, can, ServicesMeant(services), G)
    BY <2>1, <2>2, <2>3, ChangeMeans
  <2>6. Table!UpdateDestination(Named(s), Endpoint(d), WeightRead(w))
    BY <1>2, <2>1, <2>4, <2>5 DEF Table!UpdateDestination
  <2> QED
    BY <1>6, <2>6 DEF Table!Next
<1> QED
  BY <1>7, <1>8

LEMMA DelDestinationMeans ==
  ASSUME FamiliesAgree, Known, NEW s \in Services, NEW d \in Targets[s], DelDestination(s, d)
  PROVE  Table!Next
<1> DEFINE key == ServerKey(s, d)
           p == <<Named(s), Endpoint(d)>>
           G == Without(ServersMeant(servers), {p})
           can == key \in DOMAIN servers
<1>1. can = (p \in DOMAIN ServersMeant(servers))
  BY ServersMeantAre DEF Known, KnownTable
<1>2. can => ServersMeant(Without(servers, {key})) = G
  <2> SUFFICES ASSUME can PROVE ServersMeant(Without(servers, {key})) = G
    OBVIOUS
  <2>1. d.addr # <<>>
    BY ServerOfKey DEF Known, KnownTable, ServerIs
  <2>2. \A t \in Services : \A e \in Targets[t] :
          e.addr # <<>> => (ServerKey(t, e) = key <=> <<Named(t), Endpoint(e)>> = p)
    BY <2>1, EndpointInjective
  <2>3. \A t \in Services : \A e \in Targets[t] :
          e.addr # <<>> => (ServerKey(t, e) \in {key} <=> <<Named(t), Endpoint(e)>> \in {p})
    BY <2>2
  <2> QED
    BY <2>3, WithoutServersMeant DEF Known, KnownTable
<1>3. Table!Without(ServersMeant(servers), {p}) = G
  BY TableWith
<1>4. can \in BOOLEAN
  OBVIOUS
<1>5. Change(<<"DelDestination", Named(s), Endpoint(d)>>, can, services, Without(servers, {key}))
  BY DEF DelDestination
<1> HIDE DEF G, can
<1>6. Table!Change(<<"DelDestination", Named(s), Endpoint(d)>>, can, ServicesMeant(services), G)
  BY <1>2, <1>4, <1>5, ChangeMeans
<1>7. Table!DelDestination(Named(s), Endpoint(d))
  BY <1>1, <1>3, <1>6 DEF Table!DelDestination
<1>8. Named(s) \in Keys /\ Endpoint(d) \in Endpoints[Named(s)]
  BY DEF Keys, Endpoints, EndpointsOf
<1> QED
  BY <1>7, <1>8 DEF Table!Next

(* The same services are listed.                                           *)
LEMMA ServicesListed ==
  ASSUME FamiliesAgree, Known, NEW K, K \subseteq DOMAIN services,
         NEW N, N \subseteq DOMAIN ServicesMeant(services),
         \A s \in Services : ServiceKey(s) \in K <=> Named(s) \in N
  PROVE  doGetServicesCmd(K) = Table!ServiceIn(N)
<1>1. \A k \in K : \E s \in Services : k = ServiceKey(s)
  BY DEF Known, KnownTable, KnownServices
<1>2. \A n \in N : \E s \in Services : n = Named(s)
  BY ServicesMeantAre DEF Known, KnownTable
<1>3. ASSUME NEW s \in Services, ServiceKey(s) \in K
      PROVE  [key |-> assembleService(ServiceKey(s)), sched |-> services[ServiceKey(s)]] =
               [key |-> Named(s), sched |-> ServicesMeant(services)[Named(s)]]
  BY <1>3, MeantName, ServicesMeantAre DEF Known, KnownTable
<1>4. ASSUME NEW z
      PROVE  (\E k \in K : z = [key |-> assembleService(k), sched |-> services[k]]) <=>
               (\E n \in N : z = [key |-> n, sched |-> ServicesMeant(services)[n]])
  <2>1. ASSUME NEW k \in K, z = [key |-> assembleService(k), sched |-> services[k]]
        PROVE  \E n \in N : z = [key |-> n, sched |-> ServicesMeant(services)[n]]
    <3>1. PICK s \in Services : k = ServiceKey(s)
      BY <1>1
    <3> QED
      BY <1>3, <2>1, <3>1
  <2>2. ASSUME NEW n \in N, z = [key |-> n, sched |-> ServicesMeant(services)[n]]
        PROVE  \E k \in K : z = [key |-> assembleService(k), sched |-> services[k]]
    <3>1. PICK s \in Services : n = Named(s)
      BY <1>2
    <3> QED
      BY <1>3, <2>2, <3>1
  <2> QED
    BY <2>1, <2>2
<1> QED
  BY <1>4 DEF doGetServicesCmd, Table!ServiceIn

LEMMA OneServiceMeans ==
  ASSUME FamiliesAgree, Known, NEW s \in Services, IsServicePresent(s) \/ GetService(s)
  PROVE  Table!Next
<1>1. There(s) \in BOOLEAN
  BY DEF There
<1>2. There(s) = (Named(s) \in DOMAIN ServicesMeant(services))
  BY <1>1, ThereMeans
<1>3. Named(s) \in Keys
  BY DEF Keys
<1>4. \A t \in Services : ServiceKey(t) \in DOMAIN services <=> Named(t) \in DOMAIN ServicesMeant(services)
  BY ServicesMeantAre DEF Known, KnownTable
<1>5. CASE IsServicePresent(s)
  <2>1. Table!List(<<"IsServicePresent", Named(s)>>, There(s), {})
    BY <1>1, <1>5, ListMeans DEF IsServicePresent
  <2> QED
    BY <1>2, <1>3, <2>1 DEF Table!IsServicePresent, Table!Next
<1>6. CASE GetService(s)
  <2> DEFINE K == {ServiceKey(s)} \cap DOMAIN services
             N == {Named(s)} \cap DOMAIN ServicesMeant(services)
  <2>1. \A t \in Services : ServiceKey(t) \in K <=> Named(t) \in N
    BY <1>4, NamedInjective
  <2>2. doGetServicesCmd(K) = Table!ServiceIn(N)
    BY <2>1, ServicesListed
  <2>3. Table!List(<<"GetService", Named(s)>>, There(s), doGetServicesCmd(K))
    BY <1>1, <1>6, ListMeans DEF GetService
  <2> QED
    BY <1>2, <1>3, <2>2, <2>3 DEF Table!GetService, Table!Next
<1> QED
  BY <1>5, <1>6

LEMMA AllServicesMeans ==
  ASSUME FamiliesAgree, Known, GetServices
  PROVE  Table!Next
<1>1. \A t \in Services : ServiceKey(t) \in DOMAIN services <=> Named(t) \in DOMAIN ServicesMeant(services)
  BY ServicesMeantAre DEF Known, KnownTable
<1>2. doGetServicesCmd(DOMAIN services) = Table!ServiceIn(DOMAIN ServicesMeant(services))
  BY <1>1, ServicesListed
<1>3. Table!List(<<"GetServices">>, TRUE, doGetServicesCmd(DOMAIN services))
  BY ListMeans DEF GetServices
<1> QED
  BY <1>2, <1>3 DEF Table!GetServices, Table!Next

LEMMA ConfigMeans ==
  ASSUME Known, GetConfig \/ \E c \in [Timeouts -> Durations] : SetConfig(c)
  PROVE  Table!Next
<1>1. CASE GetConfig
  <2>1. Table!List(<<"GetConfig">>, TRUE, {Spanning(timeouts)})
    BY <1>1, ListMeans DEF GetConfig
  <2> QED
    BY <2>1 DEF Table!GetConfig, Table!Next
<1>2. ASSUME NEW c \in [Timeouts -> Durations], SetConfig(c)
      PROVE  Table!Next
  <2> DEFINE sec == Seconds(c)
             span == Spanning(sec)
  <2>1. span \in Configs
    BY DEF Configs
  <2>2. \A t \in Timeouts : sec[t] \in Nat
    <3>1. \A t \in Timeouts : c[t] \in Nat
      BY AttributesAssumption
    <3>2. \A n \in Nat : n \div Second \in Nat
      BY AttributesAssumption
    <3> QED
      BY <3>1, <3>2 DEF Seconds
  <2>3. /\ timeouts' = [t \in Timeouts |-> IF sec[t] = 0 THEN timeouts[t] ELSE sec[t]]
        /\ last' = [call |-> <<"SetConfig", span>>, ok |-> TRUE, list |-> {}]
        /\ UNCHANGED <<services, servers>>
    BY <1>2 DEF SetConfig, Answer
  <2> HIDE DEF sec
  <2>4. \A n \in Nat : n * Second = 0 <=> n = 0
    BY AttributesAssumption
  <2>5. Spanning(timeouts') =
          [t \in DOMAIN Spanning(timeouts) |-> IF span[t] = 0 THEN Spanning(timeouts)[t] ELSE span[t]]
    BY <2>2, <2>3, <2>4 DEF Spanning, Known
  <2> HIDE DEF span
  <2>6. Spanning(timeouts)' = Spanning(timeouts') /\ UNCHANGED <<ServicesMeant(services), ServersMeant(servers)>>
    BY <2>3 DEF Spanning, ServicesMeant, ServersMeant
  <2>7. Table!Answer(<<"SetConfig", span>>, TRUE, {})
    BY <2>3 DEF Table!Answer
  <2>8. Table!SetConfig(span)
    BY <2>5, <2>6, <2>7 DEF Table!SetConfig
  <2> QED
    BY <2>1, <2>8 DEF Table!Next
<1> QED
  BY <1>1, <1>2

(* How the address of a destination is read back: the family that old      *)
(* kernels do not tell is guessed right, but for what Misread excludes.    *)
LEMMA DestinationRead ==
  ASSUME FamiliesAgree, NEW x, NEW s \in Services, NEW d \in Targets[s], ServerIs(x, s, d),
         old => s.family = "INET" \/ ~Zeros(SubSeq(x[2].addr, Short + 1, Long))
  PROVE  FamilyRead(x[1], x[2]) = s.family /\ assembleDestination(x[1], x[2]) = Endpoint(d)
<1> DEFINE b == Host(d.addr)
           a == KernelAddr(s.family, b)
<1>1. /\ s.family \in Families /\ d.addr \in Addresses /\ d.port \in Ports /\ d.addr # <<>>
      /\ FamilyOf(d.addr) = s.family /\ ServiceKey(s).family = s.family
  BY CallerTypes, ServiceKeyForm DEF FamiliesAgree, ServerIs
<1>2. /\ s.family = "INET" => b \in Bytes(Short)
      /\ s.family = "INET6" => b \in Bytes(Long)
      /\ b \in Addresses
  BY <1>1, HostForm
<1>3. a \in Bytes(Long) /\ Len(a) = Long /\ DOMAIN a = 1..Long
  BY <1>1, <1>2, KernelAddrForm, BytesAre, AttributesAssumption
<1>4. x[1] = ServiceKey(s) /\ x[2].addr = a /\ x[2].port = BigEndian(d.port)
  BY ServerKeyForm DEF ServerIs
<1>5. IsHost(s.family, a)
  BY <1>4 DEF ServerIs
<1>6. SubSeq(a, Short + 1, Long) = [i \in 1..Long - Short |-> a[Short + i]]
  BY <1>3, LastBytes, AttributesAssumption
<1>7. SubSeq(a, 1, Short) = [i \in 1..Short |-> a[i]]
  BY <1>3, FirstBytes, AttributesAssumption
<1>8. SubSeq(a, 1, Long) = a
  <2> HIDE DEF a
  <2>1. SubSeq(a, 1, Long) = [i \in 1..Long |-> a[i]]
    BY <1>3, FirstBytes, AttributesAssumption
  <2> QED
    BY <1>3, <2>1 DEF Bytes
<1>9. s.family = "INET" =>
        SubSeq(a, 1, Short) = b /\ a[1] # 0 /\ \A i \in Short + 1..Long : a[i] = 0
  BY <1>2, <1>5, KernelAddrFour DEF IsHost
<1>10. s.family = "INET6" => a = b
  BY <1>2, KernelAddrSix
<1>11. old => s.family = "INET" \/ ~Zeros(SubSeq(a, Short + 1, Long))
  BY <1>4
<1> HIDE DEF a, b
<1>12. getIPFamily(a) = s.family \/ ~old
  <2>1. Len(a) # Short
    BY <1>3, AttributesAssumption
  <2>2. CASE s.family = "INET"
    <3>1. ~Zeros(a) /\ ~Zeros(SubSeq(a, 1, Short))
      <4>1. 1 \in 1..Long /\ 1 \in 1..Short /\ a[1] # 0
        BY <1>9, <2>2, AttributesAssumption
      <4>2. DOMAIN SubSeq(a, 1, Short) = 1..Short /\ SubSeq(a, 1, Short)[1] = a[1]
        BY <1>7, <4>1
      <4> QED
        BY <1>3, <4>1, <4>2 DEF Zeros
    <3>2. Zeros(SubSeq(a, Short + 1, Long))
      BY <1>6, <1>9, <2>2, AttributesAssumption DEF Zeros
    <3> QED
      BY <1>3, <2>1, <2>2, <3>1, <3>2 DEF getIPFamily
  <2>3. CASE s.family = "INET6" /\ old
    <3>1. ~Zeros(SubSeq(a, Short + 1, Long))
      BY <1>11, <2>3
    <3>2. ~Zeros(a)
      BY <1>3, <1>6, <3>1, AttributesAssumption DEF Zeros
    <3> QED
      BY <1>3, <2>1, <2>3, <3>1, <3>2 DEF getIPFamily
  <2> QED
    BY <1>1, <2>2, <2>3 DEF Families
<1>13. FamilyRead(x[1], x[2]) = s.family
  BY <1>1, <1>4, <1>12 DEF FamilyRead
<1>14. parseIP(a, s.family) = b
  BY <1>1, <1>8, <1>9, <1>10 DEF parseIP, Families
<1>15. Endpoint(d) = [family |-> s.family, addr |-> b, port |-> d.port]
  BY <1>1 DEF Endpoint, b
<1>16. FromBigEndian(x[2].port) = d.port
  BY <1>1, <1>4, PortBytes
<1> QED
  BY <1>4, <1>13, <1>14, <1>15, <1>16 DEF assembleDestination

LEMMA GetDestinationsMeans ==
  ASSUME FamiliesAgree, Known, NEW s \in Services, GetDestinations(s), ~Misread
  PROVE  Table!Next
<1> DEFINE found == ServersOf(ServiceKey(s))
           Reads(x) == FamilyRead(x[1], x[2]) # "none"
           list == {[endpoint |-> assembleDestination(x[1], x[2]), weight |-> WeightRead(servers[x])] :
                      x \in {y \in found : Reads(y)}}
           meant == {[endpoint |-> x[2], weight |-> ServersMeant(servers)[x]] : x \in Table!ServersOf(Named(s))}
           call == <<"GetDestinations", Named(s)>>
<1>1. List(call, \A x \in found : Reads(x), list)
  BY DEF GetDestinations
<1>2. KnownServers(servers)
  BY DEF Known, KnownTable
<1>3. last'.call = call
  BY DEF GetDestinations, List, Answer
<1>4. old => s.family = "INET" \/ \A x \in found : ~Zeros(SubSeq(x[2].addr, Short + 1, Long))
  BY <1>3, CallerTypes DEF Misread, Families
<1>5. ASSUME NEW t \in Services, NEW e \in Targets[t], ServerKey(t, e) \in found
      PROVE  /\ Reads(ServerKey(t, e))
             /\ assembleDestination(ServerKey(t, e)[1], ServerKey(t, e)[2]) = Endpoint(e)
             /\ ServersMeant(servers)[<<Named(t), Endpoint(e)>>] = WeightRead(servers[ServerKey(t, e)])
             /\ <<Named(t), Endpoint(e)>> \in Table!ServersOf(Named(s))
  <2>1. ServerKey(t, e) \in DOMAIN servers /\ ServerKey(t, e)[1] = ServiceKey(s)
    BY <1>5 DEF ServersOf
  <2>2. ServiceKey(t) = ServiceKey(s)
    BY <2>1 DEF ServerKey
  <2>3. t.family = s.family /\ t.family \in Families
    BY <2>2, ServiceKeyForm, CallerTypes
  <2>4. ServerIs(ServerKey(t, e), t, e)
    BY <1>2, <2>1, ServerOfKey
  <2>5. old => t.family = "INET" \/ ~Zeros(SubSeq(ServerKey(t, e)[2].addr, Short + 1, Long))
    BY <1>4, <1>5, <2>3
  <2>6. FamilyRead(ServerKey(t, e)[1], ServerKey(t, e)[2]) = t.family
        /\ assembleDestination(ServerKey(t, e)[1], ServerKey(t, e)[2]) = Endpoint(e)
    BY <2>4, <2>5, DestinationRead
  <2> QED
    BY <1>2, <1>5, <2>1, <2>3, <2>6, ServersMeantAre, ServersOfMeans DEF Families
<1>6. ASSUME NEW x \in found
      PROVE  \E t \in Services : \E e \in Targets[t] : x = ServerKey(t, e)
  BY <1>2 DEF KnownServers, ServersOf
<1>7. ASSUME NEW y \in Table!ServersOf(Named(s))
      PROVE  \E t \in Services : \E e \in Targets[t] :
               y = <<Named(t), Endpoint(e)>> /\ ServerKey(t, e) \in found
  <2>1. y \in DOMAIN ServersMeant(servers) /\ y[1] = Named(s)
    BY DEF Table!ServersOf
  <2>2. PICK t \in Services : \E e \in Targets[t] :
          y = <<Named(t), Endpoint(e)>> /\ ServerKey(t, e) \in DOMAIN servers
    BY <1>2, <2>1, ServersMeantAre
  <2>3. PICK e \in Targets[t] : y = <<Named(t), Endpoint(e)>> /\ ServerKey(t, e) \in DOMAIN servers
    BY <2>2
  <2> QED
    BY <2>3, ServersOfMeans
<1>8. \A x \in found : Reads(x)
  BY <1>5, <1>6
<1>9. ASSUME NEW z \in list
      PROVE  z \in meant
  <2>1. PICK x \in found : z = [endpoint |-> assembleDestination(x[1], x[2]), weight |-> WeightRead(servers[x])]
    OBVIOUS
  <2>2. PICK t \in Services : \E e \in Targets[t] : x = ServerKey(t, e)
    BY <1>6
  <2>3. PICK e \in Targets[t] : x = ServerKey(t, e)
    BY <2>2
  <2> DEFINE p == <<Named(t), Endpoint(e)>>
  <2>4. p \in Table!ServersOf(Named(s)) /\ z = [endpoint |-> p[2], weight |-> ServersMeant(servers)[p]]
    BY <1>5, <2>1, <2>3
  <2> HIDE DEF p
  <2> QED
    BY <2>4
<1>10. ASSUME NEW z \in meant
       PROVE  z \in list
  <2>1. PICK y \in Table!ServersOf(Named(s)) : z = [endpoint |-> y[2], weight |-> ServersMeant(servers)[y]]
    OBVIOUS
  <2>2. PICK t \in Services : \E e \in Targets[t] : y = <<Named(t), Endpoint(e)>> /\ ServerKey(t, e) \in found
    BY <1>7
  <2>3. PICK e \in Targets[t] : y = <<Named(t), Endpoint(e)>> /\ ServerKey(t, e) \in found
    BY <2>2
  <2> DEFINE x == ServerKey(t, e)
  <2>4. z = [endpoint |-> assembleDestination(x[1], x[2]), weight |-> WeightRead(servers[x])]
        /\ x \in found /\ Reads(x)
    BY <1>5, <2>1, <2>3
  <2> HIDE DEF x
  <2> QED
    BY <2>4
<1>11. list = meant
  BY <1>9, <1>10
<1>12. (\A x \in found : Reads(x)) = TRUE
  BY <1>8
<1> DEFINE ok == \A x \in found : Reads(x)
<1>13. List(call, ok, list) /\ ok = TRUE
  BY <1>1, <1>12
<1> HIDE DEF list, meant, ok
<1>14. List(call, TRUE, meant)
  BY <1>11, <1>13
<1>15. Table!List(call, TRUE, meant)
  BY <1>14, ListMeans
<1>16. Table!GetDestinations(Named(s))
  BY <1>15 DEF Table!GetDestinations, meant
<1> QED
  BY <1>16 DEF Table!Next, Keys

LEMMA TableStart == Init => Table!Init
BY NothingMeant DEF Init, Table!Init, Table!None

LEMMA TableStep ==
  ASSUME FamiliesAgree, Known, [Next]_vars
  PROVE  [Table!Next \/ (Misread /\ UNCHANGED kernel)]_(Table!vars)
<1>1. ASSUME NEW s \in Services, NEW sched \in Scheds, NewService(s, sched) \/ UpdateService(s, sched)
      PROVE  Table!Next
  BY <1>1, PutServiceMeans
<1>2. ASSUME NEW s \in Services,
             DelService(s) \/ IsServicePresent(s) \/ GetService(s) \/ (GetDestinations(s) /\ ~Misread)
      PROVE  Table!Next
  BY <1>2, DelServiceMeans, OneServiceMeans, GetDestinationsMeans
<1>3. ASSUME NEW s \in Services, GetDestinations(s)
      PROVE  UNCHANGED kernel
  BY <1>3 DEF GetDestinations, List
<1>4. ASSUME NEW s \in Services, NEW d \in Targets[s], NEW w \in Weights,
             NewDestination(s, d, w) \/ UpdateDestination(s, d, w)
      PROVE  Table!Next
  BY <1>4, PutDestinationMeans
<1>5. ASSUME NEW s \in Services, NEW d \in Targets[s], DelDestination(s, d)
      PROVE  Table!Next
  BY <1>5, DelDestinationMeans
<1>6. CASE Flush \/ GetServices \/ GetConfig \/ \E c \in [Timeouts -> Durations] : SetConfig(c)
  BY <1>6, FlushMeans, AllServicesMeans, ConfigMeans
<1>7. CASE UNCHANGED vars
  <2>1. UNCHANGED <<services, servers, timeouts, last>>
    BY <1>7 DEF vars, kernel
  <2>2. UNCHANGED <<ServicesMeant(services), ServersMeant(servers), Spanning(timeouts), last>>
    BY <2>1 DEF ServicesMeant, ServersMeant, Spanning
  <2> QED
    BY <2>2 DEF Table!vars
<1>8. CASE \E s \in Services, sched \in Scheds : NewService(s, sched) \/ UpdateService(s, sched)
  BY <1>1, <1>8
<1>9. CASE \E s \in Services : DelService(s) \/ IsServicePresent(s) \/ GetService(s) \/ GetDestinations(s)
  <2>1. PICK s \in Services : DelService(s) \/ IsServicePresent(s) \/ GetService(s) \/ GetDestinations(s)
    BY <1>9
  <2> QED
    BY <1>2, <1>3, <2>1
<1>10. CASE \E s \in Services : \E d \in Targets[s] :
              \/ \E w \in Weights : NewDestination(s, d, w) \/ UpdateDestination(s, d, w)
              \/ DelDestination(s, d)
  <2>1. PICK s \in Services : \E d \in Targets[s] :
              \/ \E w \in Weights : NewDestination(s, d, w) \/ UpdateDestination(s, d, w)
              \/ DelDestination(s, d)
    BY <1>10
  <2> QED
    BY <1>4, <1>5, <2>1
<1> QED
  BY <1>6, <1>7, <1>8, <1>9, <1>10 DEF Next

(* For callers whose destinations have the family of their service, and    *)
(* whose marks stand alone, what a Handle writes to the kernel and reads   *)
(* back is the table of IpvsTable, whatever form of net.IP an address has: *)
(* no two services or destinations are confused, none is lost, a call is   *)
(* refused when the table would refuse it, and what a listing returns is   *)
(* what was put in; all but the listings of Misread.                       *)
THEOREM KeepsTheTable ==
  ASSUME FamiliesAgree
  PROVE  Spec => ImplementsTable
<1>1. Known /\ [Next]_vars => [Table!Next \/ (Misread /\ UNCHANGED kernel)]_(Table!vars)
  BY TableStep
<1> QED
  BY <1>1, TableStart, KnownStart, KnownStep, PTL DEF Spec, ImplementsTable
=============================================================================
