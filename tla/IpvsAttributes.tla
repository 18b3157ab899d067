--------------------------- MODULE IpvsAttributes ---------------------------
(***************************************************************************)
(* How internal/ipvs writes services, destinations and timeouts as netlink *)
(* attributes, what the kernel makes of them, and how the listings are     *)
(* read back.  A call is one step: module IpvsSocket has the conversation. *)
(*                                                                         *)
(* An address is a sequence of bytes: net.IP has Long of them, of which    *)
(* the last Short are an IPv4 address behind V4Prefix, and none when       *)
(* net.ParseIP failed.  The kernel has a union of Long bytes whose first   *)
(* Short are the IPv4 address.                                             *)
(***************************************************************************)
EXTENDS Integers, Sequences

CONSTANTS
  Base,      \* 256: values of a byte
  Short,     \* 4: bytes of an IPv4 address
  Long,      \* 16: bytes of an IPv6 address
  V4Prefix,  \* ::ffff:0:0/96
  HalfWord,  \* 2^16
  Second,    \* one second, in units of time.Duration
  Services,  \* Service values callers use
  Targets,   \* Service -> addresses and ports callers map to it
  Scheds,    \* Service.SchedName
  Weights,   \* Destination.Weight
  Timeouts,  \* the fields of Config
  Durations  \* their values

ASSUME AttributesAssumption ==
  /\ Base \in Nat \ {0, 1} /\ HalfWord \in Nat \ {0} /\ Second \in Nat \ {0}
  /\ Short \in Nat \ {0, 1} /\ Long \in Nat /\ Short < Long
  /\ V4Prefix \in [1..Long - Short -> 0..Base - 1] /\ V4Prefix[1] = 0
  /\ Scheds \subseteq STRING
  /\ Weights \subseteq Nat /\ Durations \subseteq Nat

(* The values of the Go types: a net.IP from net.ParseIP, or none, and 16  *)
(* bits of a port.                                                         *)
Bytes(n) == [1..n -> 0..Base - 1]
Addresses == {<<>>} \cup Bytes(Short) \cup Bytes(Long)
Ports == 0..Base * Base - 1
Families == {"INET", "INET6"}

ASSUME CallersAssumption ==
  /\ Services \subseteq [family : Families, mark : Nat, proto : STRING, addr : Addresses, port : Ports]
  /\ \A s \in Services : Targets[s] \subseteq [addr : Addresses, port : Ports]

VARIABLES
  old,       \* the kernel is older than 3.18: no family in a destination
  services,  \* kernel: service -> scheduler
  servers,   \* kernel: <<service, destination>> -> weight
  timeouts,  \* kernel: timeout -> seconds
  last       \* the last call, whether it succeeded, and what it listed

kernel == <<services, servers, timeouts>>
vars == <<old, kernel, last>>

-----------------------------------------------------------------------------
(* Addresses and ports *)

Zeros(b) == \A i \in DOMAIN b : b[i] = 0
Padded(b, n) == [i \in 1..n |-> IF i <= Len(b) THEN b[i] ELSE 0]

(* nil, the empty sequence, when ip is no IPv4 address.                    *)
To4(ip) ==
  IF Len(ip) = Short THEN ip
  ELSE IF Len(ip) = Long /\ SubSeq(ip, 1, Long - Short) = V4Prefix
    THEN SubSeq(ip, Long - Short + 1, Long)
    ELSE <<>>

FamilyOf(ip) == IF To4(ip) # <<>> THEN "INET" ELSE "INET6"

rawIPData(ip) == IF Len(ip) <= Short \/ To4(ip) # <<>> THEN To4(ip) ELSE ip

BigEndianByte(p) == <<0, p>>
BigEndian(p) == <<p \div Base, p % Base>>
FromBigEndian(b) == b[1] * Base + b[2]

parseIP(ip, family) == IF family = "INET" THEN SubSeq(ip, 1, Short) ELSE SubSeq(ip, 1, Long)

(* The guess for a kernel that does not tell; the standard library would   *)
(* look for V4Prefix.                                                      *)
GuessFromPrefix(address) == FamilyOf(address)
getIPFamily(address) ==
  CASE Len(address) = Short -> "INET"
    [] Len(address) # Short /\ Zeros(address) -> "none"
    [] OTHER -> IF ~Zeros(SubSeq(address, 1, Short)) /\ Zeros(SubSeq(address, Short + 1, Len(address)))
                  THEN "INET"
                  ELSE "INET6"

-----------------------------------------------------------------------------
(* Attributes.  A firewall mark replaces protocol, address and port.       *)

NoMark == 0
fillService(s) ==
  IF s.mark # NoMark THEN [family |-> s.family, mark |-> s.mark]
  ELSE [family |-> s.family, proto |-> s.proto,
        addr |-> rawIPData(s.addr), port |-> BigEndian(s.port)]

(* The family of the destination is not among them.                        *)
fillDestination(d) == [addr |-> rawIPData(d.addr), port |-> BigEndian(d.port)]

(* The kernel's keys: of an address it keeps what the service's family has *)
(* room for, and fills a short one with zeros.                             *)
KernelAddr(family, b) == Padded(IF family = "INET" THEN Padded(b, Short) ELSE b, Long)
Keyed(family, attrs) ==
  IF "addr" \in DOMAIN attrs THEN [attrs EXCEPT !.addr = KernelAddr(family, @)] ELSE attrs
ServiceKey(s) == Keyed(s.family, fillService(s))
ServerKey(s, d) == <<ServiceKey(s), Keyed(s.family, fillDestination(d))>>

(* It takes no host of 0.0.0.0/8, and not the address ::.                  *)
IsHost(family, addr) == IF family = "INET" THEN addr[1] # 0 ELSE ~Zeros(addr)

assembleService(k) ==
  IF "mark" \in DOMAIN k
    THEN [family |-> k.family, mark |-> k.mark, proto |-> "none", addr |-> <<>>, port |-> 0]
    ELSE [family |-> k.family, mark |-> NoMark, proto |-> k.proto,
          addr |-> parseIP(k.addr, k.family), port |-> FromBigEndian(k.port)]

FamilyRead(k, d) == IF old THEN getIPFamily(d.addr) ELSE k.family
assembleDestination(k, d) ==
  LET family == FamilyRead(k, d) IN
    [family |-> family, addr |-> parseIP(d.addr, family), port |-> FromBigEndian(d.port)]

(* Kernels hand the weight out as 32 bits, of which 16 are read.           *)
WeightRead(w) == w % HalfWord

-----------------------------------------------------------------------------
(* What callers mean, whichever of the forms of net.IP they use: the names *)
(* under which a call appears in `last`.                                   *)
Host(ip) == IF To4(ip) # <<>> THEN To4(ip) ELSE ip
Named(s) == [s EXCEPT !.addr = Host(@)]
Endpoint(d) == [family |-> FamilyOf(d.addr), addr |-> Host(d.addr), port |-> d.port]

Answer(call, ok, list) == last' = [call |-> call, ok |-> ok, list |-> list] /\ UNCHANGED old

Change(call, can, newServices, newServers) ==
  /\ services' = IF can THEN newServices ELSE services
  /\ servers' = IF can THEN newServers ELSE servers
  /\ Answer(call, can, {})
  /\ UNCHANGED timeouts

List(call, ok, list) == Answer(call, ok, list) /\ UNCHANGED kernel

With(f, x, v) == [y \in DOMAIN f \cup {x} |-> IF y = x THEN v ELSE f[y]]
Without(f, S) == [x \in DOMAIN f \ S |-> f[x]]
ServersOf(k) == {x \in DOMAIN servers : x[1] = k}
There(s) == ServiceKey(s) \in DOMAIN services

Init ==
  /\ old \in BOOLEAN
  /\ services = <<>>
  /\ servers = <<>>
  /\ timeouts = [t \in Timeouts |-> 2]
  /\ last = [call |-> <<>>, ok |-> TRUE, list |-> {}]

NewService(s, sched) ==
  Change(<<"NewService", Named(s), sched>>, ~There(s),
         With(services, ServiceKey(s), sched), servers)

UpdateService(s, sched) ==
  Change(<<"UpdateService", Named(s), sched>>, There(s),
         With(services, ServiceKey(s), sched), servers)

DelService(s) ==
  Change(<<"DelService", Named(s)>>, There(s),
         Without(services, {ServiceKey(s)}), Without(servers, ServersOf(ServiceKey(s))))

Flush == Change(<<"Flush">>, TRUE, <<>>, <<>>)

NewDestination(s, d, w) ==
  LET key == ServerKey(s, d) IN
    Change(<<"NewDestination", Named(s), Endpoint(d), WeightRead(w)>>,
           There(s) /\ key \notin DOMAIN servers /\ IsHost(s.family, key[2].addr),
           services, With(servers, key, w))

UpdateDestination(s, d, w) ==
  LET key == ServerKey(s, d) IN
    Change(<<"UpdateDestination", Named(s), Endpoint(d), WeightRead(w)>>,
           key \in DOMAIN servers, services, With(servers, key, w))

DelDestination(s, d) ==
  LET key == ServerKey(s, d) IN
    Change(<<"DelDestination", Named(s), Endpoint(d)>>,
           key \in DOMAIN servers, services, Without(servers, {key}))

IsServicePresent(s) == List(<<"IsServicePresent", Named(s)>>, There(s), {})

doGetServicesCmd(K) == {[key |-> assembleService(k), sched |-> services[k]] : k \in K}
GetServices == List(<<"GetServices">>, TRUE, doGetServicesCmd(DOMAIN services))
GetService(s) ==
  List(<<"GetService", Named(s)>>, There(s),
       doGetServicesCmd({ServiceKey(s)} \cap DOMAIN services))

(* The dump of a service that is not there is empty, and no error.  An     *)
(* address that cannot be read ends the listing with an error.             *)
GetDestinations(s) ==
  LET found == ServersOf(ServiceKey(s))
      Reads(x) == FamilyRead(x[1], x[2]) # "none"
  IN List(<<"GetDestinations", Named(s)>>, \A x \in found : Reads(x),
          {[endpoint |-> assembleDestination(x[1], x[2]), weight |-> WeightRead(servers[x])] :
             x \in {y \in found : Reads(y)}})

(* time.Duration.Seconds, truncated; the kernel takes 0 for no change.     *)
Seconds(c) == [t \in Timeouts |-> c[t] \div Second]
Spanning(secs) == [t \in Timeouts |-> secs[t] * Second]

SetConfig(c) ==
  /\ timeouts' = [t \in Timeouts |-> IF Seconds(c)[t] = 0 THEN timeouts[t] ELSE Seconds(c)[t]]
  /\ Answer(<<"SetConfig", Spanning(Seconds(c))>>, TRUE, {})
  /\ UNCHANGED <<services, servers>>

GetConfig == List(<<"GetConfig">>, TRUE, {Spanning(timeouts)})

Next ==
  \/ \E s \in Services, sched \in Scheds : NewService(s, sched) \/ UpdateService(s, sched)
  \/ \E s \in Services : DelService(s) \/ IsServicePresent(s) \/ GetService(s) \/ GetDestinations(s)
  \/ \E s \in Services : \E d \in Targets[s] :
       \/ \E w \in Weights : NewDestination(s, d, w) \/ UpdateDestination(s, d, w)
       \/ DelDestination(s, d)
  \/ Flush
  \/ GetServices
  \/ \E c \in [Timeouts -> Durations] : SetConfig(c)
  \/ GetConfig

Spec == Init /\ [][Next]_vars

-----------------------------------------------------------------------------
(* Properties *)

(* The kernel's objects have addresses of full length and ports of two     *)
(* bytes, and a destination has a service.                                 *)
TypeOK ==
  /\ \A k \in DOMAIN services : "addr" \in DOMAIN k => k.addr \in Bytes(Long) /\ k.port \in Bytes(2)
  /\ \A x \in DOMAIN servers : /\ x[1] \in DOMAIN services
                              /\ x[2].addr \in Bytes(Long) /\ x[2].port \in Bytes(2)
                              /\ servers[x] \in Weights
  /\ timeouts \in [Timeouts -> Nat]
  /\ last.ok \in BOOLEAN

(* The kernel's table read for what it means.                              *)
MeantService(k) ==
  IF "mark" \in DOMAIN k
    THEN [family |-> k.family, mark |-> k.mark, proto |-> "none", addr |-> <<>>, port |-> 0]
    ELSE [family |-> k.family, mark |-> NoMark, proto |-> k.proto, port |-> FromBigEndian(k.port),
          addr |-> IF k.family = "INET" THEN SubSeq(k.addr, 1, Short) ELSE k.addr]
MeantServer(x) ==
  LET family == x[1].family IN
    <<MeantService(x[1]),
      [family |-> family, port |-> FromBigEndian(x[2].port),
       addr |-> IF family = "INET" THEN SubSeq(x[2].addr, 1, Short) ELSE x[2].addr]>>

ServicesMeant(f) ==
  [k \in {MeantService(x) : x \in DOMAIN f} |-> f[CHOOSE x \in DOMAIN f : MeantService(x) = k]]
ServersMeant(f) ==
  [e \in {MeantServer(x) : x \in DOMAIN f} |-> WeightRead(f[CHOOSE x \in DOMAIN f : MeantServer(x) = e])]

Keys == {Named(s) : s \in Services}
EndpointsOf(k) == UNION {{Endpoint(d) : d \in Targets[s]} : s \in {x \in Services : Named(x) = k}}
Endpoints == [k \in Keys |-> EndpointsOf(k)]
Unusable ==
  {e \in UNION {Endpoints[k] : k \in Keys} : e.addr = <<>> \/ ~IsHost(e.family, e.addr)}
WeightsMeant == {WeightRead(w) : w \in Weights}
Configs == {Spanning(Seconds(c)) : c \in [Timeouts -> Durations]}

Table == INSTANCE IpvsTable WITH
  Weights <- WeightsMeant,
  services <- ServicesMeant(services),
  servers <- ServersMeant(servers),
  config <- Spanning(timeouts)

(* What callers keep to: a destination has the family of its service, and  *)
(* a firewall mark stands alone.                                           *)
FamiliesAgree ==
  \A s \in Services :
    /\ s.mark # NoMark => s.proto = "none" /\ s.addr = <<>> /\ s.port = 0
    /\ s.mark = NoMark => s.addr # <<>> /\ FamilyOf(s.addr) = s.family
    /\ \A d \in Targets[s] : d.addr = <<>> \/ FamilyOf(d.addr) = s.family

(* A kernel that does not tell the family returns an IPv6 address that     *)
(* ends in zeros: it reads like an IPv4 address.                           *)
Misread ==
  /\ old
  /\ \E s \in Services : /\ last'.call = <<"GetDestinations", Named(s)>>
                         /\ s.family = "INET6"
                         /\ \E x \in ServersOf(ServiceKey(s)) : Zeros(SubSeq(x[2].addr, Short + 1, Long))

(* For callers that keep to FamiliesAgree, every call changes, refuses and *)
(* lists what it would in a table keyed by their own addresses and ports:  *)
(* nothing is confused on the way to the kernel and back, but for the      *)
(* listings of Misread.                                                    *)
ImplementsTable == Table!Init /\ [][Table!Next \/ (Misread /\ UNCHANGED kernel)]_(Table!vars)
=============================================================================
