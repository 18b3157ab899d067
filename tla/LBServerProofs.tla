--------------------------- MODULE LBServerProofs ---------------------------
(***************************************************************************)
(* Proofs about LBServer.  Type correctness holds for every choice of the  *)
(* constants; the agreement of the database with the kernel holds for      *)
(* every deployment in which no two load balancers ask for one address and *)
(* ports fit 16 bits (ExclusiveRequests, PortsFit).                        *)
(***************************************************************************)
EXTENDS LBServer, LBDefsProofs

-----------------------------------------------------------------------------
(* Type correctness *)

(* One step of any handler keeps the types.                                *)
LEMMA TypeInductive == TypeOK /\ [Next]_vars => TypeOK'
<1> SUFFICES ASSUME TypeOK, [Next]_vars
             PROVE  TypeOK'
  OBVIOUS
<1> USE DEF TypeOK
<1>1. ASSUME NEW n \in Names, NEW ip, StoreNew(n, ip)
      PROVE  TypeOK'
  BY <1>1, ConfigAssumption DEF StoreNew, Answer, LBInfo
<1>2. ASSUME NEW n \in Names, NEW err \in Errors, Refuse(n, err)
      PROVE  TypeOK'
  BY <1>2 DEF Refuse, Answer, kernel
<1>3. ASSUME NEW r \in Requests, Create(r[1], r[2])
      PROVE  TypeOK'
  BY <1>1, <1>2, <1>3, ConfigAssumption DEF Create, Errors
<1>4. ASSUME NEW n \in Names, CreateAuto(n)
      PROVE  TypeOK'
  BY <1>1, <1>2, <1>4 DEF CreateAuto, Errors
<1>5. ASSUME NEW n \in Names, Delete(n)
      PROVE  TypeOK'
  <2>1. CASE Refuse(n, "NoSuchLB")
    BY <2>1, <1>2 DEF Errors
  <2>2. CASE Exists(n)
    <3>1. DeleteErrors(db[n]) \in SUBSET Errors
      BY DEF DeleteErrors, Errors
    <3>2. svcs' \subseteq svcs /\ dests' \subseteq dests /\ addrs' \subseteq addrs /\ up' = up
      BY <1>5, <2>2 DEF Delete, WithoutServices
    <3>3. db' \in [Names -> LBInfo]
      BY <1>5, <2>2 DEF Delete, NoLB, LBInfo
    <3>4. reply' \in [name : Names \cup {NoIP}, code : SUBSET Errors]
      BY <1>5, <2>2, <3>1 DEF Delete, Answer
    <3> QED
      BY <3>2, <3>3, <3>4
  <2> QED
    BY <1>5, <2>1, <2>2 DEF Delete
<1>6. ASSUME NEW n \in Names, NEW m \in Mapping, AddTarget(n, m)
      PROVE  TypeOK'
  <2>1. CASE Refuse(n, "NoSuchLB") \/ Refuse(n, "TargetAlreadyMapped")
    BY <2>1, <1>2 DEF Errors
  <2>2. ASSUME Exists(n)
        PROVE  ServiceOf(db[n], m) \in Service /\ EntryOf(db[n], m) \in Service \X Destination
    BY <2>2, EntryType DEF Exists
  <2>3. CASE /\ Exists(n) /\ svcs' = svcs \cup {ServiceOf(db[n], m)}
             /\ Answer(n, {"AddDestinationFailed"})
             /\ UNCHANGED <<db, addrs, dests, up>>
    BY <2>2, <2>3 DEF Answer, Errors
  <2>4. CASE /\ Exists(n) /\ svcs' = svcs \cup {ServiceOf(db[n], m)}
             /\ dests' = dests \cup {EntryOf(db[n], m)}
             /\ db' = [db EXCEPT ![n].targets = @ \cup {m}]
             /\ Answer(n, {})
             /\ UNCHANGED <<addrs, up>>
    <3>1. db' \in [Names -> LBInfo]
      BY <2>4 DEF LBInfo
    <3>2. reply' \in [name : Names \cup {NoIP}, code : SUBSET Errors]
      BY <2>4 DEF Answer
    <3> QED
      BY <2>2, <2>4, <3>1, <3>2
  <2> QED
    BY <1>6, <2>1, <2>3, <2>4 DEF AddTarget
<1>7. ASSUME NEW n \in Names, NEW m \in Mapping, DelTarget(n, m)
      PROVE  TypeOK'
  <2>1. CASE \E err \in {"NoSuchLB", "TargetNotMapped", "DelDestinationFailed"} : Refuse(n, err)
    BY <2>1, <1>2 DEF Errors
  <2>2. CASE db' = [db EXCEPT ![n].targets = @ \ {m}] /\ Answer(n, {})
    <3>1. db' \in [Names -> LBInfo]
      BY <2>2 DEF LBInfo
    <3>2. svcs' \subseteq svcs /\ dests' \subseteq dests /\ addrs' = addrs /\ up' = up
      BY <1>7 DEF DelTarget, WithoutServices, Refuse, kernel
    <3> QED
      BY <2>2, <3>1, <3>2 DEF Answer
  <2> QED
    BY <1>7, <2>1, <2>2 DEF DelTarget
<1>8. CASE Stop
  BY <1>8 DEF Stop, kernel
<1>9. CASE Reboot
  BY <1>9, ConfigAssumption DEF Reboot
<1>10. CASE Restore
  <2>1. \A n \in Stored : db[n].ip \in Nat
    BY ConfigAssumption DEF Stored, Exists, LBInfo
  <2>2. \A n \in Stored : \A m \in db[n].targets :
          ServiceOf(db[n], m) \in Service /\ EntryOf(db[n], m) \in Service \X Destination
    BY EntryType DEF Stored, Exists, LBInfo
  <2>3. UNION {ServicesOf(db[n]) : n \in Stored} \subseteq Service
    BY <2>2 DEF ServicesOf
  <2>4. UNION {{EntryOf(db[n], m) : m \in db[n].targets} : n \in Stored} \subseteq Service \X Destination
    BY <2>2
  <2> QED
    BY <1>10, <2>1, <2>3, <2>4 DEF Restore, Answer
<1>11. CASE UNCHANGED vars
  BY <1>11 DEF vars
<1> QED
  BY <1>3, <1>4, <1>5, <1>6, <1>7, <1>8, <1>9, <1>10, <1>11 DEF Next

(* The records, the kernel objects and the answers keep their types,       *)
(* whatever ports, addresses and names clients send.                       *)
THEOREM TypeCorrect == Spec => []TypeOK
<1>1. Init => TypeOK
  <2> SUFFICES ASSUME Init PROVE TypeOK
    OBVIOUS
  <2>1. db \in [Names -> LBInfo]
    BY DEF Init, LBInfo, NoLB
  <2>2. reply \in [name : Names \cup {NoIP}, code : SUBSET Errors]
    BY DEF Init
  <2> QED
    BY <2>1, <2>2, ConfigAssumption DEF Init, TypeOK
<1> QED
  BY <1>1, TypeInductive, PTL DEF Spec

-----------------------------------------------------------------------------
(* Agreement of the database with the kernel *)

(* A refused RPC changes nothing but the answer.                           *)
LEMMA RefuseKeeps ==
  ASSUME Consistent, TypeOK', NEW n,
         NEW err \in {"AlreadyExists", "NotInCidr", "NoFreeIP", "NoSuchLB",
                      "TargetAlreadyMapped", "TargetNotMapped"},
         Refuse(n, err)
  PROVE  Consistent'
<1>1. db' = db /\ addrs' = addrs /\ svcs' = svcs /\ dests' = dests /\ up' = up
  BY DEF Refuse, kernel
<1>2. Stored' = Stored
  BY <1>1 DEF Stored, Exists
<1>3. KernelNeverRefuses'
  BY DEF Refuse, Answer, KernelNeverRefuses
<1>4. /\ AddressOrigin' /\ OwnAddress' /\ AddrsBounded' /\ AddrsAccounted'
      /\ EntriesHaveService' /\ DestsRecorded' /\ TargetsServed'
  BY <1>1, <1>2 DEF Consistent, AddressOrigin, OwnAddress, AddrsBounded, AddrsAccounted,
                    EntriesHaveService, DestsRecorded, TargetsServed
<1> QED
  BY <1>3, <1>4 DEF Consistent

(* Create: an address that no stored load balancer has, and that is not    *)
(* the link's own, keeps the agreement.                                    *)
LEMMA StoreKeeps ==
  ASSUME Consistent, TypeOK', up, NEW n \in Names, NEW ip \in Nat,
         ~Exists(n), StoreNew(n, ip),
         ip \in DynRange \/ <<n, ip>> \in Requests,
         ip \notin BaseAddrs,
         \A k \in Stored : db[k].ip # ip
  PROVE  Consistent'
<1> USE DEF Consistent
<1>1. /\ addrs' = addrs \cup {ip} /\ svcs' = svcs /\ dests' = dests /\ up' = up
      /\ db' = [db EXCEPT ![n] = [ip |-> ip, targets |-> {}]]
      /\ reply'.code = {}
  BY DEF StoreNew, Answer
<1>2. db'[n] = [ip |-> ip, targets |-> {}] /\ \A k \in Names \ {n} : db'[k] = db[k]
  BY <1>1 DEF TypeOK
<1>3. Stored' = Stored \cup {n} /\ n \notin Stored
  BY <1>2, ConfigAssumption DEF Stored, Exists
<1>4. \A k \in Stored : k \in Names /\ db'[k] = db[k]
  BY <1>2, <1>3 DEF Stored
<1>5. {db'[k].ip : k \in Stored'} = {db[k].ip : k \in Stored} \cup {ip}
  BY <1>2, <1>3, <1>4
<1>6. AddressOrigin'
  BY <1>2, <1>3, <1>4 DEF AddressOrigin
<1>7. OwnAddress'
  BY <1>2, <1>3, <1>4 DEF OwnAddress
<1>8. AddrsBounded' /\ AddrsAccounted'
  BY <1>1, <1>5 DEF AddrsBounded, AddrsAccounted
<1>9. EntriesHaveService'
  BY <1>1 DEF EntriesHaveService
<1>10. DestsRecorded'
  BY <1>1, <1>3, <1>4 DEF DestsRecorded
<1>11. TargetsServed'
  BY <1>1, <1>2, <1>3, <1>4 DEF TargetsServed
<1>12. KernelNeverRefuses'
  BY <1>1 DEF KernelNeverRefuses
<1> QED
  BY <1>6, <1>7, <1>8, <1>9, <1>10, <1>11, <1>12

(* The address a served load balancer has in the kernel entries is its     *)
(* own: an entry on its address is one of its mappings.                    *)
LEMMA EntryOwner ==
  ASSUME Consistent, NEW n \in Stored, NEW e \in dests, e[1][1] = db[n].ip
  PROVE  \E m \in db[n].targets : e = EntryOf(db[n], m)
<1>1. PICK k \in Stored : \E m \in db[k].targets : e = EntryOf(db[k], m)
  BY DEF Consistent, DestsRecorded
<1>2. PICK m \in db[k].targets : e = EntryOf(db[k], m)
  BY <1>1
<1>3. db[k] \in LBInfo /\ db[k].ip # NoIP /\ m \in Mapping
  BY DEF Consistent, TypeOK, Stored, Exists, LBInfo
<1>4. e[1][1] = db[k].ip
  BY <1>2, <1>3, EntryType
<1>5. k = n
  BY <1>4 DEF Consistent, OwnAddress
<1> QED
  BY <1>2, <1>5

(* Delete takes the services, the entries and the alias of its load        *)
(* balancer, and nothing of another one's.                                 *)
LEMMA DeleteKeeps ==
  ASSUME PortsFit, Consistent, TypeOK', NEW n \in Names, Delete(n)
  PROVE  Consistent'
<1> USE DEF Consistent
<1>1. CASE ~Exists(n)
  BY <1>1, RefuseKeeps DEF Delete
<1>2. CASE Exists(n)
  <2>1. /\ up /\ up' = up
        /\ svcs' = svcs \ ServicesOf(db[n])
        /\ dests' = WithoutServices(dests, ServicesOf(db[n]))
        /\ addrs' = addrs \ {db[n].ip}
        /\ db' = [db EXCEPT ![n] = NoLB]
        /\ reply'.code = DeleteErrors(db[n])
    BY <1>2 DEF Delete, Answer
  <2>2. n \in Stored /\ db[n] \in LBInfo /\ db[n].ip # NoIP
    BY <1>2 DEF Stored, Exists, TypeOK
  <2>3. db'[n] = NoLB /\ \A k \in Names \ {n} : db'[k] = db[k]
    BY <2>1 DEF TypeOK
  <2>4. Stored' = Stored \ {n}
    BY <2>3 DEF Stored, Exists, NoLB
  <2>5. \A k \in Stored' : k \in Stored /\ k # n /\ db'[k] = db[k] /\ db[k].ip # db[n].ip
    BY <2>2, <2>3, <2>4 DEF Stored, OwnAddress
  <2>6. \A s \in ServicesOf(db[n]) : s[1] = db[n].ip
    BY <2>2, EntryType DEF ServicesOf, LBInfo
  <2>7. AddressOrigin' /\ OwnAddress'
    BY <2>5 DEF AddressOrigin, OwnAddress
  <2>8. AddrsBounded' /\ AddrsAccounted'
    <3>1. db[n].ip \notin BaseAddrs
      BY <2>2 DEF AddressOrigin
    <3>2. {db'[k].ip : k \in Stored'} = {db[k].ip : k \in Stored} \ {db[n].ip}
      BY <2>2, <2>4, <2>5
    <3> QED
      BY <2>1, <3>1, <3>2 DEF AddrsBounded, AddrsAccounted
  <2>9. EntriesHaveService'
    BY <2>1 DEF EntriesHaveService, WithoutServices
  <2>10. DestsRecorded'
    <3> SUFFICES ASSUME NEW e \in dests'
                 PROVE  \E k \in Stored' : \E m \in db'[k].targets : e = EntryOf(db'[k], m)
      BY DEF DestsRecorded
    <3>1. e \in dests /\ e[1] \notin ServicesOf(db[n])
      BY <2>1 DEF WithoutServices
    <3>2. PICK k \in Stored : \E m \in db[k].targets : e = EntryOf(db[k], m)
      BY <3>1 DEF DestsRecorded
    <3>3. k # n
      BY <3>1, <3>2 DEF EntryOf, ServicesOf
    <3> QED
      BY <2>3, <2>4, <3>2, <3>3 DEF Stored
  <2>11. TargetsServed'
    <3> SUFFICES ASSUME NEW k \in Stored', NEW m \in db'[k].targets
                 PROVE  EntryOf(db'[k], m) \in dests'
      BY DEF TargetsServed
    <3>1. k \in Stored /\ db'[k] = db[k] /\ db[k].ip # db[n].ip
      BY <2>5
    <3>2. db[k] \in LBInfo /\ db[k].ip # NoIP /\ m \in Mapping
      BY <3>1 DEF Stored, Exists, TypeOK, LBInfo
    <3>3. EntryOf(db[k], m) \in dests
      BY <2>1, <3>1 DEF TargetsServed
    <3>4. EntryOf(db[k], m)[1][1] = db[k].ip
      BY <3>2, EntryType
    <3> QED
      BY <2>1, <2>6, <3>1, <3>3, <3>4 DEF WithoutServices
  <2>12. KernelNeverRefuses'
    <3>1. ~SomeDelServiceFails(db[n], svcs)
      <4>1. \A m \in db[n].targets : ServiceOf(db[n], m) \in svcs
        BY <2>1, <2>2, EntryType DEF TargetsServed, EntriesHaveService, LBInfo
      <4> QED
        BY <2>2, <4>1, SamePort DEF SomeDelServiceFails, LBInfo
    <3>2. db[n].ip \in addrs
      BY <2>1, <2>2 DEF AddrsAccounted
    <3> QED
      BY <2>1, <3>1, <3>2 DEF DeleteErrors, KernelNeverRefuses
  <2> QED
    BY <2>7, <2>8, <2>9, <2>10, <2>11, <2>12
<1> QED
  BY <1>1, <1>2

(* AddTarget: the destination is never in the kernel before its mapping is *)
(* recorded, so the call is not refused, and the mapping is served.        *)
LEMMA AddTargetKeeps ==
  ASSUME PortsFit, Consistent, TypeOK', NEW n \in Names, NEW m \in Mapping, AddTarget(n, m)
  PROVE  Consistent'
<1> USE DEF Consistent
<1>1. CASE ~Exists(n) \/ m \in db[n].targets
  BY <1>1, RefuseKeeps DEF AddTarget
<1>2. CASE Exists(n) /\ m \notin db[n].targets
  <2>1. n \in Stored /\ db[n] \in LBInfo /\ db[n].ip # NoIP
    BY <1>2 DEF Stored, Exists, TypeOK
  <2>2. /\ EntryOf(db[n], m) \in Service \X Destination
        /\ EntryOf(db[n], m)[1] = ServiceOf(db[n], m)
        /\ EntryOf(db[n], m)[1][1] = db[n].ip
    BY <2>1, EntryType
  <2>3. EntryOf(db[n], m) \notin dests
    <3> SUFFICES ASSUME EntryOf(db[n], m) \in dests PROVE FALSE
      OBVIOUS
    <3>1. PICK q \in db[n].targets : EntryOf(db[n], m) = EntryOf(db[n], q)
      BY <2>1, <2>2, EntryOwner
    <3>2. m = q
      BY <2>1, <3>1, EntryInjective DEF LBInfo
    <3> QED
      BY <1>2, <3>1, <3>2
  <2>4. /\ up /\ up' = up /\ addrs' = addrs
        /\ svcs' = svcs \cup {ServiceOf(db[n], m)}
        /\ dests' = dests \cup {EntryOf(db[n], m)}
        /\ db' = [db EXCEPT ![n].targets = @ \cup {m}]
        /\ Answer(n, {})
    BY <1>2, <2>3 DEF AddTarget
  <2>5. /\ db'[n].ip = db[n].ip /\ db'[n].targets = db[n].targets \cup {m}
        /\ \A k \in Names \ {n} : db'[k] = db[k]
    BY <2>1, <2>4 DEF TypeOK, LBInfo
  <2>6. /\ Stored' = Stored
        /\ \A k \in Stored : db'[k].ip = db[k].ip /\ db[k].targets \subseteq db'[k].targets
    BY <2>5 DEF Stored, Exists
  <2>7. \A k \in Stored : \A q : EntryOf(db'[k], q) = EntryOf(db[k], q)
    BY <2>6 DEF EntryOf, ServiceOf
  <2>8. AddressOrigin' /\ OwnAddress' /\ AddrsBounded' /\ AddrsAccounted'
    BY <2>4, <2>6 DEF AddressOrigin, OwnAddress, AddrsBounded, AddrsAccounted
  <2>9. EntriesHaveService'
    BY <2>2, <2>4 DEF EntriesHaveService
  <2>10. DestsRecorded'
    <3> SUFFICES ASSUME NEW e \in dests'
                 PROVE  \E k \in Stored' : \E q \in db'[k].targets : e = EntryOf(db'[k], q)
      BY DEF DestsRecorded
    <3>1. CASE e \in dests
      BY <2>6, <2>7, <3>1 DEF DestsRecorded
    <3>2. CASE e = EntryOf(db[n], m)
      BY <2>1, <2>5, <2>6, <2>7, <3>2
    <3> QED
      BY <2>4, <3>1, <3>2
  <2>11. TargetsServed'
    <3> SUFFICES ASSUME NEW k \in Stored, NEW q \in db'[k].targets
                 PROVE  EntryOf(db[k], q) \in dests'
      BY <2>6, <2>7 DEF TargetsServed
    <3>1. CASE k = n
      BY <2>4, <2>5, <3>1 DEF TargetsServed
    <3>2. CASE k # n
      BY <2>4, <2>5, <3>2 DEF TargetsServed, Stored
    <3> QED
      BY <3>1, <3>2
  <2>12. KernelNeverRefuses'
    BY <2>4 DEF KernelNeverRefuses, Answer
  <2> QED
    BY <2>8, <2>9, <2>10, <2>11, <2>12
<1> QED
  BY <1>1, <1>2

(* DelTarget: the service goes with its last target only, so no other      *)
(* recorded mapping loses its entry.                                       *)
LEMMA DelTargetKeeps ==
  ASSUME PortsFit, Consistent, TypeOK', NEW n \in Names, NEW m \in Mapping, DelTarget(n, m)
  PROVE  Consistent'
<1> USE DEF Consistent
<1>1. CASE ~Exists(n) \/ m \notin db[n].targets
  BY <1>1, RefuseKeeps DEF DelTarget
<1>2. CASE Exists(n) /\ m \in db[n].targets
  <2>1. n \in Stored /\ db[n] \in LBInfo /\ db[n].ip # NoIP /\ up
    BY <1>2 DEF Stored, Exists, TypeOK, DelTarget
  <2>2. EntryOf(db[n], m) \in dests
    BY <1>2, <2>1 DEF TargetsServed
  <2>3. /\ up' = up /\ addrs' = addrs
        /\ db' = [db EXCEPT ![n].targets = @ \ {m}]
        /\ Answer(n, {})
        /\ IF LastOnPort(db[n], m)
             THEN /\ svcs' = svcs \ {ServiceOf(db[n], m)}
                  /\ dests' = WithoutServices(dests, {ServiceOf(db[n], m)})
             ELSE dests' = dests \ {EntryOf(db[n], m)} /\ svcs' = svcs
    BY <1>2, <2>2 DEF DelTarget
  <2>4. /\ db'[n].ip = db[n].ip /\ db'[n].targets = db[n].targets \ {m}
        /\ \A k \in Names \ {n} : db'[k] = db[k]
    BY <2>1, <2>3 DEF TypeOK, LBInfo
  <2>5. Stored' = Stored /\ \A k \in Stored : db'[k].ip = db[k].ip
    BY <2>4 DEF Stored, Exists
  <2>6. \A k \in Stored : \A q : EntryOf(db'[k], q) = EntryOf(db[k], q)
    BY <2>5 DEF EntryOf, ServiceOf
  <2>7. EntryOf(db[n], m)[1] = ServiceOf(db[n], m)
    BY <1>2, <2>1, EntryType DEF LBInfo
  <2>8. dests' \subseteq dests \ {EntryOf(db[n], m)}
    BY <2>3, <2>7 DEF WithoutServices
  <2>9. AddressOrigin' /\ OwnAddress' /\ AddrsBounded' /\ AddrsAccounted'
    BY <2>3, <2>5 DEF AddressOrigin, OwnAddress, AddrsBounded, AddrsAccounted
  <2>10. EntriesHaveService'
    BY <2>3 DEF EntriesHaveService, WithoutServices
  <2>11. DestsRecorded'
    <3> SUFFICES ASSUME NEW e \in dests'
                 PROVE  \E k \in Stored' : \E q \in db'[k].targets : e = EntryOf(db'[k], q)
      BY DEF DestsRecorded
    <3>1. PICK k \in Stored : \E q \in db[k].targets : e = EntryOf(db[k], q)
      BY <2>8 DEF DestsRecorded
    <3>2. PICK q \in db[k].targets : e = EntryOf(db[k], q)
      BY <3>1
    <3>3. q \in db'[k].targets
      BY <2>4, <2>8, <3>2 DEF Stored
    <3> QED
      BY <2>5, <2>6, <3>2, <3>3
  <2>12. TargetsServed'
    <3> SUFFICES ASSUME NEW k \in Stored, NEW q \in db'[k].targets
                 PROVE  EntryOf(db[k], q) \in dests'
      BY <2>5, <2>6 DEF TargetsServed
    <3>1. q \in db[k].targets /\ (k = n => q # m)
      BY <2>4 DEF Stored
    <3>2. /\ db[k] \in LBInfo /\ db[k].ip # NoIP /\ q \in Mapping
          /\ EntryOf(db[k], q) \in dests
      BY <2>1, <3>1 DEF Stored, Exists, TypeOK, LBInfo, TargetsServed
    <3>3. EntryOf(db[k], q)[1] = ServiceOf(db[k], q) /\ ServiceOf(db[k], q)[1] = db[k].ip
      BY <3>2, EntryType
    <3>4. ServiceOf(db[n], m)[1] = db[n].ip
      BY <1>2, <2>1, EntryType DEF LBInfo
    <3>5. CASE k # n
      <4>1. db[k].ip # db[n].ip
        BY <2>1, <3>5 DEF OwnAddress
      <4>2. ServiceOf(db[k], q) # ServiceOf(db[n], m)
        BY <3>3, <3>4, <4>1
      <4> QED
        BY <2>3, <2>7, <3>2, <3>3, <4>2 DEF WithoutServices
    <3>6. CASE k = n
      <4>1. EntryOf(db[n], q) # EntryOf(db[n], m)
        BY <1>2, <2>1, <3>1, <3>2, <3>6, EntryInjective
      <4>2. LastOnPort(db[n], m) => ServiceOf(db[n], q) # ServiceOf(db[n], m)
        BY <1>2, <3>1, <3>2, <3>6, SamePort DEF LastOnPort
      <4> QED
        BY <2>3, <3>2, <3>3, <3>6, <4>1, <4>2 DEF WithoutServices
    <3> QED
      BY <3>5, <3>6
  <2>13. KernelNeverRefuses'
    BY <2>3 DEF KernelNeverRefuses, Answer
  <2> QED
    BY <2>9, <2>10, <2>11, <2>12, <2>13
<1> QED
  BY <1>1, <1>2

(* A stop leaves the kernel as it is; a reboot empties it.                 *)
LEMMA StopRebootKeep ==
  ASSUME Consistent, TypeOK', Stop \/ Reboot
  PROVE  Consistent'
<1> USE DEF Consistent
<1>1. db' = db /\ reply' = reply /\ up' = FALSE
  BY DEF Stop, Reboot, kernel
<1>2. Stored' = Stored
  BY <1>1 DEF Stored, Exists
<1>3. \/ addrs' = addrs /\ svcs' = svcs /\ dests' = dests
      \/ addrs' = BaseAddrs /\ svcs' = {} /\ dests' = {}
  BY DEF Stop, Reboot, kernel
<1>4. AddressOrigin' /\ OwnAddress' /\ KernelNeverRefuses'
  BY <1>1, <1>2 DEF AddressOrigin, OwnAddress, KernelNeverRefuses
<1>5. AddrsBounded' /\ AddrsAccounted' /\ TargetsServed'
  BY <1>1, <1>2, <1>3 DEF AddrsBounded, AddrsAccounted, TargetsServed
<1>6. EntriesHaveService'
  BY <1>3 DEF EntriesHaveService
<1>7. DestsRecorded'
  BY <1>1, <1>2, <1>3 DEF DestsRecorded
<1> QED
  BY <1>4, <1>5, <1>6, <1>7

(* Restore brings the kernel to what the database says, from whatever a    *)
(* stop or a reboot left of it.                                            *)
LEMMA RestoreKeeps ==
  ASSUME Consistent, TypeOK', Restore
  PROVE  Consistent'
<1> USE DEF Consistent
<1>1. /\ db' = db
      /\ addrs' = addrs \cup {db[n].ip : n \in Stored}
      /\ svcs' = svcs \cup UNION {ServicesOf(db[n]) : n \in Stored}
      /\ dests' = dests \cup UNION {{EntryOf(db[n], m) : m \in db[n].targets} : n \in Stored}
      /\ Answer(NoIP, {})
  BY DEF Restore
<1>2. Stored' = Stored
  BY <1>1 DEF Stored, Exists
<1>3. AddressOrigin' /\ OwnAddress'
  BY <1>1, <1>2 DEF AddressOrigin, OwnAddress
<1>4. KernelNeverRefuses'
  BY <1>1 DEF Answer, KernelNeverRefuses
<1>5. AddrsBounded' /\ AddrsAccounted'
  BY <1>1, <1>2 DEF AddrsBounded, AddrsAccounted
<1>6. \A e \in dests' : \/ e \in dests
                        \/ \E n \in Stored : \E m \in db[n].targets : e = EntryOf(db[n], m)
  BY <1>1
<1>7. EntriesHaveService'
  <2> SUFFICES ASSUME NEW e \in dests' PROVE e[1] \in svcs'
    BY DEF EntriesHaveService
  <2>1. CASE e \in dests
    BY <1>1, <2>1 DEF EntriesHaveService
  <2>2. ASSUME NEW n \in Stored, NEW m \in db[n].targets, e = EntryOf(db[n], m)
        PROVE  e[1] \in svcs'
    <3>1. e[1] = ServiceOf(db[n], m)
      BY <2>2 DEF EntryOf
    <3>2. e[1] \in ServicesOf(db[n])
      BY <3>1 DEF ServicesOf
    <3> QED
      BY <1>1, <3>2
  <2> QED
    BY <1>6, <2>1, <2>2
<1>8. DestsRecorded'
  BY <1>1, <1>2, <1>6 DEF DestsRecorded
<1>9. TargetsServed'
  BY <1>1, <1>2 DEF TargetsServed
<1> QED
  BY <1>3, <1>4, <1>5, <1>7, <1>8, <1>9

(* A step of any kind keeps the agreement.                                 *)
LEMMA ConsistentInductive ==
  ASSUME ExclusiveRequests, PortsFit, Consistent, [Next]_vars
  PROVE  Consistent'
<1>1. TypeOK'
  BY TypeInductive DEF Consistent
<1>2. ASSUME NEW r \in Requests, Create(r[1], r[2])
      PROVE  Consistent'
  <2> DEFINE n == r[1]
             ip == r[2]
  <2>1. n \in Names /\ ip \in Nat /\ r = <<n, ip>>
    BY <1>2, ConfigAssumption DEF Create
  <2>2. CASE Refuse(n, "AlreadyExists") \/ Refuse(n, "NotInCidr")
    BY <1>1, <2>2, RefuseKeeps
  <2>3. CASE ~Exists(n) /\ StoreNew(n, ip)
    <3>1. ip \notin BaseAddrs
      BY DEF ExclusiveRequests
    <3>2. ASSUME NEW k \in Stored
          PROVE  db[k].ip # ip
      <4>1. k # n
        BY <2>3 DEF Stored
      <4>2. db[k].ip \in DynRange \/ <<k, db[k].ip>> \in Requests
        BY DEF Consistent, AddressOrigin
      <4>3. CASE db[k].ip \in DynRange
        BY <4>3 DEF ExclusiveRequests
      <4>4. CASE <<k, db[k].ip>> \in Requests
        BY <2>1, <4>1, <4>4, ConfigAssumption DEF ExclusiveRequests
      <4> QED
        BY <4>2, <4>3, <4>4
    <3>3. up
      BY <1>2 DEF Create
    <3> QED
      BY <1>1, <2>1, <2>3, <3>1, <3>2, <3>3, StoreKeeps
  <2> QED
    BY <1>2, <2>2, <2>3 DEF Create
<1>3. ASSUME NEW n \in Names, CreateAuto(n)
      PROVE  Consistent'
  <2>1. CASE Refuse(n, "AlreadyExists") \/ Refuse(n, "NoFreeIP")
    BY <1>1, <2>1, RefuseKeeps
  <2>2. ASSUME ~Exists(n), NEW ip \in Allocate(addrs), StoreNew(n, ip)
        PROVE  Consistent'
    <3>1. ip \in DynRange /\ ip \notin addrs /\ ip \in Nat
      BY ConfigAssumption DEF Allocate, LeastFree, DynRange
    <3>2. up
      BY <1>3 DEF CreateAuto
    <3>3. ip \notin BaseAddrs /\ \A k \in Stored : db[k].ip # ip
      BY <3>1, <3>2 DEF Consistent, AddrsAccounted
    <3> QED
      BY <1>1, <2>2, <3>1, <3>2, <3>3, StoreKeeps
  <2> QED
    BY <1>3, <2>1, <2>2 DEF CreateAuto
<1>4. CASE UNCHANGED vars
  <2>1. Stored' = Stored
    BY <1>4 DEF vars, Stored, Exists
  <2> QED
    BY <1>1, <1>4, <2>1 DEF vars, Consistent, AddressOrigin, OwnAddress, AddrsBounded,
         AddrsAccounted, EntriesHaveService, DestsRecorded, TargetsServed, KernelNeverRefuses
<1> QED
  BY <1>1, <1>2, <1>3, <1>4, DeleteKeeps, AddTargetKeeps, DelTargetKeeps,
     StopRebootKeep, RestoreKeeps DEF Next

(* The database, the addresses of the link and the IPVS table agree at all *)
(* times in a deployment with exclusive addresses and 16 bit ports.        *)
THEOREM Agreement ==
  ASSUME ExclusiveRequests, PortsFit
  PROVE  Spec => []Consistent
<1>1. Init => Consistent
  <2> SUFFICES ASSUME Init PROVE Consistent
    OBVIOUS
  <2>1. Stored = {}
    BY DEF Init, Stored, Exists, NoLB
  <2>2. db \in [Names -> LBInfo]
    BY DEF Init, LBInfo, NoLB
  <2>3. reply \in [name : Names \cup {NoIP}, code : SUBSET Errors] /\ KernelNeverRefuses
    BY DEF Init, KernelNeverRefuses
  <2>4. TypeOK
    BY <2>2, <2>3, ConfigAssumption DEF Init, TypeOK
  <2> QED
    BY <2>1, <2>3, <2>4 DEF Init, Consistent, AddressOrigin, OwnAddress, AddrsBounded,
         AddrsAccounted, EntriesHaveService, DestsRecorded, TargetsServed
<1>2. Consistent /\ [Next]_vars => Consistent'
  BY ConsistentInductive
<1> QED
  BY <1>1, <1>2, PTL DEF Spec

(* What the agreement means to an operator: no two load balancers share an *)
(* address, no alias is missing or left over, every recorded mapping is    *)
(* served and nothing else is, and the kernel refuses no call.             *)
THEOREM NoSharedAddress ==
  ASSUME ExclusiveRequests, PortsFit
  PROVE  Spec => []OwnAddress
<1>1. Consistent => OwnAddress
  BY DEF Consistent
<1> QED
  BY <1>1, Agreement, PTL

(* While lbmanager serves, no alias is missing and none is left over.      *)
THEOREM AliasesMatchRecords ==
  ASSUME ExclusiveRequests, PortsFit
  PROVE  Spec => []AddrsAccounted
<1>1. Consistent => AddrsAccounted
  BY DEF Consistent
<1> QED
  BY <1>1, Agreement, PTL

(* While lbmanager serves, the kernel forwards for every recorded mapping; *)
(* it never forwards for anything else.                                    *)
THEOREM TrafficMatchesRecords ==
  ASSUME ExclusiveRequests, PortsFit
  PROVE  Spec => [](TargetsServed /\ DestsRecorded)
<1>1. Consistent => TargetsServed /\ DestsRecorded
  BY DEF Consistent
<1> QED
  BY <1>1, Agreement, PTL

(* No kernel call of a handler is refused for a reason the database could  *)
(* have known of.                                                          *)
THEOREM KernelAccepts ==
  ASSUME ExclusiveRequests, PortsFit
  PROVE  Spec => []KernelNeverRefuses
<1>1. Consistent => KernelNeverRefuses
  BY DEF Consistent
<1> QED
  BY <1>1, Agreement, PTL

(* An RPC on one load balancer leaves the traffic of the others alone.     *)
THEOREM Isolation ==
  ASSUME ExclusiveRequests, PortsFit
  PROVE  Spec => OthersUntouched
<1> DEFINE Same == \A n \in Stored : up /\ up' /\ reply'.name # n => Traffic(n)' = Traffic(n)
<1>1. ASSUME Consistent, Next
      PROVE  Same
  <2> SUFFICES ASSUME NEW n \in Stored, up, up', reply'.name # n
               PROVE  Traffic(n)' = Traffic(n)
    OBVIOUS
  <2> USE <1>1 DEF Consistent
  <2>1. ASSUME db'[n] = db[n], dests' = dests
        PROVE  Traffic(n)' = Traffic(n)
    BY <2>1 DEF Traffic
  <2>2. ASSUME NEW k \in Names, NEW err, Refuse(k, err)
        PROVE  Traffic(n)' = Traffic(n)
    BY <2>1, <2>2 DEF Refuse, kernel
  <2>3. ASSUME NEW k \in Names, NEW ip, StoreNew(k, ip)
        PROVE  Traffic(n)' = Traffic(n)
    <3>1. k # n
      BY <2>3 DEF StoreNew, Answer
    <3> QED
      BY <2>1, <2>3, <3>1 DEF StoreNew, TypeOK, Stored
  <2>4. ASSUME NEW k \in Names, reply'.name = k, Exists(k)
        PROVE  /\ k # n /\ k \in Stored /\ n \in Names /\ db[k].ip # db[n].ip
               /\ db[k] \in LBInfo /\ db[k].ip # NoIP
    BY <2>4 DEF Stored, Exists, OwnAddress, TypeOK
  <2>5. ASSUME NEW k \in Names, Delete(k), Exists(k)
        PROVE  Traffic(n)' = Traffic(n)
    <3>1. reply'.name = k
      BY <2>5 DEF Delete, Answer
    <3>2. \A s \in ServicesOf(db[k]) : s[1] # db[n].ip
      BY <2>4, <2>5, <3>1, EntryType DEF ServicesOf, LBInfo
    <3>3. db'[n] = db[n] /\ dests' = WithoutServices(dests, ServicesOf(db[k]))
      BY <2>4, <2>5, <3>1 DEF Delete, TypeOK
    <3> QED
      BY <3>2, <3>3 DEF Traffic, WithoutServices
  <2>6. ASSUME NEW k \in Names, NEW m \in Mapping, Exists(k), reply'.name = k,
               \/ dests' = dests
               \/ dests' = dests \cup {EntryOf(db[k], m)}
               \/ dests' = dests \ {EntryOf(db[k], m)}
               \/ dests' = WithoutServices(dests, {ServiceOf(db[k], m)}),
               \A q \in Names \ {k} : db'[q] = db[q]
        PROVE  Traffic(n)' = Traffic(n)
    <3>1. EntryOf(db[k], m)[1][1] # db[n].ip /\ ServiceOf(db[k], m)[1] # db[n].ip
      BY <2>4, <2>6, EntryType
    <3>2. db'[n] = db[n]
      BY <2>4, <2>6
    <3> QED
      BY <2>6, <3>1, <3>2 DEF Traffic, WithoutServices
  <2>7. ASSUME NEW k \in Names, NEW m \in Mapping, AddTarget(k, m)
        PROVE  Traffic(n)' = Traffic(n)
    <3>1. CASE Refuse(k, "NoSuchLB") \/ Refuse(k, "TargetAlreadyMapped")
      BY <2>2, <3>1
    <3>2. CASE Exists(k) /\ m \notin db[k].targets
      <4>1. reply'.name = k
        BY <2>7, <3>2 DEF AddTarget, Answer
      <4>2. \A q \in Names \ {k} : db'[q] = db[q]
        BY <2>7, <3>2 DEF AddTarget, TypeOK
      <4>3. dests' = dests \/ dests' = dests \cup {EntryOf(db[k], m)}
        BY <2>7, <3>2 DEF AddTarget
      <4> QED
        BY <2>6, <3>2, <4>1, <4>2, <4>3
    <3> QED
      BY <2>7, <3>1, <3>2 DEF AddTarget
  <2>8. ASSUME NEW k \in Names, NEW m \in Mapping, DelTarget(k, m)
        PROVE  Traffic(n)' = Traffic(n)
    <3>1. CASE \E err : Refuse(k, err)
      BY <2>2, <3>1
    <3>2. CASE Exists(k) /\ m \in db[k].targets /\ EntryOf(db[k], m) \in dests
      <4>1. reply'.name = k
        BY <2>8, <3>2 DEF DelTarget, Answer
      <4>2. \A q \in Names \ {k} : db'[q] = db[q]
        BY <2>8, <3>2 DEF DelTarget, TypeOK
      <4>3. \/ dests' = dests \ {EntryOf(db[k], m)}
            \/ dests' = WithoutServices(dests, {ServiceOf(db[k], m)})
        BY <2>8, <3>2 DEF DelTarget
      <4> QED
        BY <2>6, <3>2, <4>1, <4>2, <4>3
    <3> QED
      BY <2>8, <3>1, <3>2 DEF DelTarget
  <2>9. ASSUME NEW r \in Requests, Create(r[1], r[2])
        PROVE  Traffic(n)' = Traffic(n)
    BY <2>2, <2>3, <2>9, ConfigAssumption DEF Create
  <2>10. ASSUME NEW k \in Names, CreateAuto(k)
         PROVE  Traffic(n)' = Traffic(n)
    BY <2>2, <2>3, <2>10 DEF CreateAuto
  <2>11. ASSUME NEW k \in Names, Delete(k)
         PROVE  Traffic(n)' = Traffic(n)
    BY <2>2, <2>5, <2>11 DEF Delete
  <2>12. ~Stop /\ ~Reboot /\ ~Restore
    BY DEF Stop, Reboot, Restore
  <2> QED
    BY <1>1, <2>7, <2>8, <2>9, <2>10, <2>11, <2>12 DEF Next
<1>2. Consistent /\ [Next]_vars => [Same]_vars
  BY <1>1
<1> QED
  BY <1>2, Agreement, PTL DEF Spec, OthersUntouched

-----------------------------------------------------------------------------
(* In every deployment, also when load balancers share an address or ports *)
(* are truncated to the same 16 bits, the kernel never forwards to a       *)
(* destination that is not recorded: no handler drops a mapping from a     *)
(* record without the kernel entry.                                        *)
THEOREM NothingUnrecordedServed == Spec => []DestsRecorded
<1>1. Init => DestsRecorded
  BY DEF Init, DestsRecorded
<1>2. TypeOK /\ DestsRecorded /\ [Next]_vars => DestsRecorded'
  <2> SUFFICES ASSUME TypeOK, DestsRecorded, [Next]_vars
               PROVE  DestsRecorded'
    OBVIOUS
  <2>1. ASSUME NEW n \in Names, dests' \subseteq dests,
               \A k \in Names \ {n} : db'[k] = db[k],
               \A e \in dests' : \A m \in db[n].targets :
                 Exists(n) /\ e = EntryOf(db[n], m) =>
                   Exists(n)' /\ db'[n].ip = db[n].ip /\ m \in db'[n].targets
        PROVE  DestsRecorded'
    <3> SUFFICES ASSUME NEW e \in dests'
                 PROVE  \E k \in Stored' : \E m \in db'[k].targets : e = EntryOf(db'[k], m)
      BY DEF DestsRecorded
    <3>1. PICK k \in Stored : \E m \in db[k].targets : e = EntryOf(db[k], m)
      BY <2>1 DEF DestsRecorded
    <3>2. PICK m \in db[k].targets : e = EntryOf(db[k], m)
      BY <3>1
    <3>3. CASE k # n
      BY <2>1, <3>2, <3>3 DEF Stored, Exists
    <3>4. CASE k = n
      BY <2>1, <3>2, <3>4 DEF Stored, Exists, EntryOf, ServiceOf
    <3> QED
      BY <3>3, <3>4
  <2>2. ASSUME db' = db, dests' \subseteq dests
        PROVE  DestsRecorded'
    BY <2>2 DEF DestsRecorded, Stored, Exists
  <2>3. ASSUME NEW n \in Names, NEW err, Refuse(n, err)
        PROVE  DestsRecorded'
    BY <2>2, <2>3 DEF Refuse, kernel
  <2>4. ASSUME NEW n \in Names, NEW ip, ~Exists(n), StoreNew(n, ip)
        PROVE  DestsRecorded'
    BY <2>1, <2>4 DEF StoreNew, TypeOK
  <2>5. ASSUME NEW r \in Requests, Create(r[1], r[2])
        PROVE  DestsRecorded'
    BY <2>3, <2>4, <2>5, ConfigAssumption DEF Create
  <2>6. ASSUME NEW n \in Names, CreateAuto(n)
        PROVE  DestsRecorded'
    BY <2>3, <2>4, <2>6 DEF CreateAuto
  <2>7. ASSUME NEW n \in Names, Delete(n)
        PROVE  DestsRecorded'
    <3>1. CASE ~Exists(n)
      BY <2>3, <2>7, <3>1 DEF Delete
    <3>2. CASE Exists(n)
      <4>1. dests' = WithoutServices(dests, ServicesOf(db[n])) /\ db' = [db EXCEPT ![n] = NoLB]
        BY <2>7, <3>2 DEF Delete
      <4>2. \A e \in dests' : e \in dests /\ e[1] \notin ServicesOf(db[n])
        BY <4>1 DEF WithoutServices
      <4>3. \A m \in db[n].targets : EntryOf(db[n], m)[1] \in ServicesOf(db[n])
        BY DEF EntryOf, ServicesOf
      <4> QED
        BY <2>1, <4>1, <4>2, <4>3 DEF TypeOK
    <3> QED
      BY <3>1, <3>2
  <2>8. ASSUME NEW n \in Names, NEW m \in Mapping, AddTarget(n, m)
        PROVE  DestsRecorded'
    <3>1. CASE (db' = db /\ dests' \subseteq dests) \/ \E err : Refuse(n, err)
      BY <2>2, <2>3, <3>1
    <3>2. CASE /\ Exists(n)
               /\ dests' = dests \cup {EntryOf(db[n], m)}
               /\ db' = [db EXCEPT ![n].targets = @ \cup {m}]
      <4>1. /\ db'[n].ip = db[n].ip /\ db'[n].targets = db[n].targets \cup {m}
            /\ \A k \in Names \ {n} : db'[k] = db[k]
        BY <3>2 DEF TypeOK, LBInfo
      <4>2. n \in Stored /\ Stored' = Stored
        BY <3>2, <4>1 DEF Stored, Exists
      <4>3. \A k \in Stored : \A q : EntryOf(db'[k], q) = EntryOf(db[k], q)
        BY <4>1 DEF EntryOf, ServiceOf, Stored
      <4>4. \A k \in Stored : db[k].targets \subseteq db'[k].targets
        BY <4>1 DEF Stored
      <4> SUFFICES ASSUME NEW e \in dests'
                   PROVE  \E k \in Stored : \E q \in db'[k].targets : e = EntryOf(db[k], q)
        BY <4>2, <4>3 DEF DestsRecorded
      <4>5. CASE e \in dests
        BY <4>4, <4>5 DEF DestsRecorded
      <4>6. CASE e = EntryOf(db[n], m)
        BY <4>1, <4>2, <4>6
      <4> QED
        BY <3>2, <4>5, <4>6
    <3> QED
      BY <2>8, <3>1, <3>2 DEF AddTarget
  <2>9. ASSUME NEW n \in Names, NEW m \in Mapping, DelTarget(n, m)
        PROVE  DestsRecorded'
    <3>1. CASE \E err : Refuse(n, err)
      BY <2>3, <3>1
    <3>2. CASE /\ dests' \subseteq dests \ {EntryOf(db[n], m)}
               /\ db' = [db EXCEPT ![n].targets = @ \ {m}]
      <4>1. /\ db'[n].ip = db[n].ip /\ db'[n].targets = db[n].targets \ {m}
            /\ \A k \in Names \ {n} : db'[k] = db[k]
        BY <3>2 DEF TypeOK, LBInfo
      <4> QED
        BY <2>1, <3>2, <4>1 DEF Exists
    <3>3. WithoutServices(dests, {ServiceOf(db[n], m)}) \subseteq dests \ {EntryOf(db[n], m)}
      BY DEF WithoutServices, EntryOf
    <3> QED
      BY <2>9, <3>1, <3>2, <3>3 DEF DelTarget
  <2>10. CASE Stop \/ Reboot
    BY <2>2, <2>10 DEF Stop, Reboot, kernel
  <2>11. CASE Restore
    <3>1. Stored' = Stored /\ db' = db
      BY <2>11 DEF Restore, Stored, Exists
    <3>2. \A e \in dests' : \/ e \in dests
                            \/ \E n \in Stored : \E m \in db[n].targets : e = EntryOf(db[n], m)
      BY <2>11 DEF Restore
    <3> QED
      BY <3>1, <3>2 DEF DestsRecorded
  <2>12. CASE UNCHANGED vars
    BY <2>2, <2>12 DEF vars
  <2> QED
    BY <2>5, <2>6, <2>7, <2>8, <2>9, <2>10, <2>11, <2>12 DEF Next
<1> QED
  BY <1>1, <1>2, TypeCorrect, PTL DEF Spec
=============================================================================
