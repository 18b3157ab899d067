------------------------ MODULE LBServerStepsProofs ------------------------
(***************************************************************************)
(* Proofs about LBServerSteps, for any number of load balancers, targets   *)
(* and workers, wherever the process dies and whichever calls fail.        *)
(***************************************************************************)
EXTENDS LBServerSteps, LBDefsProofs

(* The phases of the handlers.                                             *)
Storing == {"addrList", "addrAdd", "createPut"}
Deleting == {"delServices", "dbDelete"}
Adding == {"isPresent", "newService", "newDest", "addPut"}
Removing == {"delDest", "delService", "delPut"}

CallRecord ==
  [pc : PCs, n : Names \cup {NoIP}, ip : Nat \cup {NoIP}, m : Mapping \cup {NoMapping},
   info : LBInfo, todo : SUBSET (SrcPorts \X Protocols), errs : SUBSET Errors]

(* What a handler keeps in its local variables, phase by phase.            *)
CallOK(c) ==
  /\ c \in CallRecord
  /\ c.pc # "idle" => c.n \in Names
  /\ c.pc \in Storing => c.ip \in Nat
  /\ c.pc \in {"addrAdd", "createPut"} => c.ip \in Cidr
  /\ c.pc \in Adding \cup Removing => c.m \in Mapping /\ c.info.ip # NoIP

TypeInv ==
  /\ TypeOK
  /\ call \in [Workers -> CallRecord]
  /\ \A w \in Workers : CallOK(call[w])

-----------------------------------------------------------------------------
(* Type correctness *)

LEMMA NoLBIsInfo == NoLB \in LBInfo
BY DEF NoLB, LBInfo

LEMMA IdleOK == CallOK(Idle)
BY NoLBIsInfo DEF Idle, CallOK, CallRecord, PCs, Storing, Adding, Removing

LEMMA TypedCalls ==
  ASSUME call \in [Workers -> CallRecord]
  PROVE  \A w \in Workers :
           /\ call[w].pc \in PCs
           /\ call[w].n \in Names \cup {NoIP}
           /\ call[w].ip \in Nat \cup {NoIP}
           /\ call[w].m \in Mapping \cup {NoMapping}
           /\ call[w].info \in LBInfo
           /\ call[w].todo \in SUBSET (SrcPorts \X Protocols)
           /\ call[w].errs \in SUBSET Errors
BY DEF CallRecord

(* A handler goes on with one of its calls.                                *)
LEMMA BecomesTyped ==
  ASSUME TypeInv, NEW w \in Workers, NEW d, CallOK(d), call' = [call EXCEPT ![w] = d]
  PROVE  /\ call' \in [Workers -> CallRecord] /\ \A v \in Workers : CallOK(call'[v])
         /\ call'[w] = d /\ \A v \in Workers \ {w} : call'[v] = call[v]
BY DEF TypeInv, CallOK

(* What is left to show when the calls are typed.                          *)
LEMMA StateTyped ==
  ASSUME call' \in [Workers -> CallRecord], \A v \in Workers : CallOK(call'[v]),
         db' \in [Names -> LBInfo], addrs' \in SUBSET Nat, svcs' \in SUBSET Service,
         dests' \in SUBSET (Service \X Destination),
         up' \in BOOLEAN, apart' \in BOOLEAN, flaws' \subseteq Flaws,
         reply' \in [name : Names \cup {NoIP}, code : SUBSET Errors]
  PROVE  TypeInv'
<1>1. \A w \in Workers :
        /\ call'[w].pc \in PCs
        /\ call'[w].n \in Names \cup {NoIP}
        /\ call'[w].ip \in Nat \cup {NoIP}
        /\ call'[w].m \in Mapping \cup {NoMapping}
        /\ call'[w].info \in LBInfo
        /\ call'[w].todo \in SUBSET (SrcPorts \X Protocols)
        /\ call'[w].errs \in SUBSET Errors
  BY DEF CallRecord
<1> QED
  BY <1>1 DEF TypeInv, TypeOK

LEMMA BeginTyped ==
  ASSUME TypeInv, NEW w \in Workers, NEW c, CallOK(c), Begin(w, c)
  PROVE  TypeInv'
<1>1. call' = [call EXCEPT ![w] = c] /\ UNCHANGED <<db, addrs, svcs, dests, up, reply, flaws>>
      /\ apart' \in BOOLEAN
  BY DEF Begin, kernel, TypeInv, TypeOK
<1> QED
  BY <1>1, BecomesTyped, StateTyped DEF TypeInv, TypeOK

LEMMA ReturnTyped ==
  ASSUME TypeInv, NEW w \in Workers, NEW n \in Names, NEW errs \in SUBSET Errors, Return(w, n, errs),
         db' \in [Names -> LBInfo], UNCHANGED kernel
  PROVE  TypeInv'
<1>1. call' = [call EXCEPT ![w] = Idle] /\ UNCHANGED <<addrs, svcs, dests, up, flaws, apart>>
      /\ reply' \in [name : Names \cup {NoIP}, code : SUBSET Errors]
  BY DEF Return, kernel
<1> QED
  BY <1>1, IdleOK, BecomesTyped, StateTyped DEF TypeInv, TypeOK

LEMMA RefuseTyped ==
  ASSUME TypeInv, NEW w \in Workers, NEW n \in Names, NEW err \in Errors, Refuse(w, n, err)
  PROVE  TypeInv'
<1>1. Return(w, n, {err}) /\ UNCHANGED kernel /\ db' \in [Names -> LBInfo] /\ {err} \in SUBSET Errors
  BY DEF Refuse, TypeInv, TypeOK
<1> QED
  BY <1>1, ReturnTyped

(* A handler goes on at pc, and may have changed the kernel.               *)
LEMMA GotoTyped ==
  ASSUME TypeInv, NEW w \in Workers, NEW pc \in PCs, Goto(w, pc),
         call[w].pc # "idle",
         pc \in {"addrAdd", "createPut"} => call[w].ip \in Cidr,
         pc \notin Storing \ {"addrAdd", "createPut"},
         pc \in Adding \cup Removing => call[w].pc \in Adding \cup Removing,
         db' = db, addrs' \in SUBSET Nat, svcs' \in SUBSET Service,
         dests' \in SUBSET (Service \X Destination)
  PROVE  TypeInv'
<1> DEFINE d == [call[w] EXCEPT !.pc = pc]
<1>1. call' = [call EXCEPT ![w] = d] /\ UNCHANGED <<up, flaws, apart, reply>>
  BY DEF Goto
<1>2. CallOK(call[w]) /\ call[w] \in CallRecord
  BY DEF TypeInv, CallOK
<1>3. /\ d \in CallRecord /\ d.pc = pc /\ d.n = call[w].n /\ d.ip = call[w].ip /\ d.m = call[w].m
      /\ d.info = call[w].info
  BY <1>2 DEF CallRecord
<1> HIDE DEF d
<1>4. Cidr \subseteq Nat
  BY ConfigAssumption
<1>5. CallOK(d)
  BY <1>2, <1>3, <1>4 DEF CallOK, Storing
<1> QED
  BY <1>1, <1>5, BecomesTyped, StateTyped DEF TypeInv, TypeOK

LEMMA RequestTyped == TypeInv /\ (\E w \in Workers : Request(w)) => TypeInv'
<1> SUFFICES ASSUME TypeInv, NEW w \in Workers, Request(w)
             PROVE  TypeInv'
  OBVIOUS
<1>1. /\ \A n \in Names : db[n] \in LBInfo /\ (Exists(n) => db[n].ip \in Nat)
      /\ {"AlreadyExists", "NoSuchLB", "TargetAlreadyMapped", "TargetNotMapped"} \subseteq Errors
  BY ConfigAssumption DEF TypeInv, TypeOK, Exists, LBInfo, Errors
<1>2. ASSUME NEW r \in Requests, CreateGet(w, r[1], r[2])
      PROVE  TypeInv'
  <2>1. r[1] \in Names /\ r[2] \in Nat \cup {NoIP}
    BY ConfigAssumption
  <2> DEFINE c == [Idle EXCEPT !.pc = IF r[2] = NoIP THEN "allocate" ELSE "addrList", !.n = r[1], !.ip = r[2]]
  <2>2. CallOK(c)
    BY <2>1, NoLBIsInfo DEF CallOK, CallRecord, Idle, PCs, Storing, Adding, Removing
  <2> QED
    BY <1>1, <1>2, <2>1, <2>2, BeginTyped, RefuseTyped DEF CreateGet
<1>3. ASSUME NEW n \in Names, DeleteGet(w, n)
      PROVE  TypeInv'
  <2> DEFINE c == [Idle EXCEPT !.pc = "delServices", !.n = n, !.ip = db[n].ip, !.info = db[n],
                               !.todo = {<<m.port, m.proto>> : m \in db[n].targets}]
  <2>1. {<<m.port, m.proto>> : m \in db[n].targets} \subseteq SrcPorts \X Protocols
    BY <1>1 DEF LBInfo, Mapping
  <2>2. Exists(n) => CallOK(c)
    BY <1>1, <2>1 DEF CallOK, CallRecord, Idle, PCs, Storing, Adding, Removing
  <2> QED
    BY <1>1, <1>3, <2>2, BeginTyped, RefuseTyped DEF DeleteGet
<1>4. ASSUME NEW n \in Names, NEW m \in Mapping, AddGet(w, n, m)
      PROVE  TypeInv'
  <2> DEFINE c == [Idle EXCEPT !.pc = "isPresent", !.n = n, !.ip = db[n].ip, !.m = m, !.info = db[n]]
  <2>1. Exists(n) => CallOK(c)
    BY <1>1 DEF CallOK, CallRecord, Idle, PCs, Storing, Adding, Removing, Exists
  <2> QED
    BY <1>1, <1>4, <2>1, BeginTyped, RefuseTyped DEF AddGet
<1>5. ASSUME NEW n \in Names, NEW m \in Mapping, DelGet(w, n, m)
      PROVE  TypeInv'
  <2> DEFINE c == [Idle EXCEPT !.pc = "delDest", !.n = n, !.ip = db[n].ip, !.m = m, !.info = db[n]]
  <2>1. Exists(n) => CallOK(c)
    BY <1>1 DEF CallOK, CallRecord, Idle, PCs, Storing, Adding, Removing, Exists
  <2> QED
    BY <1>1, <1>5, <2>1, BeginTyped, RefuseTyped DEF DelGet
<1> QED
  BY <1>2, <1>3, <1>4, <1>5 DEF Request

LEMMA HandlerTyped == TypeInv /\ (\E w \in Workers : Handler(w)) => TypeInv'
<1> SUFFICES ASSUME TypeInv, NEW w \in Workers, Handler(w)
             PROVE  TypeInv'
  OBVIOUS
<1> DEFINE c == call[w]
<1>1. /\ CallOK(c) /\ c \in CallRecord /\ c.info \in LBInfo /\ c.errs \in SUBSET Errors
      /\ db \in [Names -> LBInfo] /\ addrs \in SUBSET Nat /\ svcs \in SUBSET Service
      /\ dests \in SUBSET (Service \X Destination)
  BY DEF TypeInv, TypeOK, CallOK, CallRecord
<1>2. c.pc # "idle" => c.n \in Names
  BY <1>1 DEF CallOK
<1>3. /\ {"NotInCidr", "NoFreeIP", "CallFailed", "AddDestinationFailed", "DelDestinationFailed"} \subseteq Errors
      /\ {"addrAdd", "createPut", "dbDelete", "newDest", "newService", "addPut", "delService", "delPut"} \subseteq PCs
  BY DEF Errors, PCs
<1>4. ASSUME c.pc \in Adding \cup Removing
      PROVE  /\ ServiceOf(c.info, c.m) \in Service
             /\ EntryOf(c.info, c.m) \in Service \X Destination
  BY <1>1, <1>4, EntryType DEF CallOK
<1>5. CASE CreateAllocate(w)
  <2>1. At(w, "allocate")
    BY <1>5 DEF CreateAllocate
  <2>2. ASSUME NEW ip \in Allocate(addrs)
        PROVE  CallOK([c EXCEPT !.pc = "addrList", !.ip = ip])
    <3>1. ip \in Nat
      BY ConfigAssumption DEF Allocate, LeastFree
    <3> QED
      BY <1>1, <2>1, <3>1 DEF CallOK, CallRecord, PCs, Storing, Adding, Removing, At
  <2> QED
    BY <1>2, <1>3, <1>5, <2>1, <2>2, BeginTyped, RefuseTyped DEF CreateAllocate, At
<1>6. CASE CreateAddrList(w)
  <2>1. c.pc = "addrList"
    BY <1>6 DEF CreateAddrList, At
  <2>2. CASE c.ip \notin Cidr /\ Refuse(w, c.n, "NotInCidr")
    BY <1>2, <1>3, <2>1, <2>2, RefuseTyped
  <2>3. ASSUME NEW pc \in {"addrAdd", "createPut"}, c.ip \in Cidr, Goto(w, pc), UNCHANGED <<db, kernel>>
        PROVE  TypeInv'
    BY <1>1, <1>3, <2>1, <2>3, GotoTyped DEF Storing, Adding, Removing, kernel
  <2> QED
    BY <1>6, <2>2, <2>3 DEF CreateAddrList
<1>7. CASE CreateAddrAdd(w)
  <2>1. c.pc = "addrAdd" /\ c.ip \in Cidr /\ c.ip \in Nat
    BY <1>1, <1>7, ConfigAssumption DEF CreateAddrAdd, At, CallOK
  <2>2. CASE Refuse(w, c.n, "CallFailed")
    BY <1>2, <1>3, <2>1, <2>2, RefuseTyped
  <2>3. CASE addrs' = addrs \cup {c.ip} /\ Goto(w, "createPut") /\ UNCHANGED <<db, svcs, dests>>
    BY <1>1, <1>3, <2>1, <2>3, GotoTyped DEF Storing, Adding, Removing
  <2> QED
    BY <1>7, <2>2, <2>3 DEF CreateAddrAdd
<1>8. CASE CreatePut(w)
  <2>1. c.pc = "createPut" /\ c.ip \in Cidr /\ c.n \in Names
    BY <1>1, <1>8 DEF CreatePut, At, CallOK
  <2>2. [ip |-> c.ip, targets |-> {}] \in LBInfo
    BY <2>1 DEF LBInfo
  <2>3. db' \in [Names -> LBInfo]
    BY <1>1, <1>8, <2>2 DEF CreatePut
  <2> QED
    BY <1>8, <2>1, <2>3, ReturnTyped DEF CreatePut
<1>9. CASE DeleteService(w)
  <2>1. c.pc = "delServices"
    BY <1>9 DEF DeleteService, At
  <2>2. PICK pp \in c.todo, errs \in SUBSET Errors :
          /\ svcs' \subseteq svcs /\ dests' \subseteq dests
          /\ call' = [call EXCEPT ![w] = [[c EXCEPT !.todo = @ \ {pp}] EXCEPT !.errs = errs]]
    <3>1. PICK pp \in c.todo :
            LET s == toIPVSService(c.ip, pp[1], pp[2]) IN
              /\ svcs' = svcs \ {s}
              /\ dests' = WithoutServices(dests, {s})
              /\ call' = [call EXCEPT ![w].todo = @ \ {pp},
                                      ![w].errs = @ \cup (IF s \in svcs THEN {} ELSE {"NoSuchService"})]
      BY <1>9 DEF DeleteService
    <3> DEFINE errs == c.errs \cup (IF toIPVSService(c.ip, pp[1], pp[2]) \in svcs THEN {} ELSE {"NoSuchService"})
    <3>2. errs \in SUBSET Errors
      BY <1>1 DEF Errors
    <3>3. call' = [call EXCEPT ![w] = [[c EXCEPT !.todo = @ \ {pp}] EXCEPT !.errs = errs]]
      BY <1>1, <3>1 DEF TypeInv
    <3>4. svcs' \subseteq svcs /\ dests' \subseteq dests
      BY <3>1 DEF WithoutServices
    <3> QED
      BY <3>2, <3>3, <3>4
  <2>3. CallOK([[c EXCEPT !.todo = @ \ {pp}] EXCEPT !.errs = errs])
    BY <1>1, <2>1 DEF CallOK, CallRecord, Storing, Adding, Removing
  <2>4. UNCHANGED <<db, addrs, up, reply, flaws, apart>>
    BY <1>9 DEF DeleteService
  <2> QED
    BY <1>1, <2>2, <2>3, <2>4, BecomesTyped, StateTyped DEF TypeInv, TypeOK
<1>10. CASE DeleteAddr(w)
  <2>1. c.pc = "delServices"
    BY <1>10 DEF DeleteAddr, At
  <2> DEFINE errs == c.errs \cup (IF c.ip \in addrs THEN {} ELSE {"NoSuchIP"})
             d == [[c EXCEPT !.pc = "dbDelete"] EXCEPT !.errs = errs]
  <2>2. errs \in SUBSET Errors
    BY <1>1 DEF Errors
  <2>3. call' = [call EXCEPT ![w] = d]
    BY <1>1, <1>10 DEF DeleteAddr, TypeInv
  <2>4. CallOK(d)
    <3> HIDE DEF errs
    <3> QED
      BY <1>1, <1>3, <2>1, <2>2 DEF CallOK, CallRecord, Storing, Adding, Removing
  <2>5. addrs' \subseteq addrs /\ UNCHANGED <<db, svcs, dests, up, reply, flaws, apart>>
    BY <1>10 DEF DeleteAddr
  <2> HIDE DEF d
  <2> QED
    BY <1>1, <2>3, <2>4, <2>5, BecomesTyped, StateTyped DEF TypeInv, TypeOK
<1>11. CASE DeleteRecord(w)
  <2>1. c.n \in Names
    BY <1>2, <1>11 DEF DeleteRecord, At
  <2>2. db' \in [Names -> LBInfo]
    BY <1>1, <1>11, NoLBIsInfo DEF DeleteRecord
  <2> QED
    BY <1>1, <1>11, <2>1, <2>2, ReturnTyped DEF DeleteRecord
<1>12. CASE AddIsServicePresent(w)
  BY <1>1, <1>3, <1>12, GotoTyped DEF AddIsServicePresent, At, Storing, Adding, Removing, kernel
<1>13. CASE AddNewService(w)
  <2>1. c.pc = "newService" /\ ServiceOf(c.info, c.m) \in Service /\ c.n \in Names
    BY <1>2, <1>4, <1>13 DEF AddNewService, At, Adding
  <2>2. CASE Refuse(w, c.n, "CallFailed")
    BY <1>3, <2>1, <2>2, RefuseTyped
  <2>3. CASE svcs' = svcs \cup {ServiceOf(c.info, c.m)} /\ Goto(w, "newDest") /\ UNCHANGED <<db, addrs, dests>>
    BY <1>1, <1>3, <2>1, <2>3, GotoTyped DEF Storing, Adding, Removing
  <2> QED
    BY <1>13, <2>2, <2>3 DEF AddNewService
<1>14. CASE AddNewDestination(w)
  <2>1. c.pc = "newDest" /\ EntryOf(c.info, c.m) \in Service \X Destination /\ c.n \in Names
    BY <1>2, <1>4, <1>14 DEF AddNewDestination, At, Adding
  <2>2. CASE Refuse(w, c.n, "AddDestinationFailed")
    BY <1>3, <2>1, <2>2, RefuseTyped
  <2>3. CASE dests' = dests \cup {EntryOf(c.info, c.m)} /\ Goto(w, "addPut") /\ UNCHANGED <<db, addrs, svcs>>
    BY <1>1, <1>3, <2>1, <2>3, GotoTyped DEF Storing, Adding, Removing
  <2> QED
    BY <1>14, <2>2, <2>3 DEF AddNewDestination
<1>15. CASE AddPut(w) \/ DelPut(w)
  <2>1. c.pc \in Adding \cup Removing /\ c.m \in Mapping /\ c.n \in Names
    BY <1>1, <1>2, <1>15 DEF AddPut, DelPut, At, CallOK, Adding, Removing
  <2>2. /\ [c.info EXCEPT !.targets = @ \cup {c.m}] \in LBInfo
        /\ [c.info EXCEPT !.targets = @ \ {c.m}] \in LBInfo
    BY <1>1, <2>1 DEF LBInfo
  <2>3. db' \in [Names -> LBInfo] /\ Return(w, c.n, {}) /\ UNCHANGED kernel
    BY <1>1, <1>15, <2>2 DEF AddPut, DelPut
  <2> QED
    BY <2>1, <2>3, ReturnTyped
<1>16. CASE DelDestination(w)
  <2>1. c.pc = "delDest" /\ c.n \in Names
    BY <1>2, <1>16 DEF DelDestination, At
  <2>2. CASE Refuse(w, c.n, "DelDestinationFailed")
    BY <1>3, <2>1, <2>2, RefuseTyped
  <2>3. ASSUME NEW pc \in {"delService", "delPut"}, Goto(w, pc), dests' \subseteq dests, UNCHANGED <<db, addrs, svcs>>
        PROVE  TypeInv'
    BY <1>1, <1>3, <2>1, <2>3, GotoTyped DEF Storing, Adding, Removing
  <2> QED
    BY <1>16, <2>2, <2>3 DEF DelDestination
<1>17. CASE DelService(w)
  <2>1. c.pc = "delService" /\ c.n \in Names
    BY <1>2, <1>17 DEF DelService, At
  <2>2. CASE Refuse(w, c.n, "DelDestinationFailed")
    BY <1>3, <2>1, <2>2, RefuseTyped
  <2>3. CASE svcs' \subseteq svcs /\ dests' \subseteq dests /\ Goto(w, "delPut") /\ UNCHANGED <<db, addrs>>
    BY <1>1, <1>3, <2>1, <2>3, GotoTyped DEF Storing, Adding, Removing
  <2> QED
    BY <1>17, <2>2, <2>3 DEF DelService, WithoutServices
<1> QED
  BY <1>5, <1>6, <1>7, <1>8, <1>9, <1>10, <1>11, <1>12, <1>13, <1>14, <1>15, <1>16, <1>17 DEF Handler

LEMMA CallFailsTyped == TypeInv /\ (\E w \in Workers : CallFails(w)) => TypeInv'
<1> SUFFICES ASSUME TypeInv, NEW w \in Workers, CallFails(w)
             PROVE  TypeInv'
  OBVIOUS
<1> DEFINE c == call[w]
<1>1. /\ CallOK(c) /\ c \in CallRecord /\ c.errs \in SUBSET Errors /\ (c.pc # "idle" => c.n \in Names)
      /\ {"CallFailed", "AddDestinationFailed", "DelDestinationFailed", "NoSuchService", "NoSuchIP"} \subseteq Errors
  BY DEF TypeInv, CallOK, CallRecord, Errors
<1>2. UNCHANGED <<db, addrs, svcs, dests, up, apart>> /\ flaws' \subseteq Flaws
  BY DEF CallFails, kernel, TypeInv, TypeOK, Flaws
<1>3. ASSUME NEW d, CallOK(d), call' = [call EXCEPT ![w] = d],
             reply' \in [name : Names \cup {NoIP}, code : SUBSET Errors]
      PROVE  TypeInv'
  BY <1>2, <1>3, BecomesTyped, StateTyped DEF TypeInv, TypeOK
<1>4. ASSUME NEW err \in Errors, c.n \in Names, call' = [call EXCEPT ![w] = Idle],
             reply' = [name |-> c.n, code |-> {err}]
      PROVE  TypeInv'
  BY <1>3, <1>4, IdleOK
<1>5. reply \in [name : Names \cup {NoIP}, code : SUBSET Errors]
  BY DEF TypeInv, TypeOK
<1>6. CASE /\ c.pc \in {"allocate", "addrAdd", "createPut", "newService", "addPut", "delPut", "dbDelete"}
           /\ call' = [call EXCEPT ![w] = Idle]
           /\ reply' = [name |-> c.n, code |-> {"CallFailed"}]
  BY <1>1, <1>4, <1>6
<1>7. CASE /\ c.pc \in {"newDest", "delDest", "delService"}
           /\ call' = [call EXCEPT ![w] = Idle]
           /\ reply' = [name |-> c.n,
                        code |-> {IF At(w, "newDest") THEN "AddDestinationFailed" ELSE "DelDestinationFailed"}]
  BY <1>1, <1>4, <1>7
<1>8. CASE /\ c.pc = "addrList" /\ c.ip \in Cidr
           /\ call' = [call EXCEPT ![w].pc = "addrAdd"]
           /\ reply' = reply
  <2>1. CallOK([c EXCEPT !.pc = "addrAdd"])
    BY <1>1, <1>8 DEF CallOK, CallRecord, PCs, Storing, Adding, Removing
  <2> QED
    BY <1>3, <1>5, <1>8, <2>1
<1>9. CASE /\ c.pc = "isPresent"
           /\ call' = [call EXCEPT ![w].pc = "newService"]
           /\ reply' = reply
  <2>1. CallOK([c EXCEPT !.pc = "newService"])
    BY <1>1, <1>9 DEF CallOK, CallRecord, PCs, Storing, Adding, Removing
  <2> QED
    BY <1>3, <1>5, <1>9, <2>1
<1>10. ASSUME c.pc = "delServices", reply' = reply, NEW pp \in c.todo,
              call' = [call EXCEPT ![w].todo = @ \ {pp}, ![w].errs = @ \cup {"NoSuchService"}]
       PROVE  TypeInv'
  <2> DEFINE errs == c.errs \cup {"NoSuchService"}
             d == [[c EXCEPT !.todo = @ \ {pp}] EXCEPT !.errs = errs]
  <2>1. errs \in SUBSET Errors
    BY <1>1
  <2>2. call' = [call EXCEPT ![w] = d]
    BY <1>1, <1>10 DEF TypeInv
  <2>3. CallOK(d)
    <3> HIDE DEF errs
    <3> QED
      BY <1>1, <1>10, <2>1 DEF CallOK, CallRecord, Storing, Adding, Removing
  <2> HIDE DEF d
  <2> QED
    BY <1>3, <1>5, <1>10, <2>2, <2>3
<1>11. ASSUME c.pc = "delServices", reply' = reply,
              call' = [call EXCEPT ![w].pc = "dbDelete", ![w].errs = @ \cup {"NoSuchIP"}]
       PROVE  TypeInv'
  <2> DEFINE errs == c.errs \cup {"NoSuchIP"}
             d == [[c EXCEPT !.pc = "dbDelete"] EXCEPT !.errs = errs]
  <2>1. errs \in SUBSET Errors
    BY <1>1
  <2>2. call' = [call EXCEPT ![w] = d]
    BY <1>1, <1>11 DEF TypeInv
  <2>3. CallOK(d)
    <3> HIDE DEF errs
    <3> QED
      BY <1>1, <1>11, <2>1 DEF CallOK, CallRecord, PCs, Storing, Adding, Removing
  <2> HIDE DEF d
  <2> QED
    BY <1>3, <1>5, <1>11, <2>2, <2>3
<1> QED
  BY <1>6, <1>7, <1>8, <1>9, <1>10, <1>11 DEF CallFails, At

(* What the database records is made of addresses, services and            *)
(* destinations of their types.                                            *)
LEMMA RecordedTyped ==
  ASSUME TypeInv
  PROVE  /\ {db[n].ip : n \in Stored} \subseteq Cidr
         /\ Recorded(Stored) \subseteq Service \X Destination
<1>1. \A n \in Stored : db[n] \in LBInfo /\ db[n].ip \in Cidr /\ db[n].targets \subseteq Mapping
  BY DEF TypeInv, TypeOK, Stored, Exists, LBInfo
<1>2. ASSUME NEW n \in Stored, NEW m \in db[n].targets
      PROVE  EntryOf(db[n], m) \in Service \X Destination
  <2>1. db[n] \in LBInfo /\ db[n].ip # NoIP /\ m \in Mapping
    BY <1>1, ConfigAssumption
  <2> QED
    BY <2>1, EntryType
<1> QED
  BY <1>1, <1>2 DEF Recorded

(* Restore writes records, or some of what they hold, to the kernel.       *)
LEMMA RestoredTyped ==
  ASSUME TypeInv, NEW S \in SUBSET Stored, NEW E \in SUBSET Recorded(Stored), NEW F \in SUBSET Recorded(Stored),
         Restored(S, E, F), up' \in BOOLEAN, flaws' \subseteq Flaws,
         reply' \in [name : Names \cup {NoIP}, code : SUBSET Errors]
  PROVE  TypeInv'
<1>1. {db[n].ip : n \in S} \subseteq Nat
  BY RecordedTyped, ConfigAssumption
<1>2. \A e \in Recorded(Stored) : e \in Service \X Destination /\ e[1] \in Service
  BY RecordedTyped
<1>3. addrs' \in SUBSET Nat
  BY <1>1 DEF Restored, TypeInv, TypeOK
<1>4. svcs' \in SUBSET Service
  BY <1>2 DEF Restored, TypeInv, TypeOK
<1>5. dests' \in SUBSET (Service \X Destination)
  BY <1>2 DEF Restored, TypeInv, TypeOK
<1>6. UNCHANGED <<db, call, apart>>
  BY DEF Restored
<1> QED
  BY <1>3, <1>4, <1>5, <1>6, StateTyped DEF TypeInv, TypeOK

LEMMA StopTyped == TypeInv /\ (Crash \/ Reboot) => TypeInv'
<1> SUFFICES ASSUME TypeInv, Crash \/ Reboot
             PROVE  TypeInv'
  OBVIOUS
<1>1. UNCHANGED <<db, reply, apart>> /\ up' = FALSE /\ call' = [w \in Workers |-> Idle]
  BY DEF Crash, Reboot, Halt
<1>2. call' \in [Workers -> CallRecord] /\ \A w \in Workers : CallOK(call'[w])
  BY <1>1, IdleOK DEF CallOK
<1>3. flaws' \subseteq Flaws
  BY DEF Crash, Reboot, TypeInv, TypeOK, Flaws
<1>4. addrs' \in SUBSET Nat /\ svcs' \in SUBSET Service /\ dests' \in SUBSET (Service \X Destination)
  BY ConfigAssumption DEF Crash, Reboot, kernel, TypeInv, TypeOK
<1> QED
  BY <1>1, <1>2, <1>3, <1>4, StateTyped DEF TypeInv, TypeOK

LEMMA StartTyped == TypeInv /\ (Restore \/ RestoreMisses \/ RestoreCut) => TypeInv'
<1> SUFFICES ASSUME TypeInv, Restore \/ RestoreMisses \/ RestoreCut
             PROVE  TypeInv'
  OBVIOUS
<1>1. reply' \in [name : Names \cup {NoIP}, code : SUBSET Errors]
  BY DEF Restore, RestoreMisses, RestoreCut, TypeInv, TypeOK
<1>2. up' \in BOOLEAN /\ flaws' \subseteq Flaws
  BY DEF Restore, RestoreMisses, RestoreCut, MadeGood, TypeInv, TypeOK, Flaws
<1>3. CASE Restore
  BY <1>1, <1>2, <1>3, RestoredTyped DEF Restore
<1>4. CASE RestoreMisses
  BY <1>1, <1>2, <1>4, RestoredTyped DEF RestoreMisses
<1>5. CASE RestoreCut
  <2>1. PICK S \in SUBSET Stored : \E E \in SUBSET Recorded(S) : \E F \in SUBSET E : Restored(S, E, F)
    BY <1>5 DEF RestoreCut
  <2>2. Recorded(S) \subseteq Recorded(Stored)
    BY DEF Recorded
  <2> QED
    BY <1>1, <1>2, <2>1, <2>2, RestoredTyped
<1> QED
  BY <1>3, <1>4, <1>5

LEMMA InitTyped == Init => TypeInv
<1> SUFFICES ASSUME Init
             PROVE  TypeInv
  OBVIOUS
<1>1. call \in [Workers -> CallRecord] /\ \A w \in Workers : CallOK(call[w])
  BY IdleOK DEF Init, CallOK
<1>2. /\ db \in [Names -> LBInfo] /\ addrs \in SUBSET Nat /\ svcs \in SUBSET Service
      /\ dests \in SUBSET (Service \X Destination) /\ up \in BOOLEAN /\ apart \in BOOLEAN /\ flaws \subseteq Flaws
      /\ reply \in [name : Names \cup {NoIP}, code : SUBSET Errors]
  BY NoLBIsInfo, ConfigAssumption DEF Init
<1> QED
  BY <1>1, <1>2, TypedCalls DEF TypeInv, TypeOK

LEMMA TypeInductive == TypeInv /\ [Next]_vars => TypeInv'
<1>1. TypeInv /\ UNCHANGED vars => TypeInv'
  <2> SUFFICES ASSUME TypeInv, UNCHANGED vars
               PROVE  TypeInv'
    OBVIOUS
  <2>1. UNCHANGED <<db, addrs, svcs, dests, up, call, reply, flaws, apart>>
    BY DEF vars
  <2> QED
    BY <2>1, StateTyped DEF TypeInv, TypeOK
<1> QED
  BY <1>1, RequestTyped, HandlerTyped, CallFailsTyped, StopTyped, StartTyped DEF Next

(* Each variable, and each local variable of each handler, has its type,   *)
(* whatever handlers interleave, wherever the process dies and whichever   *)
(* calls fail: in particular a handler of AddTarget or DelTarget always    *)
(* works on the record of a load balancer that has an address.             *)
THEOREM TypeCorrect == Spec => []TypeOK
<1>1. TypeInv => TypeOK
  BY DEF TypeInv
<1> QED
  BY <1>1, InitTyped, TypeInductive, PTL DEF Spec

-----------------------------------------------------------------------------
(* Handlers keep to their own load balancer and their own address *)

(* Where an address of load balancer n may come from: the client asked for *)
(* it, or for none and the IPAM found it.                                  *)
AddressOf(n, ip) ==
  \/ ip \in DynRange /\ <<n, NoIP>> \in Requests
  \/ ip # NoIP /\ <<n, ip>> \in Requests

Origin ==
  /\ \A n \in Stored : AddressOf(n, db[n].ip)
  /\ \A w \in Workers :
       /\ call[w].pc = "allocate" => call[w].ip = NoIP /\ <<call[w].n, NoIP>> \in Requests
       /\ call[w].pc \notin {"idle", "allocate"} => AddressOf(call[w].n, call[w].ip)
       /\ call[w].pc \in Adding \cup Removing => call[w].info.ip = call[w].ip

(* The handler c becomes d: it is over, or it is further in the same RPC   *)
(* on the same load balancer, address, target and record.                  *)
Continues(c, d) ==
  \/ d = Idle
  \/ /\ d.n = c.n /\ d.m = c.m /\ d.info = c.info
     /\ \/ c.pc = "allocate" /\ d.pc = "addrList" /\ d.ip \in DynRange /\ d.ip \notin addrs
        \/ /\ d.ip = c.ip
           /\ \E P \in {Storing, Deleting, Adding, Removing} : c.pc \in P /\ d.pc \in P

LEMMA GotoContinues ==
  ASSUME TypeInv, NEW w \in Workers, NEW pc, Goto(w, pc),
         \E P \in {Storing, Deleting, Adding, Removing} : call[w].pc \in P /\ pc \in P
  PROVE  \E d : call' = [call EXCEPT ![w] = d] /\ Continues(call[w], d)
<1> DEFINE d == [call[w] EXCEPT !.pc = pc]
<1>1. call[w] \in CallRecord
  BY DEF TypeInv
<1>2. d.pc = pc /\ d.n = call[w].n /\ d.ip = call[w].ip /\ d.m = call[w].m /\ d.info = call[w].info
  BY <1>1 DEF CallRecord
<1>3. call' = [call EXCEPT ![w] = d]
  BY DEF Goto
<1> QED
  BY <1>2, <1>3 DEF Continues

LEMMA ReturnContinues ==
  ASSUME NEW w \in Workers, NEW n, NEW errs, Return(w, n, errs)
  PROVE  \E d : call' = [call EXCEPT ![w] = d] /\ Continues(call[w], d)
BY DEF Return, Continues

LEMMA HandlerContinues ==
  ASSUME TypeInv, NEW w \in Workers, Handler(w) \/ CallFails(w)
  PROVE  \E d : call' = [call EXCEPT ![w] = d] /\ Continues(call[w], d)
<1> DEFINE c == call[w]
           Goal == \E d : call' = [call EXCEPT ![w] = d] /\ Continues(call[w], d)
<1>1. c \in CallRecord /\ call \in [Workers -> CallRecord]
  BY DEF TypeInv
<1>2. ASSUME NEW n, NEW err, Refuse(w, n, err)
      PROVE  Goal
  BY <1>2, ReturnContinues DEF Refuse
<1>3. CASE CreateAllocate(w)
  <2>1. c.pc = "allocate"
    BY <1>3 DEF CreateAllocate, At
  <2>2. ASSUME NEW ip \in Allocate(addrs), Begin(w, [c EXCEPT !.pc = "addrList", !.ip = ip])
        PROVE  Goal
    <3>1. ip \in DynRange /\ ip \notin addrs
      BY DEF Allocate, LeastFree, DynRange
    <3> DEFINE d == [c EXCEPT !.pc = "addrList", !.ip = ip]
    <3>2. d.pc = "addrList" /\ d.n = c.n /\ d.ip = ip /\ d.m = c.m /\ d.info = c.info
      BY <1>1 DEF CallRecord
    <3>3. call' = [call EXCEPT ![w] = d]
      BY <2>2 DEF Begin
    <3> QED
      BY <2>1, <3>1, <3>2, <3>3 DEF Continues
  <2> QED
    BY <1>2, <1>3, <2>2 DEF CreateAllocate
<1>4. CASE CreateAddrList(w) \/ CreateAddrAdd(w)
  <2>1. c.pc \in {"addrList", "addrAdd"}
    BY <1>4 DEF CreateAddrList, CreateAddrAdd, At
  <2>2. ASSUME NEW pc \in {"addrAdd", "createPut"}, Goto(w, pc)
        PROVE  Goal
    BY <2>1, <2>2, GotoContinues DEF Storing
  <2> QED
    BY <1>2, <1>4, <2>2 DEF CreateAddrList, CreateAddrAdd
<1>5. CASE CreatePut(w) \/ DeleteRecord(w) \/ AddPut(w) \/ DelPut(w)
  BY <1>5, ReturnContinues DEF CreatePut, DeleteRecord, AddPut, DelPut
<1>6. ASSUME NEW pc \in Deleting, c.pc = "delServices", NEW todo, NEW errs,
             call' = [call EXCEPT ![w].pc = pc, ![w].todo = todo, ![w].errs = errs]
      PROVE  Goal
  <2> DEFINE d == [[[c EXCEPT !.pc = pc] EXCEPT !.todo = todo] EXCEPT !.errs = errs]
  <2>1. d.pc = pc /\ d.n = c.n /\ d.ip = c.ip /\ d.m = c.m /\ d.info = c.info
    BY <1>1 DEF CallRecord
  <2>2. call' = [call EXCEPT ![w] = d]
    BY <1>1, <1>6
  <2> HIDE DEF d
  <2> QED
    BY <1>6, <2>1, <2>2 DEF Continues, Deleting
<1>7. CASE DeleteService(w)
  <2>1. c.pc = "delServices"
    BY <1>7 DEF DeleteService, At
  <2>2. PICK todo, errs : call' = [call EXCEPT ![w].todo = todo, ![w].errs = errs]
    BY <1>1, <1>7 DEF DeleteService
  <2>3. call' = [call EXCEPT ![w].pc = c.pc, ![w].todo = todo, ![w].errs = errs]
    BY <1>1, <2>2 DEF CallRecord
  <2> QED
    BY <1>6, <2>1, <2>3 DEF Deleting
<1>8. CASE DeleteAddr(w)
  <2>1. c.pc = "delServices"
    BY <1>8 DEF DeleteAddr, At
  <2>2. PICK errs : call' = [call EXCEPT ![w].pc = "dbDelete", ![w].errs = errs]
    BY <1>1, <1>8 DEF DeleteAddr
  <2>3. call' = [call EXCEPT ![w].pc = "dbDelete", ![w].todo = c.todo, ![w].errs = errs]
    BY <1>1, <2>2 DEF CallRecord
  <2> QED
    BY <1>6, <2>1, <2>3 DEF Deleting
<1>9. CASE AddIsServicePresent(w) \/ AddNewService(w) \/ AddNewDestination(w)
  <2>1. c.pc \in Adding
    BY <1>9 DEF AddIsServicePresent, AddNewService, AddNewDestination, At, Adding
  <2>2. ASSUME NEW pc \in Adding, Goto(w, pc)
        PROVE  Goal
    BY <2>1, <2>2, GotoContinues
  <2> QED
    BY <1>2, <1>9, <2>2 DEF AddIsServicePresent, AddNewService, AddNewDestination, Adding
<1>10. CASE DelDestination(w) \/ DelService(w)
  <2>1. c.pc \in Removing
    BY <1>10 DEF DelDestination, DelService, At, Removing
  <2>2. ASSUME NEW pc \in Removing, Goto(w, pc)
        PROVE  Goal
    BY <2>1, <2>2, GotoContinues
  <2> QED
    BY <1>2, <1>10, <2>2 DEF DelDestination, DelService, Removing
<1>11. CASE CallFails(w)
  <2>1. CASE call' = [call EXCEPT ![w] = Idle]
    BY <2>1 DEF Continues
  <2>2. ASSUME NEW pc, call' = [call EXCEPT ![w].pc = pc],
               \E P \in {Storing, Deleting, Adding, Removing} : c.pc \in P /\ pc \in P
        PROVE  Goal
    <3> DEFINE d == [c EXCEPT !.pc = pc]
    <3>1. d.pc = pc /\ d.n = c.n /\ d.ip = c.ip /\ d.m = c.m /\ d.info = c.info
      BY <1>1 DEF CallRecord
    <3>2. call' = [call EXCEPT ![w] = d]
      BY <2>2
    <3> HIDE DEF d
    <3>3. \E P \in {Storing, Deleting, Adding, Removing} : c.pc \in P /\ d.pc \in P
      BY <2>2, <3>1
    <3> QED
      BY <3>1, <3>2, <3>3 DEF Continues
  <2>3. CASE c.pc = "addrList" /\ call' = [call EXCEPT ![w].pc = "addrAdd"]
    BY <2>2, <2>3 DEF Storing
  <2>4. CASE c.pc = "isPresent" /\ call' = [call EXCEPT ![w].pc = "newService"]
    BY <2>2, <2>4 DEF Adding
  <2>5. ASSUME c.pc = "delServices", NEW pp \in c.todo,
               call' = [call EXCEPT ![w].todo = @ \ {pp}, ![w].errs = @ \cup {"NoSuchService"}]
        PROVE  Goal
    <3>1. call' = [call EXCEPT ![w].pc = c.pc, ![w].todo = c.todo \ {pp}, ![w].errs = c.errs \cup {"NoSuchService"}]
      BY <1>1, <2>5 DEF CallRecord
    <3> QED
      BY <1>6, <2>5, <3>1 DEF Deleting
  <2>6. ASSUME c.pc = "delServices", call' = [call EXCEPT ![w].pc = "dbDelete", ![w].errs = @ \cup {"NoSuchIP"}]
        PROVE  Goal
    <3>1. call' = [call EXCEPT ![w].pc = "dbDelete", ![w].todo = c.todo, ![w].errs = c.errs \cup {"NoSuchIP"}]
      BY <1>1, <2>6 DEF CallRecord
    <3> QED
      BY <1>6, <2>6, <3>1 DEF Deleting
  <2> QED
    BY <1>11, <2>1, <2>3, <2>4, <2>5, <2>6 DEF CallFails, At
<1> QED
  BY <1>3, <1>4, <1>5, <1>7, <1>8, <1>9, <1>10, <1>11 DEF Handler

(* What a step may reach: the record of n and the kernel objects on ip.    *)
KeepsTo(n, ip) ==
  /\ up' = up
  /\ \A k \in Names \ {n} : db'[k] = db[k]
  /\ \A x : x # ip => (x \in addrs' <=> x \in addrs)
  /\ \A s \in Service : s[1] # ip => (s \in svcs' <=> s \in svcs)
  /\ \A e \in Service \X Destination : e[1][1] # ip => (e \in dests' <=> e \in dests)

LEMMA UnchangedKeeps == UNCHANGED <<db, kernel, up>> => \A n, ip : KeepsTo(n, ip)
BY DEF kernel, KeepsTo

LEMMA HandlerKeepsTo ==
  ASSUME TypeInv, Origin, NEW w \in Workers, Handler(w) \/ CallFails(w)
  PROVE  /\ KeepsTo(call[w].n, call[w].ip)
         /\ \/ db' = db
            \/ /\ call' = [call EXCEPT ![w] = Idle]
               /\ \/ call[w].pc = "dbDelete" /\ db'[call[w].n] = NoLB
                  \/ /\ call[w].pc \in {"createPut", "addPut", "delPut"}
                     /\ db'[call[w].n].ip = call[w].ip
<1> DEFINE c == call[w]
           Goal == KeepsTo(c.n, c.ip)
<1>1. /\ CallOK(c) /\ c.info \in LBInfo /\ (c.pc # "idle" => c.n \in Names)
      /\ db \in [Names -> LBInfo] /\ svcs \in SUBSET Service /\ dests \in SUBSET (Service \X Destination)
  BY DEF TypeInv, TypeOK, CallOK, CallRecord
<1>2. ASSUME NEW n, NEW err, Refuse(w, n, err)
      PROVE  Goal /\ db' = db
  BY <1>2, UnchangedKeeps DEF Refuse, Return
<1>3. CASE CreateAllocate(w) \/ CreateAddrList(w) \/ AddIsServicePresent(w) \/ CallFails(w)
  <2>1. UNCHANGED <<db, kernel, up>>
    BY <1>3 DEF CreateAllocate, CreateAddrList, AddIsServicePresent, CallFails, Refuse, Return, Begin, Goto
  <2> QED
    BY <2>1, UnchangedKeeps
<1>4. CASE CreateAddrAdd(w)
  BY <1>2, <1>4 DEF CreateAddrAdd, Goto, KeepsTo
<1>5. CASE CreatePut(w) \/ DeleteRecord(w)
  BY <1>1, <1>5 DEF CreatePut, DeleteRecord, At, Return, kernel, KeepsTo
<1>6. CASE AddPut(w) \/ DelPut(w)
  <2>1. /\ c.pc \in {"addPut", "delPut"} /\ c.info.ip = c.ip /\ UNCHANGED <<addrs, svcs, dests, up>>
        /\ call' = [call EXCEPT ![w] = Idle]
    BY <1>6 DEF AddPut, DelPut, At, Return, kernel, Origin, Adding, Removing
  <2>2. PICK T : db' = [db EXCEPT ![c.n] = [c.info EXCEPT !.targets = T]]
    BY <1>6 DEF AddPut, DelPut
  <2>3. [c.info EXCEPT !.targets = T].ip = c.ip
    BY <1>1, <2>1 DEF LBInfo
  <2> HIDE DEF c
  <2>4. db'[c.n].ip = c.ip /\ \A k \in Names \ {c.n} : db'[k] = db[k]
    BY <1>1, <2>1, <2>2, <2>3
  <2> QED
    BY <2>1, <2>4 DEF KeepsTo, c
<1>7. CASE DeleteService(w)
  <2>1. PICK s : s[1] = c.ip /\ svcs' = svcs \ {s} /\ dests' = WithoutServices(dests, {s})
    BY <1>7 DEF DeleteService, toIPVSService
  <2> QED
    BY <1>7, <2>1 DEF DeleteService, WithoutServices, KeepsTo
<1>8. CASE DeleteAddr(w)
  BY <1>8 DEF DeleteAddr, KeepsTo
<1>9. ASSUME c.pc \in Adding \cup Removing
      PROVE  /\ ServiceOf(c.info, c.m)[1] = c.ip
             /\ EntryOf(c.info, c.m)[1] = ServiceOf(c.info, c.m)
  BY <1>1, <1>9, EntryType DEF CallOK, Origin
<1>10. CASE AddNewService(w)
  <2>1. ServiceOf(c.info, c.m)[1] = c.ip
    BY <1>9, <1>10 DEF AddNewService, At, Adding
  <2> QED
    BY <1>2, <1>10, <2>1 DEF AddNewService, Goto, KeepsTo
<1>11. CASE AddNewDestination(w)
  <2>1. EntryOf(c.info, c.m)[1][1] = c.ip
    BY <1>9, <1>11 DEF AddNewDestination, At, Adding
  <2> QED
    BY <1>2, <1>11, <2>1 DEF AddNewDestination, Goto, KeepsTo
<1>12. CASE DelDestination(w)
  <2>1. EntryOf(c.info, c.m)[1][1] = c.ip
    BY <1>9, <1>12 DEF DelDestination, At, Removing
  <2> QED
    BY <1>2, <1>12, <2>1 DEF DelDestination, Goto, KeepsTo
<1>13. CASE DelService(w)
  <2>1. ServiceOf(c.info, c.m)[1] = c.ip
    BY <1>9, <1>13 DEF DelService, At, Removing
  <2> QED
    BY <1>2, <1>13, <2>1 DEF DelService, WithoutServices, Goto, KeepsTo
<1> QED
  BY <1>3, <1>4, <1>5, <1>6, <1>7, <1>8, <1>10, <1>11, <1>12, <1>13 DEF Handler

LEMMA OriginStart == Init => Origin
BY DEF Init, Origin, Stored, Exists, NoLB, Idle, Adding, Removing

LEMMA OriginStep == TypeInv /\ Origin /\ [Next]_vars => Origin'
<1> SUFFICES ASSUME TypeInv, Origin, [Next]_vars
             PROVE  Origin'
  OBVIOUS
<1> DEFINE Fine(c) == /\ c.pc = "allocate" => c.ip = NoIP /\ <<c.n, NoIP>> \in Requests
                      /\ c.pc \notin {"idle", "allocate"} => AddressOf(c.n, c.ip)
                      /\ c.pc \in Adding \cup Removing => c.info.ip = c.ip
<1>1. (\A w \in Workers : Fine(call[w])) /\ \A n \in Stored : AddressOf(n, db[n].ip)
  BY DEF Origin
<1>2. call \in [Workers -> CallRecord] /\ \A w \in Workers : CallOK(call[w])
  BY DEF TypeInv
<1>3. Fine(Idle)
  BY DEF Idle, Adding, Removing
<1>4. ASSUME \A w \in Workers : Fine(call'[w]), \A n \in Names : db'[n].ip # NoIP => AddressOf(n, db'[n].ip)
      PROVE  Origin'
  BY <1>4 DEF Origin, Stored, Exists, AddressOf
<1>5. ASSUME NEW w \in Workers, NEW d, Fine(d), call' = [call EXCEPT ![w] = d], db' = db
      PROVE  Origin'
  BY <1>1, <1>2, <1>4, <1>5 DEF Stored, Exists
<1>6. CASE UNCHANGED vars
  BY <1>1, <1>4, <1>6 DEF vars, Stored, Exists
<1>7. ASSUME NEW w \in Workers, Request(w)
      PROVE  Origin'
  <2>1. ASSUME NEW n, NEW err, Refuse(w, n, err)
        PROVE  Origin'
    BY <1>3, <1>5, <2>1 DEF Refuse, Return
  <2>2. ASSUME NEW d, Fine(d), Begin(w, d)
        PROVE  Origin'
    BY <1>5, <2>2 DEF Begin
  <2> HIDE DEF Fine
  <2>3. ASSUME NEW r \in Requests, CreateGet(w, r[1], r[2])
        PROVE  Origin'
    <3> DEFINE d == [Idle EXCEPT !.pc = IF r[2] = NoIP THEN "allocate" ELSE "addrList", !.n = r[1], !.ip = r[2]]
    <3>1. r = <<r[1], r[2]>>
      BY ConfigAssumption
    <3>2. Fine(d)
      BY <3>1 DEF Fine, Idle, AddressOf, Adding, Removing
    <3> HIDE DEF d
    <3> QED
      BY <2>1, <2>2, <2>3, <3>2 DEF CreateGet, d
  <2>4. ASSUME NEW n \in Names, DeleteGet(w, n)
        PROVE  Origin'
    <3> DEFINE d == [Idle EXCEPT !.pc = "delServices", !.n = n, !.ip = db[n].ip, !.info = db[n],
                                 !.todo = {<<m.port, m.proto>> : m \in db[n].targets}]
    <3>1. Exists(n) => Fine(d)
      BY <1>1 DEF Fine, Idle, Stored, Adding, Removing
    <3> HIDE DEF d
    <3> QED
      BY <2>1, <2>2, <2>4, <3>1 DEF DeleteGet, d
  <2>5. ASSUME NEW n \in Names, NEW m \in Mapping, AddGet(w, n, m)
        PROVE  Origin'
    <3> DEFINE d == [Idle EXCEPT !.pc = "isPresent", !.n = n, !.ip = db[n].ip, !.m = m, !.info = db[n]]
    <3>1. Exists(n) => Fine(d)
      BY <1>1 DEF Fine, Idle, Stored
    <3> HIDE DEF d
    <3> QED
      BY <2>1, <2>2, <2>5, <3>1 DEF AddGet, d
  <2>6. ASSUME NEW n \in Names, NEW m \in Mapping, DelGet(w, n, m)
        PROVE  Origin'
    <3> DEFINE d == [Idle EXCEPT !.pc = "delDest", !.n = n, !.ip = db[n].ip, !.m = m, !.info = db[n]]
    <3>1. Exists(n) => Fine(d)
      BY <1>1 DEF Fine, Idle, Stored
    <3> HIDE DEF d
    <3> QED
      BY <2>1, <2>2, <2>6, <3>1 DEF DelGet, d
  <2> QED
    BY <1>7, <2>3, <2>4, <2>5, <2>6 DEF Request
<1>8. ASSUME NEW w \in Workers, Handler(w) \/ CallFails(w)
      PROVE  Origin'
  <2> DEFINE c == call[w]
  <2>1. PICK d : call' = [call EXCEPT ![w] = d] /\ Continues(c, d)
    BY <1>8, HandlerContinues
  <2>2. Fine(d)
    BY <1>1, <1>3, <2>1 DEF Continues, AddressOf, Storing, Deleting, Adding, Removing
  <2>3. \A v \in Workers : Fine(call'[v])
    <3> HIDE DEF Fine
    <3> QED
      BY <1>1, <1>2, <2>1, <2>2
  <2>4. ASSUME NEW n \in Names, db'[n].ip # NoIP
        PROVE  AddressOf(n, db'[n].ip)
    <3>1. CASE db'[n] = db[n]
      BY <1>1, <2>4, <3>1 DEF Stored, Exists
    <3>2. CASE c.n = n /\ db'[n] = NoLB
      BY <2>4, <3>2 DEF NoLB
    <3>3. CASE c.n = n /\ c.pc \in {"createPut", "addPut", "delPut"} /\ db'[n].ip = c.ip
      BY <1>1, <3>3
    <3>4. \A k \in Names \ {c.n} : db'[k] = db[k]
      BY <1>8, HandlerKeepsTo DEF KeepsTo
    <3> QED
      BY <1>8, <3>1, <3>2, <3>3, <3>4, HandlerKeepsTo
  <2> QED
    BY <1>4, <2>3, <2>4
<1>9. CASE Crash \/ Reboot
  BY <1>1, <1>3, <1>4, <1>9 DEF Crash, Reboot, Halt, Stored, Exists
<1>10. CASE Restore \/ RestoreMisses \/ RestoreCut
  BY <1>1, <1>4, <1>10 DEF Restore, RestoreMisses, RestoreCut, Restored, Stored, Exists
<1> QED
  BY <1>6, <1>7, <1>8, <1>9, <1>10 DEF Next

(* Only one load balancer is ever created without asking for an address:   *)
(* two of them may be handed the same one, which the run steps_alloc_race  *)
(* shows.                                                                  *)
OneAutoName ==
  \A r, q \in Requests : r[2] = NoIP /\ q[2] = NoIP => r[1] = q[1]

LEMMA AddressesDiffer ==
  ASSUME ExclusiveRequests, OneAutoName, NEW n, NEW k, NEW ip, AddressOf(n, ip), AddressOf(k, ip)
  PROVE  n = k
BY DEF ExclusiveRequests, OneAutoName, AddressOf

(* Nothing is done to a load balancer by the RPCs on the others, however   *)
(* they overlap with each other, wherever they are cut short and whichever *)
(* of their calls fail: its record stays, and so do its alias, its         *)
(* services and its destinations in the kernel.                            *)
THEOREM OthersUntouched ==
  ExclusiveRequests /\ OneAutoName => (Spec => BystandersUntouched)
<1> DEFINE Quietly(n) == up /\ up' /\ \A w \in Workers : call[w].n # n /\ call'[w].n # n
           Same(n) == /\ db'[n] = db[n]
                      /\ db[n].ip \in addrs' <=> db[n].ip \in addrs
                      /\ \A s \in Service : s[1] = db[n].ip => (s \in svcs' <=> s \in svcs)
                      /\ \A e \in dests \cup dests' : e[1][1] = db[n].ip => e \in dests \cap dests'
<1>1. ASSUME ExclusiveRequests, OneAutoName, TypeInv, Origin, [Next]_vars, NEW n \in Stored, Quietly(n)
      PROVE  Same(n)
  <2>1. /\ TypeInv'
        /\ dests \in SUBSET (Service \X Destination) /\ dests' \in SUBSET (Service \X Destination)
    BY <1>1, TypeInductive DEF TypeInv, TypeOK
  <2>2. CASE UNCHANGED <<db, kernel>>
    BY <2>2 DEF kernel
  <2>3. ASSUME NEW w \in Workers, Handler(w) \/ CallFails(w)
        PROVE  Same(n)
    <3>1. call[w].pc # "idle" /\ n \in Names /\ call[w].n # n
      BY <1>1, <2>3 DEF Handler, CallFails, At, CreateAllocate, CreateAddrList, CreateAddrAdd, CreatePut,
                        DeleteService, DeleteAddr, DeleteRecord,
                        AddIsServicePresent, AddNewService, AddNewDestination, AddPut,
                        DelDestination, DelService, DelPut, Stored
    <3>2. KeepsTo(call[w].n, call[w].ip)
      BY <1>1, <2>3, HandlerKeepsTo
    <3>3. db[n].ip # call[w].ip
      BY <1>1, <3>1, AddressesDiffer DEF Origin, Stored, Exists
    <3> QED
      BY <2>1, <3>1, <3>2, <3>3 DEF KeepsTo
  <2>4. ASSUME NEW w \in Workers, Request(w)
        PROVE  UNCHANGED <<db, kernel>>
    BY <2>4 DEF Request, CreateGet, DeleteGet, AddGet, DelGet, Begin, Refuse
  <2>5. CASE Crash \/ Reboot
    BY <1>1, <2>5 DEF Crash, Reboot, Halt
  <2>6. CASE Restore \/ RestoreMisses \/ RestoreCut
    BY <1>1, <2>6 DEF Restore, RestoreMisses, RestoreCut
  <2>7. CASE UNCHANGED vars
    BY <2>2, <2>7 DEF vars
  <2> HIDE DEF Same, Quietly
  <2> QED
    BY <1>1, <2>2, <2>3, <2>4, <2>5, <2>6, <2>7 DEF Next
<1>2. Spec => [](TypeInv /\ Origin)
  BY InitTyped, TypeInductive, OriginStart, OriginStep, PTL DEF Spec
<1>3. ASSUME ExclusiveRequests, OneAutoName
      PROVE  TypeInv /\ Origin /\ [Next]_vars =>
               [\A n \in Stored : Quietly(n) => Same(n)]_vars
  BY <1>1, <1>3
<1>4. ASSUME ExclusiveRequests, OneAutoName
      PROVE  Spec => [][\A n \in Stored : Quietly(n) => Same(n)]_vars
  BY <1>2, <1>3, <1>4, PTL DEF Spec
<1> QED
  BY <1>4 DEF BystandersUntouched

-----------------------------------------------------------------------------
(* Handlers that do not overlap *)

OneWorker == \A v, w \in Workers : v = w

(* So far no call of the handler failed that the kernel would show.        *)
Clean(c) == c.errs = {} \/ "leak" \notin flaws

(* What the handler c knows of the record it works on.                     *)
RecordKnown(c) ==
  /\ c.pc \in {"allocate"} \cup Storing => ~Exists(c.n)
  /\ c.pc \in Deleting \cup Adding \cup Removing =>
       Exists(c.n) /\ c.info = db[c.n] /\ c.ip = db[c.n].ip
  /\ c.pc \in Adding => c.m \notin c.info.targets
  /\ c.pc \in Removing => c.m \in c.info.targets
  /\ c.pc = "delService" => LastOnPort(c.info, c.m)

(* What the handler c has brought about in the kernel so far.              *)
KernelKnown(c) ==
  /\ c.pc = "createPut" => c.ip \in addrs
  /\ c.pc = "addPut" => EntryOf(c.info, c.m) \in dests
  /\ c.pc \in {"delService", "delPut"} => EntryOf(c.info, c.m) \notin dests
  /\ c.pc = "delService" => ServiceOf(c.info, c.m) \in svcs
  /\ c.pc \in Deleting /\ Clean(c) =>
       \A m \in c.info.targets : <<m.port, m.proto>> \in c.todo \/ EntryOf(c.info, m) \notin dests
  /\ c.pc = "dbDelete" => c.todo = {} /\ (Clean(c) => c.ip \notin addrs)

LocalsTrue ==
  /\ \A e \in dests : e[1] \in svcs
  /\ \A w \in Workers :
       /\ call[w].pc # "idle" => up
       /\ RecordKnown(call[w])
       /\ KernelKnown(call[w])

(* A record is without its alias only while Delete is about to remove it,  *)
(* so no other load balancer is given its address.                         *)
Aliases ==
  "kept" \notin flaws =>
    /\ OwnAddress
    /\ \A w \in Workers : call[w].pc \in Storing => \A n \in Stored : db[n].ip # call[w].ip
    /\ up => \A n \in Stored :
               \/ db[n].ip \in addrs
               \/ \E w \in Workers : call[w].n = n /\ call[w].pc = "dbDelete"

(* The addresses of the link itself are left alone.                        *)
BaseKept ==
  /\ BaseAddrs \subseteq addrs
  /\ \A n \in Stored : db[n].ip \notin BaseAddrs
  /\ \A w \in Workers : call[w].pc \notin {"idle", "allocate"} => call[w].ip \notin BaseAddrs

(* The targets of n that the handlers have not touched yet.                *)
Untouched(n, m) ==
  \A w \in Workers :
    call[w].n = n =>
      /\ call[w].pc = "delServices" => <<m.port, m.proto>> \in call[w].todo
      /\ call[w].pc # "dbDelete"
      /\ call[w].pc \in {"delService", "delPut"} => m # call[w].m

Serving ==
  up /\ flaws \subseteq {"leak"} =>
    \A n \in Stored : \A m \in db[n].targets : Untouched(n, m) => EntryOf(db[n], m) \in dests

(* Nothing is in the kernel but what is recorded or about to be.           *)
Bounded ==
  "leak" \notin flaws =>
    /\ \A x \in addrs :
         \/ x \in BaseAddrs
         \/ \E n \in Stored : db[n].ip = x
         \/ \E w \in Workers : call[w].pc = "createPut" /\ call[w].ip = x
    /\ \A e \in dests :
         \/ \E n \in Stored : \E m \in db[n].targets : EntryOf(db[n], m) = e
         \/ \E w \in Workers : call[w].pc = "addPut" /\ EntryOf(call[w].info, call[w].m) = e

LEMMA LocalsAtRest ==
  ASSUME \A w \in Workers : call'[w] = Idle, \A e \in dests' : e[1] \in svcs'
  PROVE  LocalsTrue'
BY DEF LocalsTrue, RecordKnown, KernelKnown, Idle, Storing, Deleting, Adding, Removing

LEMMA LocalsAtWork ==
  ASSUME OneWorker, NEW w \in Workers,
         call'[w].pc # "idle" => up', RecordKnown(call[w])', KernelKnown(call[w])',
         \A e \in dests' : e[1] \in svcs'
  PROVE  LocalsTrue'
BY DEF LocalsTrue, OneWorker

LEMMA IdleAlone ==
  ASSUME OneWorker, TypeInv, NEW w \in Workers, call' = [call EXCEPT ![w] = Idle]
  PROVE  \A v \in Workers : call'[v] = Idle
BY DEF OneWorker, TypeInv

(* A handler that goes on in its phase still knows its record.             *)
LEMMA GotoKnown ==
  ASSUME OneWorker, TypeInv, LocalsTrue, NEW w \in Workers, NEW pc, Goto(w, pc), db' = db,
         \E P \in {Storing, Deleting, Adding, Removing} : call[w].pc \in P /\ pc \in P,
         pc = "delService" => LastOnPort(call[w].info, call[w].m)
  PROVE  /\ up' /\ flaws' = flaws /\ RecordKnown(call[w])'
         /\ call'[w].pc = pc /\ call'[w].n = call[w].n /\ call'[w].ip = call[w].ip
         /\ call'[w].m = call[w].m /\ call'[w].info = call[w].info
         /\ call'[w].todo = call[w].todo /\ call'[w].errs = call[w].errs
<1> DEFINE c == call[w]
<1>1. /\ c \in CallRecord /\ up' = up /\ flaws' = flaws
      /\ call' = [call EXCEPT ![w].pc = pc]
  BY DEF TypeInv, Goto
<1>2. /\ call'[w].pc = pc /\ call'[w].n = c.n /\ call'[w].ip = c.ip
      /\ call'[w].m = c.m /\ call'[w].info = c.info
      /\ call'[w].todo = c.todo /\ call'[w].errs = c.errs
  BY <1>1 DEF CallRecord, TypeInv
<1>3. c.pc # "idle" /\ up /\ RecordKnown(c)
  BY DEF LocalsTrue, Storing, Deleting, Adding, Removing
<1>4. RecordKnown(call[w])'
  BY <1>2, <1>3 DEF RecordKnown, Exists, LastOnPort, Storing, Deleting, Adding, Removing
<1> QED
  BY <1>1, <1>2, <1>3, <1>4

LEMMA LocalsRequest ==
  OneWorker /\ TypeInv /\ LocalsTrue /\ (\E w \in Workers : Request(w)) => LocalsTrue'
<1> SUFFICES ASSUME OneWorker, TypeInv, LocalsTrue, NEW w \in Workers, Request(w)
             PROVE  LocalsTrue'
  OBVIOUS
<1>1. \A e \in dests : e[1] \in svcs
  BY DEF LocalsTrue
<1>2. ASSUME NEW n, NEW err, Refuse(w, n, err)
      PROVE  LocalsTrue'
  BY <1>1, <1>2, IdleAlone, LocalsAtRest DEF Refuse, Return, kernel
<1>3. ASSUME NEW c, Begin(w, c), up, RecordKnown(c), KernelKnown(c)
      PROVE  LocalsTrue'
  <2>1. /\ call'[w] = c /\ up'
        /\ UNCHANGED <<db, addrs, svcs, dests, flaws>>
    BY <1>3 DEF Begin, kernel, TypeInv
  <2>2. RecordKnown(call[w])' /\ KernelKnown(call[w])'
    BY <1>3, <2>1 DEF RecordKnown, KernelKnown, Exists, Clean
  <2> QED
    BY <1>1, <2>1, <2>2, LocalsAtWork
<1>4. ASSUME NEW r \in Requests, CreateGet(w, r[1], r[2])
      PROVE  LocalsTrue'
  <2> DEFINE c == [Idle EXCEPT !.pc = IF r[2] = NoIP THEN "allocate" ELSE "addrList", !.n = r[1], !.ip = r[2]]
  <2>1. c.pc \in {"allocate", "addrList"} /\ c.n = r[1]
    BY DEF Idle
  <2> HIDE DEF c
  <2>2. ~Exists(r[1]) => RecordKnown(c) /\ KernelKnown(c)
    BY <2>1 DEF RecordKnown, KernelKnown, Storing, Deleting, Adding, Removing
  <2> QED
    BY <1>2, <1>3, <1>4, <2>2 DEF CreateGet, Accept, c
<1>5. ASSUME NEW n \in Names, DeleteGet(w, n)
      PROVE  LocalsTrue'
  <2> DEFINE c == [Idle EXCEPT !.pc = "delServices", !.n = n, !.ip = db[n].ip, !.info = db[n],
                               !.todo = {<<m.port, m.proto>> : m \in db[n].targets}]
  <2>1. /\ c.pc = "delServices" /\ c.n = n /\ c.ip = db[n].ip /\ c.info = db[n]
        /\ c.todo = {<<m.port, m.proto>> : m \in db[n].targets}
    BY DEF Idle
  <2> HIDE DEF c
  <2>2. \A m \in c.info.targets : <<m.port, m.proto>> \in c.todo
    BY <2>1
  <2>3. Exists(n) => RecordKnown(c) /\ KernelKnown(c)
    BY <2>1, <2>2 DEF RecordKnown, KernelKnown, Storing, Deleting, Adding, Removing
  <2> QED
    BY <1>2, <1>3, <1>5, <2>3 DEF DeleteGet, Accept, c
<1>6. ASSUME NEW n \in Names, NEW m \in Mapping, AddGet(w, n, m)
      PROVE  LocalsTrue'
  <2> DEFINE c == [Idle EXCEPT !.pc = "isPresent", !.n = n, !.ip = db[n].ip, !.m = m, !.info = db[n]]
  <2>1. c.pc = "isPresent" /\ c.n = n /\ c.ip = db[n].ip /\ c.info = db[n] /\ c.m = m
    BY DEF Idle
  <2> HIDE DEF c
  <2>2. Exists(n) /\ m \notin db[n].targets => RecordKnown(c) /\ KernelKnown(c)
    BY <2>1 DEF RecordKnown, KernelKnown, Storing, Deleting, Adding, Removing
  <2> QED
    BY <1>2, <1>3, <1>6, <2>2 DEF AddGet, Accept, c
<1>7. ASSUME NEW n \in Names, NEW m \in Mapping, DelGet(w, n, m)
      PROVE  LocalsTrue'
  <2> DEFINE c == [Idle EXCEPT !.pc = "delDest", !.n = n, !.ip = db[n].ip, !.m = m, !.info = db[n]]
  <2>1. c.pc = "delDest" /\ c.n = n /\ c.ip = db[n].ip /\ c.info = db[n] /\ c.m = m
    BY DEF Idle
  <2> HIDE DEF c
  <2>2. Exists(n) /\ m \in db[n].targets => RecordKnown(c) /\ KernelKnown(c)
    BY <2>1 DEF RecordKnown, KernelKnown, Storing, Deleting, Adding, Removing
  <2> QED
    BY <1>2, <1>3, <1>7, <2>2 DEF DelGet, Accept, c
<1> QED
  BY <1>4, <1>5, <1>6, <1>7 DEF Request

LEMMA LocalsHandler ==
  OneWorker /\ TypeInv /\ LocalsTrue /\ (\E w \in Workers : Handler(w)) => LocalsTrue'
<1> SUFFICES ASSUME OneWorker, TypeInv, LocalsTrue, NEW w \in Workers, Handler(w)
             PROVE  LocalsTrue'
  OBVIOUS
<1> DEFINE c == call[w]
           Backed == \A e \in dests' : e[1] \in svcs'
<1>1. /\ c \in CallRecord /\ call \in [Workers -> CallRecord] /\ (c.pc # "idle" => up)
      /\ RecordKnown(c) /\ KernelKnown(c) /\ \A e \in dests : e[1] \in svcs
  BY DEF TypeInv, LocalsTrue
<1>2. ASSUME NEW n, NEW errs, Return(w, n, errs), UNCHANGED kernel
      PROVE  LocalsTrue'
  BY <1>1, <1>2, IdleAlone, LocalsAtRest DEF Return, kernel
<1>3. ASSUME NEW n, NEW err, Refuse(w, n, err)
      PROVE  LocalsTrue'
  BY <1>2, <1>3 DEF Refuse
<1>4. ASSUME NEW pc, Goto(w, pc), db' = db, Backed, KernelKnown(call[w])',
             \E P \in {Storing, Deleting, Adding, Removing} : c.pc \in P /\ pc \in P,
             pc = "delService" => LastOnPort(c.info, c.m)
      PROVE  LocalsTrue'
  BY <1>4, GotoKnown, LocalsAtWork
<1>5. ASSUME NEW d, call' = [call EXCEPT ![w] = d], up, up' = up, Backed, RecordKnown(call[w])', KernelKnown(call[w])'
      PROVE  LocalsTrue'
  BY <1>5, LocalsAtWork
<1>6. CASE CreateAllocate(w)
  <2>1. c.pc = "allocate" /\ up /\ ~Exists(c.n)
    BY <1>1, <1>6 DEF CreateAllocate, At, RecordKnown
  <2>2. ASSUME NEW ip \in Allocate(addrs), Begin(w, [c EXCEPT !.pc = "addrList", !.ip = ip])
        PROVE  LocalsTrue'
    <3> DEFINE d == [c EXCEPT !.pc = "addrList", !.ip = ip]
    <3>1. d.pc = "addrList" /\ d.n = c.n
      BY <1>1 DEF CallRecord
    <3>2. call' = [call EXCEPT ![w] = d] /\ UNCHANGED <<db, addrs, svcs, dests, up, flaws>>
      BY <2>2 DEF Begin, kernel
    <3> HIDE DEF d
    <3>3. call'[w] = d
      BY <1>1, <3>2
    <3>4. RecordKnown(call[w])' /\ KernelKnown(call[w])'
      BY <2>1, <3>1, <3>2, <3>3 DEF RecordKnown, KernelKnown, Exists, Storing, Deleting, Adding, Removing
    <3> QED
      BY <1>1, <1>5, <2>1, <3>2, <3>4
  <2> QED
    BY <1>3, <1>6, <2>2 DEF CreateAllocate
<1>7. CASE CreateAddrList(w) \/ CreateAddrAdd(w)
  <2>1. c.pc \in {"addrList", "addrAdd"} /\ (\E P \in {Storing, Deleting, Adding, Removing} : c.pc \in P /\ "addrAdd" \in P /\ "createPut" \in P)
    BY <1>7 DEF CreateAddrList, CreateAddrAdd, At, Storing
  <2>2. ASSUME NEW pc \in {"addrAdd", "createPut"}, Goto(w, pc), UNCHANGED <<db, svcs, dests>>,
               pc = "createPut" => c.ip \in addrs'
        PROVE  LocalsTrue'
    <3>1. KernelKnown(call[w])'
      BY <2>1, <2>2, GotoKnown DEF KernelKnown, Deleting
    <3> QED
      BY <1>1, <1>4, <2>1, <2>2, <3>1
  <2>3. CASE CreateAddrList(w)
    BY <1>3, <2>2, <2>3 DEF CreateAddrList, kernel
  <2>4. CASE CreateAddrAdd(w)
    BY <1>3, <2>2, <2>4 DEF CreateAddrAdd
  <2> QED
    BY <1>7, <2>3, <2>4
<1>8. CASE CreatePut(w) \/ DeleteRecord(w) \/ AddPut(w) \/ DelPut(w)
  BY <1>2, <1>8 DEF CreatePut, DeleteRecord, AddPut, DelPut
<1>9. ASSUME NEW d, call' = [call EXCEPT ![w] = d],
             c.pc = "delServices", d.pc \in Deleting, d.n = c.n, d.ip = c.ip, d.info = c.info,
             UNCHANGED <<db, up, flaws>>, Backed,
             d.errs = {} => c.errs = {},
             \A m \in c.info.targets : <<m.port, m.proto>> \in c.todo =>
                <<m.port, m.proto>> \in d.todo \/ EntryOf(c.info, m) \notin dests',
             dests' \subseteq dests,
             d.pc = "dbDelete" => d.todo = {} /\ c.ip \notin addrs'
      PROVE  LocalsTrue'
  <2>1. call'[w] = d
    BY <1>1, <1>9
  <2>2. RecordKnown(call[w])'
    BY <1>1, <1>9, <2>1 DEF RecordKnown, Exists, Storing, Deleting, Adding, Removing
  <2>3. KernelKnown(call[w])'
    <3>1. Clean(call[w])' => Clean(c)
      BY <1>9, <2>1 DEF Clean
    <3> QED
      BY <1>1, <1>9, <2>1, <3>1 DEF KernelKnown, Deleting
  <2> QED
    BY <1>1, <1>5, <1>9, <2>2, <2>3
<1>10. CASE DeleteService(w)
  <2>1. c.pc = "delServices" /\ c.ip = c.info.ip
    BY <1>1, <1>10 DEF DeleteService, At, RecordKnown, Deleting
  <2>2. PICK pp \in c.todo :
          LET s == toIPVSService(c.ip, pp[1], pp[2]) IN
            /\ svcs' = svcs \ {s}
            /\ dests' = WithoutServices(dests, {s})
            /\ call' = [call EXCEPT ![w].todo = @ \ {pp},
                                    ![w].errs = @ \cup (IF s \in svcs THEN {} ELSE {"NoSuchService"})]
    BY <1>10 DEF DeleteService
  <2> DEFINE s == toIPVSService(c.ip, pp[1], pp[2])
             todo == c.todo \ {pp}
             errs == c.errs \cup (IF s \in svcs THEN {} ELSE {"NoSuchService"})
             d == [[c EXCEPT !.todo = todo] EXCEPT !.errs = errs]
  <2>3. call' = [call EXCEPT ![w] = d]
    BY <1>1, <2>2
  <2>4. errs = {} => c.errs = {}
    OBVIOUS
  <2> HIDE DEF todo, errs
  <2>5. /\ d.pc = c.pc /\ d.n = c.n /\ d.ip = c.ip /\ d.info = c.info
        /\ d.todo = todo /\ d.errs = errs
    BY <1>1 DEF CallRecord
  <2> HIDE DEF d
  <2>6. svcs' = svcs \ {s} /\ dests' = WithoutServices(dests, {s})
    BY <2>2
  <2>7. Backed /\ dests' \subseteq dests
    BY <1>1, <2>6 DEF WithoutServices
  <2>8. ASSUME NEW m \in c.info.targets, <<m.port, m.proto>> \in c.todo, <<m.port, m.proto>> \notin todo
        PROVE  EntryOf(c.info, m) \notin dests'
    <3>1. pp = <<m.port, m.proto>>
      BY <2>8 DEF todo
    <3>2. EntryOf(c.info, m)[1] = s
      BY <2>1, <3>1 DEF EntryOf, ServiceOf
    <3> QED
      BY <2>6, <3>2 DEF WithoutServices
  <2>9. UNCHANGED <<db, up, flaws>>
    BY <1>10 DEF DeleteService
  <2> QED
    BY <1>9, <2>1, <2>3, <2>4, <2>5, <2>7, <2>8, <2>9 DEF Deleting
<1>11. CASE DeleteAddr(w)
  <2> DEFINE errs == c.errs \cup (IF c.ip \in addrs THEN {} ELSE {"NoSuchIP"})
             d == [[c EXCEPT !.pc = "dbDelete"] EXCEPT !.errs = errs]
  <2>1. /\ c.pc = "delServices" /\ c.todo = {} /\ addrs' = addrs \ {c.ip}
        /\ UNCHANGED <<db, svcs, dests, up, flaws>>
    BY <1>11 DEF DeleteAddr, At
  <2>2. call' = [call EXCEPT ![w] = d]
    BY <1>1, <1>11 DEF DeleteAddr
  <2>3. errs = {} => c.errs = {}
    OBVIOUS
  <2> HIDE DEF errs
  <2>4. /\ d.pc = "dbDelete" /\ d.n = c.n /\ d.ip = c.ip /\ d.info = c.info
        /\ d.todo = c.todo /\ d.errs = errs
    BY <1>1 DEF CallRecord
  <2> HIDE DEF d
  <2> QED
    BY <1>1, <1>9, <2>1, <2>2, <2>3, <2>4 DEF Deleting
<1>12. CASE AddIsServicePresent(w) \/ AddNewService(w)
  <2>1. /\ c.pc \in {"isPresent", "newService"}
        /\ \E P \in {Storing, Deleting, Adding, Removing} : c.pc \in P /\ "newService" \in P /\ "newDest" \in P
    BY <1>12 DEF AddIsServicePresent, AddNewService, At, Adding
  <2>2. ASSUME NEW pc \in {"newService", "newDest"}, Goto(w, pc), UNCHANGED <<db, addrs, dests>>, svcs \subseteq svcs'
        PROVE  LocalsTrue'
    <3>1. KernelKnown(call[w])'
      BY <2>1, <2>2, GotoKnown DEF KernelKnown, Deleting
    <3> QED
      BY <1>1, <1>4, <2>1, <2>2, <3>1
  <2>3. CASE AddIsServicePresent(w)
    BY <2>2, <2>3 DEF AddIsServicePresent, kernel
  <2>4. CASE AddNewService(w)
    BY <1>3, <2>2, <2>4 DEF AddNewService
  <2> QED
    BY <1>12, <2>3, <2>4
<1>13. CASE AddNewDestination(w)
  <2> DEFINE e == EntryOf(c.info, c.m)
  <2>1. /\ c.pc = "newDest"
        /\ \E P \in {Storing, Deleting, Adding, Removing} : c.pc \in P /\ "addPut" \in P
    BY <1>13 DEF AddNewDestination, At, Adding
  <2>2. CASE e[1] \in svcs /\ dests' = dests \cup {e} /\ Goto(w, "addPut") /\ UNCHANGED <<db, addrs, svcs>>
    <3>1. KernelKnown(call[w])'
      BY <2>1, <2>2, GotoKnown DEF KernelKnown, Deleting
    <3> QED
      BY <1>1, <1>4, <2>1, <2>2, <3>1
  <2> QED
    BY <1>3, <1>13, <2>2 DEF AddNewDestination
<1>14. CASE DelDestination(w)
  <2> DEFINE e == EntryOf(c.info, c.m)
             pc == IF LastOnPort(c.info, c.m) THEN "delService" ELSE "delPut"
  <2>1. /\ c.pc = "delDest" /\ pc \in {"delService", "delPut"} /\ (pc = "delService" => LastOnPort(c.info, c.m))
        /\ \E P \in {Storing, Deleting, Adding, Removing} : c.pc \in P /\ pc \in P
    BY <1>14 DEF DelDestination, At, Removing
  <2>2. CASE e \in dests /\ dests' = dests \ {e} /\ Goto(w, pc) /\ UNCHANGED <<db, addrs, svcs>>
    <3> HIDE DEF pc
    <3>1. ServiceOf(c.info, c.m) \in svcs
      BY <1>1, <2>2 DEF EntryOf
    <3>2. KernelKnown(call[w])'
      BY <2>1, <2>2, <3>1, GotoKnown DEF KernelKnown, Deleting
    <3> QED
      BY <1>1, <1>4, <2>1, <2>2, <3>2
  <2> QED
    BY <1>3, <1>14, <2>2 DEF DelDestination
<1>15. CASE DelService(w)
  <2> DEFINE s == ServiceOf(c.info, c.m)
  <2>1. /\ c.pc = "delService"
        /\ \E P \in {Storing, Deleting, Adding, Removing} : c.pc \in P /\ "delPut" \in P
    BY <1>15 DEF DelService, At, Removing
  <2>2. CASE /\ svcs' = svcs \ {s} /\ dests' = WithoutServices(dests, {s})
             /\ Goto(w, "delPut") /\ UNCHANGED <<db, addrs>>
    <3>1. EntryOf(c.info, c.m) \notin dests' /\ Backed
      BY <1>1, <2>2 DEF WithoutServices, EntryOf
    <3>2. KernelKnown(call[w])'
      BY <2>1, <2>2, <3>1, GotoKnown DEF KernelKnown, Deleting
    <3> QED
      BY <1>1, <1>4, <2>1, <2>2, <3>1, <3>2
  <2> QED
    BY <1>3, <1>15, <2>2 DEF DelService
<1> QED
  BY <1>6, <1>7, <1>8, <1>10, <1>11, <1>12, <1>13, <1>14, <1>15 DEF Handler

LEMMA LocalsCallFails ==
  OneWorker /\ TypeInv /\ LocalsTrue /\ (\E w \in Workers : CallFails(w)) => LocalsTrue'
<1> SUFFICES ASSUME OneWorker, TypeInv, LocalsTrue, NEW w \in Workers, CallFails(w)
             PROVE  LocalsTrue'
  OBVIOUS
<1> DEFINE c == call[w]
<1>1. /\ c \in CallRecord /\ call \in [Workers -> CallRecord] /\ (c.pc # "idle" => up)
      /\ RecordKnown(c) /\ KernelKnown(c) /\ \A e \in dests : e[1] \in svcs
  BY DEF TypeInv, LocalsTrue
<1>2. UNCHANGED <<db, addrs, svcs, dests, up>> /\ "leak" \in flaws'
  BY DEF CallFails, kernel, Flaws
<1>3. CASE call' = [call EXCEPT ![w] = Idle]
  BY <1>1, <1>2, <1>3, IdleAlone, LocalsAtRest
<1>4. ASSUME NEW d, call' = [call EXCEPT ![w] = d], c.pc # "idle", d.n = c.n, d.ip = c.ip, d.m = c.m, d.info = c.info,
             \/ c.pc = "addrList" /\ d.pc = "addrAdd"
             \/ c.pc = "isPresent" /\ d.pc = "newService"
             \/ c.pc = "delServices" /\ d.pc \in Deleting /\ d.errs # {} /\ (d.pc = "dbDelete" => d.todo = {})
      PROVE  LocalsTrue'
  <2>1. call'[w] = d
    BY <1>1, <1>4
  <2>2. RecordKnown(call[w])'
    BY <1>1, <1>2, <1>4, <2>1 DEF RecordKnown, Exists, Storing, Deleting, Adding, Removing
  <2>3. KernelKnown(call[w])'
    BY <1>2, <1>4, <2>1 DEF KernelKnown, Clean, Deleting
  <2> QED
    BY <1>1, <1>2, <1>4, <2>2, <2>3, LocalsAtWork
<1>5. ASSUME NEW pc, call' = [call EXCEPT ![w].pc = pc],
             \/ c.pc = "addrList" /\ pc = "addrAdd"
             \/ c.pc = "isPresent" /\ pc = "newService"
      PROVE  LocalsTrue'
  <2> DEFINE d == [c EXCEPT !.pc = pc]
  <2>1. d.pc = pc /\ d.n = c.n /\ d.ip = c.ip /\ d.m = c.m /\ d.info = c.info
    BY <1>1 DEF CallRecord
  <2>2. call' = [call EXCEPT ![w] = d]
    BY <1>5
  <2> HIDE DEF d
  <2> QED
    BY <1>4, <1>5, <2>1, <2>2
<1>6. ASSUME c.pc = "delServices", NEW pp \in c.todo,
             call' = [call EXCEPT ![w].todo = @ \ {pp}, ![w].errs = @ \cup {"NoSuchService"}]
      PROVE  LocalsTrue'
  <2> DEFINE errs == c.errs \cup {"NoSuchService"}
             d == [[c EXCEPT !.todo = @ \ {pp}] EXCEPT !.errs = errs]
  <2>1. call' = [call EXCEPT ![w] = d] /\ errs # {}
    BY <1>1, <1>6
  <2> HIDE DEF errs
  <2>2. d.pc = "delServices" /\ d.n = c.n /\ d.ip = c.ip /\ d.m = c.m /\ d.info = c.info /\ d.errs = errs
    BY <1>1, <1>6 DEF CallRecord
  <2> HIDE DEF d
  <2> QED
    BY <1>4, <1>6, <2>1, <2>2 DEF Deleting
<1>7. ASSUME c.pc = "delServices", c.todo = {},
             call' = [call EXCEPT ![w].pc = "dbDelete", ![w].errs = @ \cup {"NoSuchIP"}]
      PROVE  LocalsTrue'
  <2> DEFINE errs == c.errs \cup {"NoSuchIP"}
             d == [[c EXCEPT !.pc = "dbDelete"] EXCEPT !.errs = errs]
  <2>1. call' = [call EXCEPT ![w] = d] /\ errs # {}
    BY <1>1, <1>7
  <2> HIDE DEF errs
  <2>2. /\ d.pc = "dbDelete" /\ d.n = c.n /\ d.ip = c.ip /\ d.m = c.m /\ d.info = c.info
        /\ d.errs = errs /\ d.todo = c.todo
    BY <1>1, <1>7 DEF CallRecord
  <2> HIDE DEF d
  <2> QED
    BY <1>4, <1>7, <2>1, <2>2 DEF Deleting
<1>8. CASE c.pc = "delServices"
  BY <1>6, <1>7, <1>8 DEF CallFails, At
<1>9. CASE c.pc \in {"addrList", "isPresent"}
  BY <1>5, <1>9 DEF CallFails, At
<1>10. CASE c.pc \notin {"delServices", "addrList", "isPresent"}
  BY <1>3, <1>10 DEF CallFails, At
<1> QED
  BY <1>8, <1>9, <1>10

(* While lbmanager is down no handler is under way.                        *)
LEMMA DownAtRest ==
  ASSUME LocalsTrue, ~up, NEW w \in Workers
  PROVE  call[w].pc = "idle"
BY DEF LocalsTrue

LEMMA LocalsStep == OneWorker /\ TypeInv /\ LocalsTrue /\ [Next]_vars => LocalsTrue'
<1> SUFFICES ASSUME OneWorker, TypeInv, LocalsTrue, [Next]_vars
             PROVE  LocalsTrue'
  OBVIOUS
<1>1. \A e \in dests : e[1] \in svcs
  BY DEF LocalsTrue
<1>2. CASE UNCHANGED vars
  <2>1. UNCHANGED <<db, addrs, svcs, dests, up, call, flaws>>
    BY <1>2 DEF vars
  <2> QED
    BY <2>1 DEF LocalsTrue, RecordKnown, KernelKnown, Exists, Clean
<1>3. CASE Crash \/ Reboot
  <2>1. \A w \in Workers : call'[w] = Idle
    BY <1>3 DEF Crash, Reboot, Halt
  <2>2. \A e \in dests' : e[1] \in svcs'
    BY <1>1, <1>3 DEF Crash, Reboot, kernel
  <2> QED
    BY <2>1, <2>2, LocalsAtRest
<1>4. ASSUME ~up, NEW S, NEW E, NEW F, F \subseteq E, Restored(S, E, F)
      PROVE  LocalsTrue'
  <2>1. \A w \in Workers : call'[w].pc = "idle"
    BY <1>4, DownAtRest DEF Restored
  <2>2. \A e \in dests' : e[1] \in svcs'
    BY <1>1, <1>4 DEF Restored
  <2> QED
    BY <2>1, <2>2 DEF LocalsTrue, RecordKnown, KernelKnown, Storing, Deleting, Adding, Removing
<1>5. CASE Restore \/ RestoreMisses \/ RestoreCut
  BY <1>4, <1>5 DEF Restore, RestoreMisses, RestoreCut
<1> QED
  BY <1>2, <1>3, <1>5, LocalsRequest, LocalsHandler, LocalsCallFails DEF Next

LEMMA LocalsStart == Init => LocalsTrue
BY DEF Init, LocalsTrue, RecordKnown, KernelKnown, Idle, Storing, Deleting, Adding, Removing

(* An RPC that is served alone and answers without an error has done all   *)
(* it stands for, in the database and in the kernel, whatever failed in it *)
(* or before it and wherever lbmanager died before: in particular Delete   *)
(* leaves neither the alias nor a destination behind.                      *)
THEOREM SuccessIsDone == OneWorker => (Spec => SuccessMeansDone)
<1>1. ASSUME OneWorker, TypeInv, LocalsTrue, [Next]_vars, NEW w \in Workers, Succeeds(w)
      PROVE  Done(call[w])
  <2> DEFINE c == call[w]
  <2>1. /\ c \in CallRecord /\ call \in [Workers -> CallRecord] /\ RecordKnown(c) /\ KernelKnown(c)
        /\ c.pc # "idle" /\ c.n \in Names /\ c.info \in LBInfo /\ db \in [Names -> LBInfo]
    BY <1>1 DEF TypeInv, TypeOK, LocalsTrue, CallOK, CallRecord, Succeeds, At
  <2>2. up' /\ call'[w].pc = "idle" /\ reply'.code = {}
    BY <1>1 DEF Succeeds
  <2>3. CASE UNCHANGED vars \/ Restore \/ RestoreMisses \/ RestoreCut
    BY <2>1, <2>2, <2>3 DEF vars, Restore, RestoreMisses, RestoreCut, Restored
  <2>4. CASE Crash \/ Reboot
    BY <2>2, <2>4 DEF Crash, Reboot, Halt
  <2>5. ASSUME NEW v \in Workers, Request(v)
        PROVE  FALSE
    BY <1>1, <2>1, <2>5 DEF OneWorker, Request, CreateGet, DeleteGet, AddGet, DelGet, Accept
  <2>6. ASSUME CallFails(w)
        PROVE  Done(c)
    <3>1. CASE c.pc \in {"addrList", "isPresent", "delServices"}
      BY <3>1 DEF Done
    <3> QED
      BY <2>2, <2>6, <3>1 DEF CallFails, At
  <2>7. ASSUME Handler(w)
        PROVE  Done(c)
    <3>1. CASE c.pc \notin {"createPut", "addPut", "delPut", "dbDelete"}
      BY <3>1 DEF Done
    <3>2. ASSUME NEW n, NEW err, Refuse(w, n, err)
          PROVE  FALSE
      BY <2>2, <3>2 DEF Refuse, Return
    <3>3. CASE CreatePut(w)
      <4>1. c.pc = "createPut" /\ c.ip \in addrs'
        BY <2>1, <3>3 DEF CreatePut, At, kernel, KernelKnown
      <4>2. db'[c.n].ip = c.ip
        BY <2>1, <3>3 DEF CreatePut
      <4> QED
        BY <4>1, <4>2 DEF Done
    <3>4. CASE DeleteRecord(w)
      <4>1. c.pc = "dbDelete" /\ reply'.code = c.errs /\ UNCHANGED <<addrs, dests>> /\ db'[c.n] = NoLB
        BY <2>1, <3>4 DEF DeleteRecord, Return, At, kernel
      <4>2. Clean(c)
        BY <2>2, <4>1 DEF Clean
      <4>3. c.ip \notin addrs' /\ \A m \in c.info.targets : EntryOf(c.info, m) \notin dests'
        BY <2>1, <4>1, <4>2 DEF KernelKnown, Deleting
      <4> QED
        BY <4>1, <4>3 DEF Done
    <3>5. CASE AddPut(w)
      <4>1. c.pc = "addPut" /\ EntryOf(c.info, c.m) \in dests'
        BY <2>1, <3>5 DEF AddPut, At, kernel, KernelKnown
      <4>2. c.m \in db'[c.n].targets
        <5>1. db'[c.n] = [c.info EXCEPT !.targets = @ \cup {c.m}]
          BY <2>1, <3>5 DEF AddPut
        <5> QED
          BY <2>1, <5>1 DEF LBInfo
      <4> QED
        BY <4>1, <4>2 DEF Done
    <3>6. CASE DelPut(w)
      <4>1. c.pc = "delPut" /\ EntryOf(c.info, c.m) \notin dests'
        BY <2>1, <3>6 DEF DelPut, At, kernel, KernelKnown
      <4>2. c.m \notin db'[c.n].targets
        <5>1. db'[c.n] = [c.info EXCEPT !.targets = @ \ {c.m}]
          BY <2>1, <3>6 DEF DelPut
        <5> QED
          BY <2>1, <5>1 DEF LBInfo
      <4> QED
        BY <4>1, <4>2 DEF Done
    <3> QED
      BY <2>7, <3>1, <3>3, <3>4, <3>5, <3>6 DEF Handler, At, CreateAllocate, CreateAddrList, CreateAddrAdd,
         DeleteService, DeleteAddr, AddIsServicePresent, AddNewService, AddNewDestination, DelDestination, DelService
  <2> QED
    BY <1>1, <2>3, <2>4, <2>5, <2>6, <2>7 DEF OneWorker, Next
<1>2. OneWorker => (Spec => [](TypeInv /\ LocalsTrue))
  <2>1. ASSUME OneWorker
        PROVE  Spec => [](TypeInv /\ LocalsTrue)
    <3>1. TypeInv /\ LocalsTrue /\ [Next]_vars => TypeInv' /\ LocalsTrue'
      BY <2>1, TypeInductive, LocalsStep
    <3> QED
      BY <3>1, InitTyped, LocalsStart, PTL DEF Spec
  <2> QED
    BY <2>1
<1>3. ASSUME OneWorker
      PROVE  Spec => [][\A w \in Workers : Succeeds(w) => Done(call[w])]_vars
  <2>1. TypeInv /\ LocalsTrue /\ [Next]_vars => [\A w \in Workers : Succeeds(w) => Done(call[w])]_vars
    BY <1>1, <1>3
  <2> QED
    BY <1>2, <1>3, <2>1, PTL DEF Spec
<1> QED
  BY <1>3 DEF SuccessMeansDone

(* Addresses leave the link in Delete only.                                *)
LEMMA AddressLost ==
  ASSUME TypeInv, NEW w \in Workers, Handler(w) \/ CallFails(w)
  PROVE  \/ addrs \subseteq addrs'
         \/ /\ call[w].pc = "delServices" /\ addrs' = addrs \ {call[w].ip}
            /\ call'[w].pc = "dbDelete" /\ call'[w].n = call[w].n
<1>1. CASE DeleteAddr(w)
  <2> DEFINE errs == call[w].errs \cup (IF call[w].ip \in addrs THEN {} ELSE {"NoSuchIP"})
             d == [[call[w] EXCEPT !.pc = "dbDelete"] EXCEPT !.errs = errs]
  <2>1. call[w] \in CallRecord /\ call \in [Workers -> CallRecord]
    BY DEF TypeInv
  <2>2. call' = [call EXCEPT ![w] = d] /\ call[w].pc = "delServices" /\ addrs' = addrs \ {call[w].ip}
    BY <1>1, <2>1 DEF DeleteAddr, At
  <2> HIDE DEF errs
  <2>3. d.pc = "dbDelete" /\ d.n = call[w].n
    BY <2>1 DEF CallRecord
  <2> HIDE DEF d
  <2> QED
    BY <2>1, <2>2, <2>3
<1>2. CASE ~DeleteAddr(w)
  <2>1. addrs \subseteq addrs'
    BY <1>2 DEF Handler, CallFails, kernel, Refuse, Begin, Return, Goto,
                CreateAllocate, CreateAddrList, CreateAddrAdd, CreatePut, DeleteService, DeleteRecord,
                AddIsServicePresent, AddNewService, AddNewDestination, AddPut,
                DelDestination, DelService, DelPut
  <2> QED
    BY <2>1
<1> QED
  BY <1>1, <1>2

(* A record is changed by the step with which its handler is over, and by  *)
(* none of a handler that fails.                                           *)
LEMMA FailureKeeps == \A w \in Workers : CallFails(w) => UNCHANGED <<db, kernel, up>>
BY DEF CallFails

LEMMA HandlerFlaws == \A w \in Workers : Handler(w) => flaws' = flaws
BY DEF Handler, Refuse, Return, Begin, Goto, CreateAllocate, CreateAddrList, CreateAddrAdd, CreatePut,
       DeleteService, DeleteAddr, DeleteRecord, AddIsServicePresent, AddNewService, AddNewDestination, AddPut,
       DelDestination, DelService, DelPut

LEMMA HandlerBusy == \A w \in Workers : Handler(w) \/ CallFails(w) => call[w].pc # "idle"
BY DEF Handler, CallFails, At, CreateAllocate, CreateAddrList, CreateAddrAdd, CreatePut,
       DeleteService, DeleteAddr, DeleteRecord, AddIsServicePresent, AddNewService, AddNewDestination, AddPut,
       DelDestination, DelService, DelPut

(* What a client's request begins: a handler on an address it asked for,   *)
(* on no address yet, or on that of the record.                            *)
LEMMA RequestBegins ==
  ASSUME TypeInv, NEW w \in Workers, Request(w)
  PROVE  /\ UNCHANGED <<db, addrs, svcs, dests, up, flaws>> /\ up /\ call[w].pc = "idle"
         /\ \E d : /\ call' = [call EXCEPT ![w] = d]
                   /\ \/ d = Idle
                      \/ d.pc = "allocate" /\ d.ip = NoIP
                      \/ /\ d.pc = "addrList" /\ <<d.n, d.ip>> \in Requests /\ d.ip # NoIP
                         /\ ~Exists(d.n) /\ d.n \in Names
                      \/ /\ d.pc \in {"delServices", "isPresent", "delDest"}
                         /\ d.n \in Stored /\ d.ip = db[d.n].ip /\ d.info = db[d.n]
                         /\ d.pc = "delServices" => \A m \in db[d.n].targets : <<m.port, m.proto>> \in d.todo
<1> DEFINE Begun(d) == \/ d = Idle
                       \/ d.pc = "allocate" /\ d.ip = NoIP
                       \/ /\ d.pc = "addrList" /\ <<d.n, d.ip>> \in Requests /\ d.ip # NoIP
                          /\ ~Exists(d.n) /\ d.n \in Names
                       \/ /\ d.pc \in {"delServices", "isPresent", "delDest"}
                          /\ d.n \in Stored /\ d.ip = db[d.n].ip /\ d.info = db[d.n]
                          /\ d.pc = "delServices" => \A m \in db[d.n].targets : <<m.port, m.proto>> \in d.todo
           Goal == /\ UNCHANGED <<db, addrs, svcs, dests, up, flaws>> /\ up /\ call[w].pc = "idle"
                   /\ \E d : call' = [call EXCEPT ![w] = d] /\ Begun(d)
<1>1. ASSUME NEW n, NEW err, up, call[w].pc = "idle", Refuse(w, n, err)
      PROVE  Goal
  <2>1. UNCHANGED <<db, addrs, svcs, dests, up, flaws>> /\ call' = [call EXCEPT ![w] = Idle]
    BY <1>1 DEF Refuse, Return, kernel
  <2>2. Begun(Idle)
    OBVIOUS
  <2> HIDE DEF Begun
  <2> QED
    BY <1>1, <2>1, <2>2
<1>2. ASSUME NEW n, NEW d, Accept(w, n), Begin(w, d), Begun(d)
      PROVE  Goal
  <2> HIDE DEF Begun
  <2> QED
    BY <1>2 DEF Accept, Begin, kernel
<1>3. ASSUME NEW r \in Requests, CreateGet(w, r[1], r[2])
      PROVE  Goal
  <2> DEFINE d == [Idle EXCEPT !.pc = IF r[2] = NoIP THEN "allocate" ELSE "addrList", !.n = r[1], !.ip = r[2]]
  <2>1. r = <<r[1], r[2]>> /\ r[1] \in Names
    BY ConfigAssumption
  <2>2. d.n = r[1] /\ d.ip = r[2] /\ d.pc = IF r[2] = NoIP THEN "allocate" ELSE "addrList"
    BY DEF Idle
  <2> HIDE DEF d
  <2>3. CASE ~Exists(r[1]) /\ Begin(w, d)
    <3>1. Accept(w, r[1])
      BY <1>3 DEF CreateGet
    <3>2. Begun(d)
      BY <2>1, <2>2, <2>3
    <3> HIDE DEF Begun, Goal
    <3> QED
      BY <1>2, <2>3, <3>1, <3>2
  <2> HIDE DEF Begun, Goal
  <2> QED
    BY <1>1, <1>3, <2>3 DEF CreateGet, Accept, d
<1>4. ASSUME NEW n \in Names, DeleteGet(w, n)
      PROVE  Goal
  <2> DEFINE d == [Idle EXCEPT !.pc = "delServices", !.n = n, !.ip = db[n].ip, !.info = db[n],
                               !.todo = {<<m.port, m.proto>> : m \in db[n].targets}]
  <2>1. /\ d.n = n /\ d.ip = db[n].ip /\ d.pc = "delServices" /\ d.info = db[n]
        /\ d.todo = {<<m.port, m.proto>> : m \in db[n].targets}
    BY DEF Idle
  <2> HIDE DEF d
  <2>2. CASE Exists(n) /\ Begin(w, d)
    <3>1. Accept(w, n)
      BY <1>4 DEF DeleteGet
    <3>2. Begun(d)
      BY <2>1, <2>2 DEF Stored
    <3> HIDE DEF Begun, Goal
    <3> QED
      BY <1>2, <2>2, <3>1, <3>2
  <2> HIDE DEF Begun, Goal
  <2> QED
    BY <1>1, <1>4, <2>2 DEF DeleteGet, Accept, d
<1>5. ASSUME NEW n \in Names, NEW m \in Mapping, AddGet(w, n, m)
      PROVE  Goal
  <2> DEFINE d == [Idle EXCEPT !.pc = "isPresent", !.n = n, !.ip = db[n].ip, !.m = m, !.info = db[n]]
  <2>1. d.n = n /\ d.ip = db[n].ip /\ d.pc = "isPresent" /\ d.info = db[n]
    BY DEF Idle
  <2> HIDE DEF d
  <2>2. CASE Exists(n) /\ Begin(w, d)
    <3>1. Accept(w, n)
      BY <1>5 DEF AddGet
    <3>2. Begun(d)
      BY <2>1, <2>2 DEF Stored
    <3> HIDE DEF Begun, Goal
    <3> QED
      BY <1>2, <2>2, <3>1, <3>2
  <2> HIDE DEF Begun, Goal
  <2> QED
    BY <1>1, <1>5, <2>2 DEF AddGet, Accept, d
<1>6. ASSUME NEW n \in Names, NEW m \in Mapping, DelGet(w, n, m)
      PROVE  Goal
  <2> DEFINE d == [Idle EXCEPT !.pc = "delDest", !.n = n, !.ip = db[n].ip, !.m = m, !.info = db[n]]
  <2>1. d.n = n /\ d.ip = db[n].ip /\ d.pc = "delDest" /\ d.info = db[n]
    BY DEF Idle
  <2> HIDE DEF d
  <2>2. CASE Exists(n) /\ Begin(w, d)
    <3>1. Accept(w, n)
      BY <1>6 DEF DelGet
    <3>2. Begun(d)
      BY <2>1, <2>2 DEF Stored
    <3> HIDE DEF Begun, Goal
    <3> QED
      BY <1>2, <2>2, <3>1, <3>2
  <2> HIDE DEF Begun, Goal
  <2> QED
    BY <1>1, <1>6, <2>2 DEF DelGet, Accept, d
<1> QED
  BY <1>3, <1>4, <1>5, <1>6 DEF Request

LEMMA BaseStep ==
  ExclusiveRequests /\ TypeInv /\ Origin /\ BaseKept /\ [Next]_vars => BaseKept'
<1> SUFFICES ASSUME ExclusiveRequests, TypeInv, Origin, BaseKept, [Next]_vars
             PROVE  BaseKept'
  OBVIOUS
<1> DEFINE Off(c) == c.pc \notin {"idle", "allocate"} => c.ip \notin BaseAddrs
<1>1. /\ BaseAddrs \subseteq addrs /\ (\A n \in Stored : db[n].ip \notin BaseAddrs) /\ \A w \in Workers : Off(call[w])
      /\ call \in [Workers -> CallRecord]
  BY DEF BaseKept, TypeInv
<1>2. Off(Idle)
  BY DEF Idle
<1>3. ASSUME NEW w \in Workers, NEW d, call' = [call EXCEPT ![w] = d], Off(d),
             BaseAddrs \subseteq addrs', \A n \in Stored' : db'[n].ip \notin BaseAddrs
      PROVE  BaseKept'
  <2>1. \A v \in Workers : Off(call'[v])
    <3> HIDE DEF Off
    <3> QED
      BY <1>1, <1>3
  <2> QED
    BY <1>3, <2>1 DEF BaseKept
<1>4. CASE UNCHANGED vars
  BY <1>4 DEF vars, BaseKept, Stored, Exists
<1>5. ASSUME NEW w \in Workers, Request(w)
      PROVE  BaseKept'
  <2>1. PICK d : /\ call' = [call EXCEPT ![w] = d]
                 /\ \/ d = Idle
                    \/ d.pc = "allocate" /\ d.ip = NoIP
                    \/ d.pc = "addrList" /\ <<d.n, d.ip>> \in Requests /\ d.ip # NoIP
                    \/ d.n \in Stored /\ d.ip = db[d.n].ip
    BY <1>5, RequestBegins
  <2>2. Off(d)
    BY <1>1, <1>2, <2>1 DEF ExclusiveRequests
  <2>3. UNCHANGED <<db, addrs>>
    BY <1>5, RequestBegins
  <2>4. BaseAddrs \subseteq addrs' /\ \A n \in Stored' : db'[n].ip \notin BaseAddrs
    BY <1>1, <2>3 DEF Stored, Exists
  <2> HIDE DEF Off
  <2> QED
    BY <1>3, <2>1, <2>2, <2>4
<1>6. ASSUME NEW w \in Workers, Handler(w) \/ CallFails(w)
      PROVE  BaseKept'
  <2> DEFINE c == call[w]
  <2>1. PICK d : call' = [call EXCEPT ![w] = d] /\ Continues(c, d)
    BY <1>6, HandlerContinues
  <2>2. c.pc # "idle" /\ KeepsTo(c.n, c.ip)
    BY <1>6, HandlerBusy, HandlerKeepsTo
  <2>3. c.ip \notin BaseAddrs
    BY <1>1, <2>2, ConfigAssumption DEF Origin
  <2>4. BaseAddrs \subseteq addrs'
    BY <1>1, <2>2, <2>3 DEF KeepsTo
  <2>5. Off(d)
    BY <1>1, <1>2, <2>1, <2>3 DEF Continues
  <2>6. ASSUME NEW n \in Stored'
        PROVE  db'[n].ip \notin BaseAddrs
    <3>1. n \in Names /\ db'[n].ip # NoIP
      BY DEF Stored, Exists
    <3>2. CASE db'[n] = db[n]
      BY <1>1, <3>1, <3>2 DEF Stored, Exists
    <3>3. CASE c.n = n /\ db'[n].ip = c.ip
      BY <2>3, <3>3
    <3>4. CASE c.n = n /\ db'[n] = NoLB
      BY <3>1, <3>4 DEF NoLB
    <3> QED
      BY <1>6, <2>2, <3>1, <3>2, <3>3, <3>4, HandlerKeepsTo DEF KeepsTo
  <2> HIDE DEF Off
  <2> QED
    BY <1>3, <2>1, <2>4, <2>5, <2>6
<1>7. CASE Crash \/ Reboot
  BY <1>1, <1>2, <1>7 DEF Crash, Reboot, Halt, kernel, BaseKept, Stored, Exists
<1>8. CASE Restore \/ RestoreMisses \/ RestoreCut
  BY <1>1, <1>8 DEF Restore, RestoreMisses, RestoreCut, Restored, BaseKept, Stored, Exists
<1> QED
  BY <1>4, <1>5, <1>6, <1>7, <1>8 DEF Next

LEMMA BaseStart == Init => BaseKept
BY DEF Init, BaseKept, Stored, Exists, NoLB, Idle

(* The address a handler works on is not that of another record.           *)
LEMMA OwnAddressHere ==
  ASSUME OneWorker, TypeInv, Origin, LocalsTrue, Aliases, "kept" \notin flaws,
         NEW w \in Workers, NEW n \in Stored, call[w].pc # "idle", call[w].n # n
  PROVE  db[n].ip # call[w].ip
<1> DEFINE c == call[w]
<1>1. c.pc \in {"allocate"} \cup Storing \cup Deleting \cup Adding \cup Removing
  BY DEF TypeInv, CallRecord, PCs, Storing, Deleting, Adding, Removing
<1>2. CASE c.pc = "allocate"
  BY <1>2 DEF Origin, Stored, Exists
<1>3. CASE c.pc \in Storing
  BY <1>3 DEF Aliases
<1>4. CASE c.pc \in Deleting \cup Adding \cup Removing
  <2>1. c.n \in Stored /\ c.ip = db[c.n].ip
    BY <1>4 DEF LocalsTrue, RecordKnown, TypeInv, CallOK, Stored, Deleting, Adding, Removing
  <2> QED
    BY <2>1 DEF Aliases, OwnAddress
<1> QED
  BY <1>1, <1>2, <1>3, <1>4

LEMMA AliasesHandler ==
  ASSUME OneWorker, TypeInv, Origin, LocalsTrue, Aliases,
         NEW w \in Workers, Handler(w) \/ CallFails(w), "kept" \notin flaws'
  PROVE  Aliases'
<1> DEFINE c == call[w]
<1>1. PICK d : call' = [call EXCEPT ![w] = d] /\ Continues(c, d)
  BY HandlerContinues
<1>2. call'[w] = d
  BY <1>1 DEF TypeInv
<1>3. c.pc # "idle" /\ KeepsTo(c.n, c.ip) /\ up /\ RecordKnown(c) /\ KernelKnown(c) /\ c.n \in Names
  BY HandlerBusy, HandlerKeepsTo DEF LocalsTrue, TypeInv, CallOK
<1>4. "kept" \notin flaws /\ (c.pc = "dbDelete" => db'[c.n] = NoLB)
  <2>1. CASE Handler(w)
    <3>1. flaws' = flaws
      BY <2>1, HandlerFlaws
    <3>2. ASSUME c.pc = "dbDelete"
          PROVE  db'[c.n] = NoLB
      <4>1. DeleteRecord(w)
        BY <2>1, <3>2 DEF Handler, At, CreateAllocate, CreateAddrList, CreateAddrAdd, CreatePut,
           DeleteService, DeleteAddr, AddIsServicePresent, AddNewService, AddNewDestination, AddPut,
           DelDestination, DelService, DelPut
      <4> QED
        BY <1>3, <4>1 DEF DeleteRecord, TypeInv, TypeOK
    <3> QED
      BY <3>1, <3>2
  <2>2. CASE CallFails(w)
    BY <2>2 DEF CallFails, At, Flaws
  <2> QED
    BY <2>1, <2>2
<1>5. /\ OwnAddress
      /\ c.pc \in Storing => \A n \in Stored : db[n].ip # c.ip
      /\ \A n \in Stored : db[n].ip \in addrs \/ (c.n = n /\ c.pc = "dbDelete")
  BY <1>3, <1>4 DEF Aliases, OneWorker
<1>6. \A n \in Names \ {c.n} : db'[n] = db[n] /\ (Exists(n) => db[n].ip # c.ip)
  BY <1>3, <1>4, OwnAddressHere DEF KeepsTo, Stored
(* What can have happened to the record of the handler.                    *)
<1>7. \/ db'[c.n] = db[c.n]
      \/ c.pc = "dbDelete" /\ db'[c.n] = NoLB
      \/ c.pc \in {"createPut", "addPut", "delPut"} /\ db'[c.n].ip = c.ip /\ d = Idle
  <2>1. d = Idle \/ db' = db
    <3>1. CASE call' = [call EXCEPT ![w] = Idle]
      BY <1>2, <3>1 DEF TypeInv
    <3> QED
      BY <3>1, HandlerKeepsTo
  <2> QED
    BY <2>1, HandlerKeepsTo
<1>8. c.pc \in {"addPut", "delPut"} => Exists(c.n) /\ c.ip = db[c.n].ip
  BY <1>3 DEF RecordKnown, Adding, Removing
<1>9. OwnAddress'
  <2> SUFFICES ASSUME NEW n \in Names, NEW k \in Names, n # k, db'[n].ip # NoIP, db'[k].ip # NoIP
               PROVE  db'[n].ip # db'[k].ip
    BY DEF OwnAddress, Stored, Exists
  <2>1. ASSUME NEW i \in Names \ {c.n}, db'[i].ip # NoIP, db'[c.n].ip # NoIP
        PROVE  db'[c.n].ip # db'[i].ip
    <3>1. CASE db'[c.n] = db[c.n]
      BY <1>3, <1>5, <1>6, <2>1, <3>1 DEF OwnAddress, Stored, Exists
    <3>2. CASE db'[c.n].ip = c.ip
      BY <1>6, <2>1, <3>2 DEF Exists
    <3> QED
      BY <1>7, <2>1, <3>1, <3>2 DEF NoLB
  <2>2. CASE n # c.n /\ k # c.n
    BY <1>5, <1>6, <2>2 DEF OwnAddress, Stored, Exists
  <2> QED
    BY <2>1, <2>2
<1>10. ASSUME d.pc \in Storing, NEW n \in Names, db'[n].ip # NoIP
       PROVE  db'[n].ip # d.ip
  <2>1. d # Idle
    BY <1>10 DEF Idle, Storing
  <2>2. c.pc \in {"allocate"} \cup Storing
    BY <1>1, <1>10, <2>1 DEF Continues, Storing, Deleting, Adding, Removing
  <2>3. ~Exists(c.n) /\ db'[c.n] = db[c.n]
    BY <1>3, <1>7, <2>1, <2>2 DEF RecordKnown, Storing
  <2>4. n # c.n /\ n \in Stored /\ db'[n] = db[n]
    BY <1>6, <1>10, <2>3 DEF Stored, Exists
  <2>5. CASE c.pc = "allocate"
    BY <1>1, <1>5, <2>1, <2>4, <2>5 DEF Continues, Storing, Deleting, Adding, Removing
  <2>6. CASE c.pc \in Storing
    BY <1>1, <1>5, <2>1, <2>4, <2>6 DEF Continues, Storing
  <2> QED
    BY <2>2, <2>4, <2>5, <2>6
<1>11. ASSUME NEW n \in Names, db'[n].ip # NoIP
       PROVE  db'[n].ip \in addrs' \/ (d.n = n /\ d.pc = "dbDelete")
  <2>1. CASE n # c.n
    <3>1. db'[n] = db[n] /\ n \in Stored /\ db[n].ip # c.ip
      BY <1>6, <1>11, <2>1 DEF Stored, Exists
    <3> QED
      BY <1>3, <1>5, <2>1, <3>1 DEF KeepsTo
  <2>2. CASE n = c.n /\ c.pc = "delServices" /\ d.pc = "dbDelete" /\ d.n = c.n
    BY <2>2
  <2>3. CASE n = c.n /\ addrs \subseteq addrs'
    <3>1. c.pc # "dbDelete"
      BY <1>4, <1>11, <2>3 DEF NoLB
    <3>2. db'[n].ip \in addrs
      BY <1>3, <1>5, <1>7, <1>8, <1>11, <2>3, <3>1 DEF KernelKnown, Stored, Exists
    <3> QED
      BY <2>3, <3>2
  <2> QED
    BY <1>2, <2>1, <2>2, <2>3, AddressLost
<1>12. \A v \in Workers : v = w
  BY DEF OneWorker
<1> QED
  BY <1>2, <1>9, <1>10, <1>11, <1>12 DEF Aliases, Stored, Exists

LEMMA AliasesRequest ==
  ASSUME ExclusiveRequests, OneWorker, TypeInv, Origin, Aliases, NEW w \in Workers, Request(w)
  PROVE  Aliases'
<1>1. UNCHANGED <<db, addrs, up, flaws>> /\ call[w].pc = "idle" /\ \A v \in Workers : v = w
  BY RequestBegins DEF OneWorker
<1>2. PICK d : /\ call' = [call EXCEPT ![w] = d]
               /\ \/ d.pc \notin Storing
                  \/ /\ d.pc = "addrList" /\ <<d.n, d.ip>> \in Requests /\ d.ip # NoIP
                     /\ ~Exists(d.n)
  BY RequestBegins DEF Idle, Storing
<1>3. call'[w] = d
  BY <1>2 DEF TypeInv
<1>4. ASSUME d.pc \in Storing, NEW n \in Stored
      PROVE  db[n].ip # d.ip
  <2>1. AddressOf(n, db[n].ip)
    BY DEF Origin
  <2> QED
    BY <1>2, <1>4, <2>1 DEF AddressOf, ExclusiveRequests, Stored
<1>5. OwnAddress' = OwnAddress
  BY <1>1 DEF OwnAddress, Stored, Exists
<1> QED
  BY <1>1, <1>3, <1>4, <1>5 DEF Aliases, Stored, Exists

LEMMA AliasesStep ==
  ExclusiveRequests /\ OneWorker /\ TypeInv /\ Origin /\ LocalsTrue /\ Aliases /\ [Next]_vars => Aliases'
<1> SUFFICES ASSUME ExclusiveRequests, OneWorker, TypeInv, Origin, LocalsTrue, Aliases, [Next]_vars
             PROVE  Aliases'
  OBVIOUS
<1>1. CASE UNCHANGED vars
  BY <1>1 DEF vars, Aliases, OwnAddress, Stored, Exists
<1>2. ASSUME NEW w \in Workers, Handler(w) \/ CallFails(w)
      PROVE  Aliases'
  <2>1. CASE "kept" \in flaws'
    BY <2>1 DEF Aliases
  <2> QED
    BY <1>2, <2>1, AliasesHandler
<1>3. CASE Crash \/ Reboot
  <2>1. up' = FALSE /\ db' = db /\ \A w \in Workers : call'[w].pc \notin Storing
    BY <1>3 DEF Crash, Reboot, Halt, Idle, Storing
  <2>2. "kept" \in flaws => "kept" \in flaws'
    BY <1>3 DEF Crash, Reboot
  <2> QED
    BY <2>1, <2>2 DEF Aliases, OwnAddress, Stored, Exists
<1>4. CASE RestoreCut
  <2>1. up' = FALSE /\ db' = db /\ flaws' = flaws /\ call' = call
    BY <1>4 DEF RestoreCut, Restored
  <2> QED
    BY <2>1 DEF Aliases, OwnAddress, Stored, Exists
<1>5. CASE Restore \/ RestoreMisses
  <2>1. /\ db' = db /\ addrs' = addrs \cup {db[n].ip : n \in Stored} /\ ~up
        /\ \A w \in Workers : call'[w].pc = "idle"
    BY <1>5, DownAtRest DEF Restore, RestoreMisses, Restored
  <2>2. "kept" \notin flaws' => OwnAddress
    BY <1>5 DEF Restore, RestoreMisses, MadeGood, Aliases
  <2> QED
    BY <2>1, <2>2 DEF Aliases, OwnAddress, Stored, Exists, Storing
<1> QED
  BY <1>1, <1>2, <1>3, <1>4, <1>5, AliasesRequest DEF Next

LEMMA AliasesStart == Init => Aliases
BY DEF Init, Aliases, OwnAddress, Stored, Exists, NoLB, Idle, Storing

(* All that is known of handlers that do not overlap, but for the targets. *)
Alone == TypeInv /\ Origin /\ LocalsTrue /\ BaseKept /\ Aliases

LEMMA AloneAlways == ExclusiveRequests /\ OneWorker => (Spec => []Alone)
<1> SUFFICES ASSUME ExclusiveRequests, OneWorker
             PROVE  Spec => []Alone
  OBVIOUS
<1>1. Init => Alone
  BY InitTyped, OriginStart, LocalsStart, BaseStart, AliasesStart DEF Alone
<1>2. Alone /\ [Next]_vars => Alone'
  BY TypeInductive, OriginStep, LocalsStep, BaseStep, AliasesStep DEF Alone
<1> QED
  BY <1>1, <1>2, PTL DEF Spec

(* Of load balancers worked on one RPC at a time, two have the same        *)
(* address only where a Delete took the alias away and could not delete    *)
(* the record, and no start has put the alias back since: whatever else    *)
(* failed, and wherever lbmanager died, the IPAM hands out no address a    *)
(* record has.                                                             *)
THEOREM SharedOnlyThen == ExclusiveRequests /\ OneWorker => (Spec => []SharedAfterFailedDelete)
<1>1. Alone => SharedAfterFailedDelete
  BY DEF Alone, Aliases, SharedAfterFailedDelete
<1> QED
  BY <1>1, AloneAlways, PTL

-----------------------------------------------------------------------------
(* The destinations of handlers that do not overlap *)

LEMMA EntryOfAddress ==
  ASSUME NEW i, NEW k, NEW m, i.ip = k.ip
  PROVE  EntryOf(i, m) = EntryOf(k, m)
BY DEF EntryOf, ServiceOf

LEMMA StoredTyped ==
  ASSUME TypeInv, NEW n \in Stored, NEW m \in db[n].targets
  PROVE  /\ db[n] \in LBInfo /\ m \in Mapping
         /\ EntryOf(db[n], m) \in Service \X Destination
         /\ EntryOf(db[n], m)[1] = ServiceOf(db[n], m)
         /\ EntryOf(db[n], m)[1][1] = db[n].ip
<1>1. db[n] \in LBInfo /\ db[n].ip # NoIP /\ m \in Mapping
  BY DEF TypeInv, TypeOK, Stored, Exists, LBInfo
<1> QED
  BY <1>1, EntryType

(* The load balancers a handler does not work on stay served.              *)
LEMMA ServingOthers ==
  ASSUME OneWorker, Alone, Serving, NEW w \in Workers, Handler(w),
         flaws \subseteq {"leak"}, NEW n \in Stored', n # call[w].n, NEW m \in db'[n].targets
  PROVE  EntryOf(db'[n], m) \in dests'
<1>1. TypeInv /\ Origin /\ LocalsTrue /\ Aliases
  BY DEF Alone
<1>2. call[w].pc # "idle" /\ up /\ KeepsTo(call[w].n, call[w].ip)
  BY <1>1, HandlerBusy, HandlerKeepsTo DEF LocalsTrue
<1>3. n \in Stored /\ db'[n] = db[n] /\ m \in db[n].targets
  BY <1>2 DEF KeepsTo, Stored, Exists
<1>4. db[n].ip # call[w].ip
  BY <1>1, <1>2, <1>3, OwnAddressHere
<1>5. Untouched(n, m)
  BY DEF Untouched, OneWorker
<1>6. EntryOf(db[n], m) \in dests
  BY <1>2, <1>3, <1>5 DEF Serving
<1> QED
  BY <1>1, <1>2, <1>3, <1>4, <1>6, StoredTyped DEF KeepsTo

LEMMA ServingHandler ==
  ASSUME PortsFit, OneWorker, Alone, Serving, NEW w \in Workers, Handler(w)
  PROVE  Serving'
<1> DEFINE c == call[w]
<1>1. TypeInv /\ LocalsTrue /\ flaws' = flaws
  BY HandlerFlaws DEF Alone
<1>2. /\ c.pc # "idle" /\ up /\ RecordKnown(c) /\ KernelKnown(c) /\ c.n \in Names /\ CallOK(c) /\ c \in CallRecord
      /\ call \in [Workers -> CallRecord] /\ db \in [Names -> LBInfo]
  BY <1>1, HandlerBusy DEF LocalsTrue, TypeInv, TypeOK, CallOK
<1> SUFFICES ASSUME flaws \subseteq {"leak"}, NEW n \in Stored', NEW m \in db'[n].targets, Untouched(n, m)'
             PROVE  EntryOf(db'[n], m) \in dests'
  BY <1>1 DEF Serving
<1>3. CASE n # c.n
  BY <1>3, ServingOthers
<1>4. call'[w].n = n => /\ call'[w].pc = "delServices" => <<m.port, m.proto>> \in call'[w].todo
                        /\ call'[w].pc # "dbDelete"
                        /\ call'[w].pc \in {"delService", "delPut"} => m # call'[w].m
  BY DEF Untouched
(* Until now the target was in the kernel, unless the handler took it away. *)
<1>5. ASSUME n = c.n, n \in Stored, m \in db[n].targets,
             c.pc = "delServices" => <<m.port, m.proto>> \in c.todo,
             c.pc # "dbDelete",
             c.pc \in {"delService", "delPut"} => m # c.m
      PROVE  EntryOf(db[n], m) \in dests
  <2>1. Untouched(n, m)
    BY <1>5 DEF Untouched, OneWorker
  <2> QED
    BY <1>2, <1>5, <2>1 DEF Serving
<1>6. CASE n = c.n /\ c.pc \in {"allocate"} \cup Storing
  <2>1. ~Exists(c.n)
    BY <1>2, <1>6 DEF RecordKnown
  <2>2. db' # db
    BY <1>6, <2>1 DEF Stored, Exists
  <2>3. CreatePut(w)
    BY <1>6, <2>2 DEF Handler, At, Refuse, Begin, CreateAllocate, CreateAddrList, CreateAddrAdd,
       DeleteService, DeleteAddr, DeleteRecord, AddIsServicePresent, AddNewService, AddNewDestination, AddPut,
       DelDestination, DelService, DelPut, Storing
  <2>4. db'[n] = [ip |-> c.ip, targets |-> {}]
    BY <1>2, <1>6, <2>3 DEF CreatePut
  <2> QED
    BY <2>4
<1>7. ASSUME n = c.n, c.pc \in Deleting \cup Adding \cup Removing
      PROVE  n \in Stored /\ db[n] = c.info /\ db[n].ip = c.ip
  BY <1>2, <1>7 DEF RecordKnown, Stored
<1>8. ASSUME n = c.n, DeleteService(w)
      PROVE  EntryOf(db'[n], m) \in dests'
  <2>1. c.pc = "delServices" /\ db' = db
    BY <1>8 DEF DeleteService, At
  <2>2. n \in Stored /\ db[n].ip = c.ip /\ m \in db[n].targets
    BY <1>7, <1>8, <2>1 DEF Deleting
  <2>3. PICK pp \in c.todo :
          /\ dests' = WithoutServices(dests, {toIPVSService(c.ip, pp[1], pp[2])})
          /\ \E errs : call' = [call EXCEPT ![w].todo = c.todo \ {pp}, ![w].errs = errs]
    BY <1>2, <1>8 DEF DeleteService
  <2>4. call'[w].pc = c.pc /\ call'[w].n = c.n /\ call'[w].todo = c.todo \ {pp}
    BY <1>2, <2>3 DEF CallRecord
  <2>5. <<m.port, m.proto>> \in c.todo /\ <<m.port, m.proto>> # pp
    BY <1>4, <1>8, <2>1, <2>4
  <2>6. EntryOf(db[n], m) \in dests
    BY <1>5, <1>8, <2>1, <2>2, <2>5
  <2>7. m \in Mapping /\ EntryOf(db[n], m)[1] = toIPVSService(c.ip, m.port, m.proto)
    BY <1>1, <2>2, StoredTyped DEF ServiceOf
  <2>8. toIPVSService(c.ip, m.port, m.proto) # toIPVSService(c.ip, pp[1], pp[2])
    <3>1. pp \in SrcPorts \X Protocols /\ <<m.port, m.proto>> \in SrcPorts \X Protocols
      BY <1>2, <2>5 DEF CallRecord
    <3>2. m.port \in SrcPorts /\ pp[1] \in SrcPorts
      BY <3>1
    <3>3. m.port % PortSpace = m.port /\ pp[1] % PortSpace = pp[1]
      BY <3>2, FittingPort, ConfigAssumption DEF PortsFit
    <3>4. m.port # pp[1] \/ m.proto # pp[2]
      BY <2>5, <3>1
    <3> QED
      BY <3>3, <3>4 DEF toIPVSService
  <2> QED
    BY <2>1, <2>3, <2>6, <2>7, <2>8 DEF WithoutServices
<1>9. ASSUME n = c.n, DeleteAddr(w)
      PROVE  FALSE
  <2>1. call'[w].pc = "dbDelete" /\ call'[w].n = c.n
    <3> DEFINE errs == c.errs \cup (IF c.ip \in addrs THEN {} ELSE {"NoSuchIP"})
    <3>1. call' = [call EXCEPT ![w].pc = "dbDelete", ![w].errs = errs]
      BY <1>2, <1>9 DEF DeleteAddr
    <3> HIDE DEF errs
    <3> QED
      BY <1>2, <3>1 DEF CallRecord
  <2> QED
    BY <1>4, <1>9, <2>1
<1>10. ASSUME n = c.n, DeleteRecord(w)
       PROVE  FALSE
  BY <1>2, <1>10 DEF DeleteRecord, Stored, Exists, NoLB
<1>11. ASSUME n = c.n, AddIsServicePresent(w) \/ AddNewService(w) \/ AddNewDestination(w)
       PROVE  EntryOf(db'[n], m) \in dests'
  <2>1. c.pc \in {"isPresent", "newService", "newDest"} /\ db' = db /\ dests \subseteq dests'
    BY <1>11 DEF AddIsServicePresent, AddNewService, AddNewDestination, At, Refuse, kernel
  <2>2. n \in Stored /\ m \in db[n].targets
    BY <1>7, <1>11, <2>1 DEF Adding
  <2> QED
    BY <1>5, <1>11, <2>1, <2>2
<1>12. ASSUME n = c.n, AddPut(w) \/ DelPut(w)
       PROVE  EntryOf(db'[n], m) \in dests'
  <2>1. c.pc \in {"addPut", "delPut"} /\ dests' = dests
    BY <1>12 DEF AddPut, DelPut, At, kernel
  <2>2. n \in Stored /\ db[n] = c.info
    BY <1>7, <1>12, <2>1 DEF Adding, Removing
  <2>3. c.info \in LBInfo
    BY <1>2 DEF CallRecord
  <2>4. CASE AddPut(w)
    <3>1. db'[n] = [c.info EXCEPT !.targets = @ \cup {c.m}] /\ c.pc = "addPut"
      BY <1>2, <1>12, <2>4 DEF AddPut, At
    <3>2. db'[n].ip = c.info.ip /\ db'[n].targets = c.info.targets \cup {c.m}
      BY <2>3, <3>1 DEF LBInfo
    <3>3. EntryOf(db'[n], m) = EntryOf(c.info, m)
      BY <3>2, EntryOfAddress
    <3>4. CASE m = c.m
      BY <1>2, <2>1, <3>1, <3>3, <3>4 DEF KernelKnown
    <3>5. CASE m \in db[n].targets
      BY <1>5, <1>12, <2>1, <2>2, <3>1, <3>3, <3>5
    <3> QED
      BY <2>2, <3>2, <3>4, <3>5
  <2>5. CASE DelPut(w)
    <3>1. db'[n] = [c.info EXCEPT !.targets = @ \ {c.m}] /\ c.pc = "delPut"
      BY <1>2, <1>12, <2>5 DEF DelPut, At
    <3>2. db'[n].ip = c.info.ip /\ db'[n].targets = c.info.targets \ {c.m}
      BY <2>3, <3>1 DEF LBInfo
    <3>3. EntryOf(db'[n], m) = EntryOf(c.info, m)
      BY <3>2, EntryOfAddress
    <3>4. m \in db[n].targets /\ m # c.m
      BY <2>2, <3>2
    <3> QED
      BY <1>5, <1>12, <2>1, <2>2, <3>1, <3>3, <3>4
  <2> QED
    BY <1>12, <2>4, <2>5
<1>13. ASSUME n = c.n, DelDestination(w)
       PROVE  EntryOf(db'[n], m) \in dests'
  <2> DEFINE e == EntryOf(c.info, c.m)
  <2>1. c.pc = "delDest" /\ db' = db
    BY <1>13 DEF DelDestination, At, Refuse
  <2>2. n \in Stored /\ m \in db[n].targets /\ db[n] = c.info /\ c.m \in db[n].targets
    BY <1>2, <1>7, <1>13, <2>1 DEF Removing, RecordKnown
  <2>3. EntryOf(db[n], m) \in dests
    BY <1>5, <1>13, <2>1, <2>2
  <2>4. CASE dests' = dests
    BY <2>1, <2>3, <2>4
  <2>5. ASSUME NEW pc \in {"delService", "delPut"}, Goto(w, pc), dests' = dests \ {e}
        PROVE  EntryOf(db'[n], m) \in dests'
    <3>1. \E P \in {Storing, Deleting, Adding, Removing} : c.pc \in P /\ pc \in P
      BY <2>1 DEF Removing
    <3>2. call'[w].pc = pc /\ call'[w].n = c.n /\ call'[w].m = c.m
      <4>1. call' = [call EXCEPT ![w].pc = pc]
        BY <2>5 DEF Goto
      <4> QED
        BY <1>2, <4>1 DEF CallRecord
    <3>3. m # c.m
      BY <1>4, <1>13, <3>2
    <3>4. db[n] \in LBInfo /\ m \in Mapping /\ c.m \in Mapping
      BY <1>1, <2>2, StoredTyped
    <3>5. EntryOf(db[n], m) # e
      BY <2>2, <3>3, <3>4, EntryInjective
    <3> QED
      BY <2>1, <2>3, <2>5, <3>5
  <2> QED
    BY <1>13, <2>4, <2>5 DEF DelDestination, Refuse, kernel
<1>14. ASSUME n = c.n, DelService(w)
       PROVE  EntryOf(db'[n], m) \in dests'
  <2> DEFINE s == ServiceOf(c.info, c.m)
  <2>1. c.pc = "delService" /\ s \in svcs
    BY <1>2, <1>14 DEF DelService, At, KernelKnown
  <2>2. db' = db /\ dests' = WithoutServices(dests, {s}) /\ Goto(w, "delPut")
    BY <1>14, <2>1 DEF DelService
  <2>3. n \in Stored /\ m \in db[n].targets /\ db[n] = c.info /\ c.m \in db[n].targets /\ LastOnPort(c.info, c.m)
    BY <1>2, <1>7, <1>14, <2>1, <2>2 DEF Removing, RecordKnown
  <2>4. m # c.m
    <3>1. call' = [call EXCEPT ![w].pc = "delPut"]
      BY <2>2 DEF Goto
    <3>2. call'[w].pc = "delPut" /\ call'[w].n = c.n /\ call'[w].m = c.m
      BY <1>2, <3>1 DEF CallRecord
    <3> QED
      BY <1>4, <1>14, <3>2
  <2>5. EntryOf(db[n], m) \in dests
    BY <1>5, <1>14, <2>1, <2>3, <2>4
  <2>6. m \in Mapping /\ c.m \in Mapping /\ EntryOf(db[n], m)[1] = ServiceOf(db[n], m)
    BY <1>1, <2>3, StoredTyped
  <2>7. m.port # c.m.port
    BY <2>3, <2>4 DEF LastOnPort
  <2>8. ServiceOf(db[n], m) # s
    BY <2>3, <2>6, <2>7, SamePort
  <2> QED
    BY <2>2, <2>5, <2>6, <2>8 DEF WithoutServices
<1>15. c.pc \in {"allocate"} \cup Storing \/ c.pc \in Deleting \cup Adding \cup Removing
  BY <1>2 DEF CallRecord, PCs, Storing, Deleting, Adding, Removing
<1>16. CASE c.pc \in Deleting \cup Adding \cup Removing /\ n = c.n
  <2>1. \/ DeleteService(w) \/ DeleteAddr(w) \/ DeleteRecord(w)
        \/ AddIsServicePresent(w) \/ AddNewService(w) \/ AddNewDestination(w) \/ AddPut(w)
        \/ DelDestination(w) \/ DelService(w) \/ DelPut(w)
    BY <1>16 DEF Handler, At, CreateAllocate, CreateAddrList, CreateAddrAdd, CreatePut, Deleting, Adding, Removing
  <2> QED
    BY <1>8, <1>9, <1>10, <1>11, <1>12, <1>13, <1>14, <1>16, <2>1
<1> QED
  BY <1>3, <1>6, <1>15, <1>16

LEMMA ServingStep ==
  PortsFit /\ OneWorker /\ Alone /\ Serving /\ [Next]_vars => Serving'
<1> SUFFICES ASSUME PortsFit, OneWorker, Alone, Serving, [Next]_vars
             PROVE  Serving'
  OBVIOUS
<1>1. TypeInv /\ LocalsTrue
  BY DEF Alone
<1>2. CASE UNCHANGED vars
  <2>1. UNCHANGED <<db, dests, up, call, flaws>>
    BY <1>2 DEF vars
  <2> QED
    BY <2>1 DEF Serving, Untouched, Stored, Exists
<1>3. ASSUME NEW w \in Workers, Request(w)
      PROVE  Serving'
  <2>1. UNCHANGED <<db, dests, up, flaws>> /\ call[w].pc = "idle"
    BY <1>1, <1>3, RequestBegins
  <2>2. \A n, m : Untouched(n, m)
    BY <2>1 DEF Untouched, OneWorker
  <2> QED
    BY <2>1, <2>2 DEF Serving, Stored, Exists
<1>4. ASSUME NEW w \in Workers, CallFails(w)
      PROVE  Serving'
  <2>1. "miss" \in flaws'
    BY <1>4 DEF CallFails, Flaws
  <2> QED
    BY <2>1 DEF Serving
<1>5. CASE Crash \/ Reboot \/ RestoreCut
  <2>1. ~up'
    BY <1>5 DEF Crash, Reboot, Halt, RestoreCut
  <2> QED
    BY <2>1 DEF Serving
<1>6. CASE Restore
  <2>1. db' = db /\ Recorded(Stored) \subseteq dests'
    BY <1>6 DEF Restore, Restored
  <2>2. \A n \in Stored : \A m \in db[n].targets : EntryOf(db[n], m) \in dests'
    BY <2>1 DEF Recorded
  <2> QED
    BY <2>1, <2>2 DEF Serving, Stored, Exists
<1>7. CASE RestoreMisses
  BY <1>7 DEF RestoreMisses, Serving
<1> QED
  BY <1>2, <1>3, <1>4, <1>5, <1>6, <1>7, ServingHandler DEF Next

(* What a handler leaves in the kernel is recorded, or about to be.        *)
LEMMA BoundedHandler ==
  ASSUME OneWorker, Alone, Bounded, NEW w \in Workers, Handler(w)
  PROVE  Bounded'
<1> DEFINE c == call[w]
           Known(e) == \E n \in Stored : \E m \in db[n].targets : EntryOf(db[n], m) = e
<1>1. TypeInv /\ LocalsTrue /\ Origin /\ flaws' = flaws
  BY HandlerFlaws DEF Alone
<1>2. /\ c.pc # "idle" /\ RecordKnown(c) /\ KernelKnown(c) /\ c.n \in Names /\ c \in CallRecord
      /\ call \in [Workers -> CallRecord] /\ db \in [Names -> LBInfo] /\ c.info \in LBInfo
  BY <1>1, HandlerBusy DEF LocalsTrue, TypeInv, TypeOK, CallOK, CallRecord
<1> SUFFICES ASSUME "leak" \notin flaws
             PROVE  Bounded'
  BY <1>1 DEF Bounded
<1>3. \A x \in addrs : \/ x \in BaseAddrs
                       \/ \E n \in Stored : db[n].ip = x
                       \/ c.pc = "createPut" /\ c.ip = x
  BY DEF Bounded, OneWorker
<1>4. \A e \in dests : Known(e) \/ (c.pc = "addPut" /\ EntryOf(c.info, c.m) = e)
  BY DEF Bounded, OneWorker
<1>5. ASSUME \A x \in addrs' : \/ x \in BaseAddrs
                               \/ \E n \in Names : db'[n].ip = x /\ x # NoIP
                               \/ call'[w].pc = "createPut" /\ call'[w].ip = x,
             \A e \in dests' : \/ \E n \in Names : /\ db'[n].ip # NoIP
                                                   /\ \E m \in db'[n].targets : EntryOf(db'[n], m) = e
                               \/ call'[w].pc = "addPut" /\ EntryOf(call'[w].info, call'[w].m) = e
      PROVE  Bounded'
  BY <1>5 DEF Bounded, Stored, Exists
<1>6. ASSUME UNCHANGED <<db, kernel>>, c.pc # "createPut" \/ (call'[w].pc = "createPut" /\ call'[w].ip = c.ip), c.pc # "addPut"
      PROVE  Bounded'
  <2>1. UNCHANGED <<db, addrs, dests>>
    BY <1>6 DEF kernel
  <2> QED
    BY <1>3, <1>4, <1>5, <1>6, <2>1 DEF Stored, Exists
<1>7. CASE CreateAllocate(w) \/ CreateAddrList(w) \/ AddIsServicePresent(w)
  BY <1>6, <1>7 DEF CreateAllocate, CreateAddrList, AddIsServicePresent, At, Refuse, Return, Begin, Goto
<1>8. CASE CreateAddrAdd(w)
  <2>1. c.pc = "addrAdd"
    BY <1>8 DEF CreateAddrAdd, At
  <2>2. CASE addrs' = addrs \cup {c.ip} /\ Goto(w, "createPut") /\ UNCHANGED <<db, svcs, dests>>
    <3>1. call' = [call EXCEPT ![w].pc = "createPut"]
      BY <2>2 DEF Goto
    <3>2. call'[w].pc = "createPut" /\ call'[w].ip = c.ip
      BY <1>2, <3>1 DEF CallRecord
    <3> QED
      BY <1>3, <1>4, <1>5, <2>1, <2>2, <3>2 DEF Stored, Exists
  <2> QED
    BY <1>6, <1>8, <2>1, <2>2 DEF CreateAddrAdd, Refuse
<1>9. CASE CreatePut(w)
  <2>1. /\ c.pc = "createPut" /\ ~Exists(c.n) /\ UNCHANGED <<addrs, dests>>
        /\ db' = [db EXCEPT ![c.n] = [ip |-> c.ip, targets |-> {}]]
    BY <1>2, <1>9 DEF CreatePut, At, kernel, RecordKnown, Storing
  <2>2. db'[c.n].ip = c.ip /\ c.ip # NoIP
    BY <1>1, <1>2, <2>1, ConfigAssumption DEF TypeInv, CallOK
  <2>3. \A n \in Stored : db'[n] = db[n] /\ n \in Names /\ db[n].ip # NoIP
    BY <1>2, <2>1 DEF Stored, Exists
  <2> QED
    BY <1>2, <1>3, <1>4, <1>5, <2>1, <2>2, <2>3
<1>10. CASE DeleteService(w) \/ DelDestination(w) \/ DelService(w) \/ AddNewService(w)
  <2>1. /\ c.pc \in {"delServices", "delDest", "delService", "newService"}
        /\ db' = db /\ addrs' = addrs /\ dests' \subseteq dests
    BY <1>10 DEF DeleteService, DelDestination, DelService, AddNewService, At, Refuse, kernel, WithoutServices
  <2> QED
    BY <1>3, <1>4, <1>5, <2>1 DEF Stored, Exists
<1>11. CASE DeleteAddr(w)
  <2>1. c.pc = "delServices" /\ db' = db /\ addrs' \subseteq addrs /\ dests' = dests
    BY <1>11 DEF DeleteAddr, At
  <2> QED
    BY <1>3, <1>4, <1>5, <2>1 DEF Stored, Exists
<1>12. CASE DeleteRecord(w)
  <2>1. c.pc = "dbDelete" /\ UNCHANGED <<addrs, dests>> /\ c.info = db[c.n] /\ c.ip = db[c.n].ip
    BY <1>2, <1>12 DEF DeleteRecord, At, kernel, RecordKnown, Deleting
  <2>2. c.ip \notin addrs /\ \A m \in db[c.n].targets : EntryOf(db[c.n], m) \notin dests
    BY <1>2, <2>1 DEF KernelKnown, Clean, Deleting
  <2>3. \A n \in Stored \ {c.n} : db'[n] = db[n] /\ n \in Names /\ db[n].ip # NoIP
    BY <1>2, <1>12 DEF DeleteRecord, Stored, Exists
  <2>4. \A x \in addrs : x \in BaseAddrs \/ \E n \in Stored \ {c.n} : db[n].ip = x
    BY <1>3, <2>1, <2>2
  <2>5. \A e \in dests : \E n \in Stored \ {c.n} : \E m \in db[n].targets : EntryOf(db[n], m) = e
    BY <1>4, <2>1, <2>2
  <2>6. \A x \in addrs : x \in BaseAddrs \/ \E n \in Names : db'[n].ip = x /\ x # NoIP
    BY <2>3, <2>4
  <2>7. \A e \in dests : \E n \in Names : /\ db'[n].ip # NoIP
                                          /\ \E m \in db'[n].targets : EntryOf(db'[n], m) = e
    BY <2>3, <2>5
  <2> QED
    BY <1>5, <2>1, <2>6, <2>7
<1>13. CASE AddNewDestination(w)
  <2>1. c.pc = "newDest"
    BY <1>13 DEF AddNewDestination, At
  <2>2. CASE dests' = dests \cup {EntryOf(c.info, c.m)} /\ Goto(w, "addPut") /\ UNCHANGED <<db, addrs, svcs>>
    <3>1. call' = [call EXCEPT ![w].pc = "addPut"]
      BY <2>2 DEF Goto
    <3>2. call'[w].pc = "addPut" /\ call'[w].info = c.info /\ call'[w].m = c.m
      BY <1>2, <3>1 DEF CallRecord
    <3> QED
      BY <1>3, <1>4, <1>5, <2>1, <2>2, <3>2 DEF Stored, Exists
  <2> QED
    BY <1>6, <1>13, <2>1, <2>2 DEF AddNewDestination, Refuse
<1>14. CASE AddPut(w) \/ DelPut(w)
  <2> DEFINE T == IF AddPut(w) THEN c.info.targets \cup {c.m} ELSE c.info.targets \ {c.m}
  <2>1. /\ c.pc \in {"addPut", "delPut"} /\ UNCHANGED <<addrs, dests>> /\ c.info = db[c.n] /\ Exists(c.n)
        /\ (c.pc = "addPut" <=> AddPut(w))
    BY <1>2, <1>14 DEF AddPut, DelPut, At, kernel, RecordKnown, Adding, Removing
  <2>2. db'[c.n] = [c.info EXCEPT !.targets = T]
    BY <1>2, <1>14 DEF AddPut, DelPut, At
  <2>3. db'[c.n].ip = c.info.ip /\ db'[c.n].targets = T
    BY <1>2, <2>2 DEF LBInfo
  <2>4. \A n \in Names \ {c.n} : db'[n] = db[n]
    BY <1>2, <1>14 DEF AddPut, DelPut
  <2>5. \A n \in Names : db'[n].ip = db[n].ip
    BY <2>1, <2>3, <2>4
  <2>6. \A x \in addrs' : x \in BaseAddrs \/ \E n \in Names : db'[n].ip = x /\ x # NoIP
    BY <1>3, <2>1, <2>5 DEF Stored, Exists
  <2>7. ASSUME NEW e \in dests
        PROVE  \E n \in Names : /\ db'[n].ip # NoIP
                                /\ \E m \in db'[n].targets : EntryOf(db'[n], m) = e
    <3>1. \A m : EntryOf(db'[c.n], m) = EntryOf(c.info, m)
      BY <2>3, EntryOfAddress
    <3>2. db'[c.n].ip # NoIP
      BY <2>1, <2>3 DEF Exists
    <3>3. CASE c.pc = "addPut" /\ EntryOf(c.info, c.m) = e
      <4>1. c.m \in db'[c.n].targets
        BY <2>1, <2>3, <3>3
      <4> QED
        BY <1>2, <3>1, <3>2, <3>3, <4>1
    <3>4. ASSUME NEW n \in Stored, NEW m \in db[n].targets, EntryOf(db[n], m) = e
          PROVE  \E k \in Names : /\ db'[k].ip # NoIP
                                  /\ \E q \in db'[k].targets : EntryOf(db'[k], q) = e
      <4>1. n \in Names /\ db[n].ip # NoIP
        BY DEF Stored, Exists
      <4>2. CASE n # c.n
        BY <2>4, <3>4, <4>1, <4>2
      <4>3. CASE n = c.n
        <5>1. c.pc = "delPut" => m # c.m
          BY <1>2, <2>1, <3>4, <4>3 DEF KernelKnown
        <5>2. m \in db'[c.n].targets
          BY <2>1, <2>3, <4>3, <5>1
        <5> QED
          BY <1>2, <2>1, <3>1, <3>2, <3>4, <4>3, <5>2
      <4> QED
        BY <4>2, <4>3
    <3> QED
      BY <1>4, <3>3, <3>4
  <2> QED
    BY <1>5, <2>1, <2>6, <2>7
<1> QED
  BY <1>7, <1>8, <1>9, <1>10, <1>11, <1>12, <1>13, <1>14 DEF Handler

LEMMA BoundedStep == OneWorker /\ Alone /\ Bounded /\ [Next]_vars => Bounded'
<1> SUFFICES ASSUME OneWorker, Alone, Bounded, [Next]_vars
             PROVE  Bounded'
  OBVIOUS
<1>1. TypeInv /\ LocalsTrue
  BY DEF Alone
<1>2. CASE UNCHANGED vars
  <2>1. UNCHANGED <<db, addrs, dests, call, flaws>>
    BY <1>2 DEF vars
  <2> QED
    BY <2>1 DEF Bounded, Stored, Exists
<1>3. ASSUME NEW w \in Workers, Request(w)
      PROVE  Bounded'
  <2>1. UNCHANGED <<db, addrs, dests, flaws>> /\ \A v \in Workers : call[v].pc = "idle"
    BY <1>1, <1>3, RequestBegins DEF OneWorker
  <2> QED
    BY <2>1 DEF Bounded, Stored, Exists
<1>4. CASE (\E w \in Workers : CallFails(w)) \/ RestoreMisses
  BY <1>4 DEF CallFails, RestoreMisses, Bounded, Flaws
<1>5. CASE Crash
  <2>1. UNCHANGED <<db, addrs, dests>> /\ ("leak" \notin flaws' => Quiet /\ "leak" \notin flaws)
    BY <1>5 DEF Crash, Halt, kernel
  <2> QED
    BY <2>1 DEF Bounded, Quiet, Stored, Exists
<1>6. CASE Reboot
  BY <1>6 DEF Reboot, Bounded
<1>7. ASSUME ~up, "leak" \in flaws => "leak" \in flaws', NEW S \in SUBSET Stored, NEW E, NEW F \in SUBSET Recorded(Stored),
             Restored(S, E, F)
      PROVE  Bounded'
  <2>1. db' = db /\ addrs' = addrs \cup {db[n].ip : n \in S} /\ dests' = dests \cup F
    BY <1>7 DEF Restored
  <2>2. \A w \in Workers : call[w].pc = "idle"
    BY <1>1, <1>7, DownAtRest
  <2>3. \A e \in F : \E n \in Stored : \E m \in db[n].targets : EntryOf(db[n], m) = e
    BY DEF Recorded
  <2> QED
    BY <1>7, <2>1, <2>2, <2>3 DEF Bounded, Stored, Exists
<1>8. CASE Restore
  <2>1. "leak" \in flaws => "leak" \in flaws'
    BY <1>8 DEF Restore, MadeGood
  <2> QED
    BY <1>7, <1>8, <2>1 DEF Restore
<1>9. CASE RestoreCut
  <2>1. PICK S \in SUBSET Stored, E \in SUBSET Recorded(Stored) :
          ~up /\ (\E F \in SUBSET E : Restored(S, E, F)) /\ flaws' = flaws
    BY <1>9 DEF RestoreCut, Recorded
  <2> QED
    BY <1>7, <2>1
<1> QED
  BY <1>2, <1>3, <1>4, <1>5, <1>6, <1>8, <1>9, BoundedHandler DEF Next

LEMMA ServingStart == Init => Serving /\ Bounded
BY DEF Init, Serving, Bounded

(* Load balancers worked on one RPC at a time are served whenever no RPC   *)
(* is under way: each record has its alias and all its destinations in the *)
(* kernel, wherever lbmanager died before, unless a call failed since the  *)
(* last start in which none did.                                           *)
THEOREM ServedWhenDone ==
  ExclusiveRequests /\ PortsFit /\ OneWorker => (Spec => []ServedWhenQuiet)
<1> SUFFICES ASSUME ExclusiveRequests, PortsFit, OneWorker
             PROVE  Spec => []ServedWhenQuiet
  OBVIOUS
<1>1. Alone /\ Serving => ServedWhenQuiet
  <2> SUFFICES ASSUME Aliases, Serving, up, Quiet, flaws \subseteq {"leak"}, NEW n \in Stored
               PROVE  Served(n)
    BY DEF Alone, ServedWhenQuiet
  <2>1. \A m : Untouched(n, m)
    BY DEF Untouched, Quiet
  <2>2. db[n].ip \in addrs
    BY DEF Aliases, Quiet
  <2> QED
    BY <2>1, <2>2 DEF Serving, Served
<1>2. Alone /\ Serving /\ [Next]_vars => Serving'
  BY ServingStep
<1> QED
  BY <1>1, <1>2, AloneAlways, ServingStart, PTL DEF Spec

(* After a reboot, and until a handler is cut short or a call fails, the   *)
(* link holds its own addresses and one alias per load balancer, and the   *)
(* IPVS table the recorded destinations and no others, whenever no RPC is  *)
(* under way.                                                              *)
THEOREM ExactWhenDone ==
  ExclusiveRequests /\ PortsFit /\ OneWorker => (Spec => []ExactAfterReboot)
<1> SUFFICES ASSUME ExclusiveRequests, PortsFit, OneWorker
             PROVE  Spec => []ExactAfterReboot
  OBVIOUS
<1>1. Alone /\ Serving /\ Bounded => ExactAfterReboot
  <2> SUFFICES ASSUME Aliases, BaseKept, Serving, Bounded, flaws = {}, up, Quiet
               PROVE  /\ addrs = BaseAddrs \cup {db[n].ip : n \in Stored}
                      /\ dests = Recorded(Stored)
    BY DEF Alone, ExactAfterReboot
  <2>1. \A n, m : Untouched(n, m)
    BY DEF Untouched, Quiet
  <2>2. \A n \in Stored : db[n].ip \in addrs
    BY DEF Aliases, Quiet
  <2>3. \A x \in addrs : x \in BaseAddrs \/ \E n \in Stored : db[n].ip = x
    BY DEF Bounded, Quiet
  <2>4. addrs = BaseAddrs \cup {db[n].ip : n \in Stored}
    BY <2>2, <2>3 DEF BaseKept
  <2>5. \A n \in Stored : \A m \in db[n].targets : EntryOf(db[n], m) \in dests
    BY <2>1 DEF Serving
  <2>6. \A e \in dests : \E n \in Stored : \E m \in db[n].targets : EntryOf(db[n], m) = e
    BY DEF Bounded, Quiet
  <2>7. \A e : e \in Recorded(Stored) <=> \E n \in Stored : \E m \in db[n].targets : EntryOf(db[n], m) = e
    BY DEF Recorded
  <2>8. \A e : e \in dests <=> e \in Recorded(Stored)
    BY <2>5, <2>6, <2>7
  <2> QED
    BY <2>4, <2>8
<1>2. Alone /\ Serving /\ Bounded /\ [Next]_vars => Serving' /\ Bounded'
  BY ServingStep, BoundedStep
<1> QED
  BY <1>1, <1>2, AloneAlways, ServingStart, PTL DEF Spec

-----------------------------------------------------------------------------
(* Overlapping handlers take effect one after the other *)

(* What is remembered of the kernel is on the handler's address; lbmanager *)
(* is up while a handler is under way; destinations have services.         *)
Slice == [addrs : SUBSET Nat, svcs : SUBSET Service, dests : SUBSET (Service \X Destination)]

Slices ==
  /\ before \in [Workers -> Slice]
  /\ \A w \in Workers :
       /\ call[w].pc # "idle" => up
       /\ \A x \in before[w].addrs : x = call[w].ip
       /\ \A s \in before[w].svcs : s[1] = call[w].ip
       /\ \A e \in before[w].dests : e[1][1] = call[w].ip
       /\ call[w].pc \in {"idle", "allocate"} => before[w] = NoSlice
       /\ call[w].pc = "idle" => call[w].ip = NoIP
  /\ \A e \in dests : e[1] \in svcs

(* The services a Delete has been through, and what it then reports.       *)
PortsOf(info) == {<<m.port, m.proto>> : m \in info.targets}
ServiceAt(c, pp) == toIPVSService(c.ip, pp[1], pp[2])
Passed(c) == PortsOf(c.info) \ c.todo
Gone(c) == {ServiceAt(c, pp) : pp \in Passed(c)}
ServiceMissed(c, svcsBefore) ==
  \E pp \in Passed(c) :
    \/ ServiceAt(c, pp) \notin svcsBefore
    \/ \E qq \in Passed(c) : qq # pp /\ ServiceAt(c, qq) = ServiceAt(c, pp)

(* How far the handler c has come: the kernel objects on its address were  *)
(* b when it began and are a now.                                          *)
CreateProgress(c, a, b) ==
  /\ c.pc \in {"addrList", "addrAdd"} => a = b
  /\ c.pc = "addrAdd" => c.ip \notin b.addrs
  /\ c.pc = "createPut" => a.addrs = {c.ip} /\ a.svcs = b.svcs /\ a.dests = b.dests

DeleteProgress(c, a, b) ==
  c.pc \in Deleting =>
    /\ c.todo \subseteq PortsOf(c.info)
    /\ a.svcs = b.svcs \ Gone(c)
    /\ a.dests = WithoutServices(b.dests, Gone(c))
    /\ c.errs \subseteq {"NoSuchService", "NoSuchIP"}
    /\ "NoSuchService" \in c.errs <=> ServiceMissed(c, b.svcs)
    /\ c.pc = "delServices" => a.addrs = b.addrs /\ "NoSuchIP" \notin c.errs
    /\ c.pc = "dbDelete" =>
         a.addrs = {} /\ c.todo = {} /\ ("NoSuchIP" \in c.errs <=> c.ip \notin b.addrs)

AddProgress(c, a, b) ==
  LET s == ServiceOf(c.info, c.m)
      e == EntryOf(c.info, c.m)
  IN
  /\ c.pc \in {"isPresent", "newService"} => a = b
  /\ c.pc = "newService" => s \notin b.svcs
  /\ c.pc \in {"newDest", "addPut"} => a.addrs = b.addrs /\ a.svcs = b.svcs \cup {s}
  /\ c.pc = "newDest" => a.dests = b.dests
  /\ c.pc = "addPut" => a.dests = b.dests \cup {e} /\ e \notin b.dests

DelProgress(c, a, b) ==
  LET s == ServiceOf(c.info, c.m)
      e == EntryOf(c.info, c.m)
  IN
  /\ c.pc = "delDest" => a = b
  /\ c.pc \in {"delService", "delPut"} => a.addrs = b.addrs /\ e \in b.dests
  /\ c.pc = "delService" =>
       LastOnPort(c.info, c.m) /\ s \in b.svcs /\ a.svcs = b.svcs /\ a.dests = b.dests \ {e}
  /\ c.pc = "delPut" =>
       IF LastOnPort(c.info, c.m)
         THEN a.svcs = b.svcs \ {s} /\ a.dests = WithoutServices(b.dests, {s})
         ELSE a.svcs = b.svcs /\ a.dests = b.dests \ {e}

Progress(c, a, b) ==
  CreateProgress(c, a, b) /\ DeleteProgress(c, a, b) /\ AddProgress(c, a, b) /\ DelProgress(c, a, b)

(* Handlers are on different load balancers, and each sees its own address *)
(* only: an address the IPAM gave stays the one the IPAM would give now.   *)
Separate ==
  /\ \A v, w \in Workers :
       v # w /\ call[v].pc # "idle" /\ call[w].pc # "idle" => call[v].n # call[w].n
  /\ \A w \in Workers :
       /\ RecordKnown(call[w])
       /\ call[w].pc \notin {"idle", "allocate"} => Progress(call[w], OnAddress(call[w].ip), before[w])
       /\ call[w].pc \in Storing /\ call[w].ip \in DynRange => call[w].ip \in Allocate(SeenAddrs)

Apart == apart => Separate

(* Without an address there is nothing to remember.                        *)
LEMMA OnNoAddress == TypeOK => OnAddress(NoIP) = NoSlice
BY ConfigAssumption DEF TypeOK, OnAddress, NoSlice, Service

(* What is seen, object by object.                                         *)
LEMMA SeenIs ==
  /\ \A x : x \in SeenAddrs <=>
       \/ x \in addrs /\ \A w \in Workers : call[w].ip # x
       \/ \E w \in Workers : x \in before[w].addrs
  /\ \A s : s \in SeenSvcs <=>
       \/ s \in svcs /\ \A w \in Workers : call[w].ip # s[1]
       \/ \E w \in Workers : s \in before[w].svcs
  /\ \A e : e \in SeenDests <=>
       \/ e \in dests /\ \A w \in Workers : call[w].ip # e[1][1]
       \/ \E w \in Workers : e \in before[w].dests
<1>1. \A y : y \in BusyAddrs <=> \E w \in Workers : call[w].ip = y
  BY DEF BusyAddrs
<1> QED
  BY <1>1 DEF SeenAddrs, SeenSvcs, SeenDests

LEMMA SeenIsNext ==
  /\ \A x : x \in SeenAddrs' <=>
       \/ x \in addrs' /\ \A w \in Workers : call'[w].ip # x
       \/ \E w \in Workers : x \in before'[w].addrs
  /\ \A s : s \in SeenSvcs' <=>
       \/ s \in svcs' /\ \A w \in Workers : call'[w].ip # s[1]
       \/ \E w \in Workers : s \in before'[w].svcs
  /\ \A e : e \in SeenDests' <=>
       \/ e \in dests' /\ \A w \in Workers : call'[w].ip # e[1][1]
       \/ \E w \in Workers : e \in before'[w].dests
<1>1. \A y : y \in BusyAddrs' <=> \E w \in Workers : call'[w].ip = y
  BY DEF BusyAddrs
<1> QED
  BY <1>1 DEF SeenAddrs, SeenSvcs, SeenDests

LEMMA SameSeen ==
  ASSUME \A x : x \in SeenAddrs' <=> x \in SeenAddrs,
         \A s : s \in SeenSvcs' <=> s \in SeenSvcs,
         \A e : e \in SeenDests' <=> e \in SeenDests
  PROVE  UNCHANGED <<SeenAddrs, SeenSvcs, SeenDests>>
OBVIOUS

(* A handler that goes on works on its own address, where nothing of what  *)
(* it does is seen.                                                        *)
LEMMA SeenGoesOn ==
  ASSUME TypeInv, TypeInv', NEW w \in Workers, NEW n, KeepsTo(n, call[w].ip),
         \A v \in Workers : call'[v].ip = call[v].ip, before' = before
  PROVE  UNCHANGED <<SeenAddrs, SeenSvcs, SeenDests>>
<1>1. /\ svcs \subseteq Service /\ svcs' \subseteq Service
      /\ dests \subseteq Service \X Destination /\ dests' \subseteq Service \X Destination
  BY DEF TypeInv, TypeOK
<1>2. /\ \A x : x # call[w].ip => (x \in addrs' <=> x \in addrs)
      /\ \A s : s[1] # call[w].ip => (s \in svcs' <=> s \in svcs)
      /\ \A e : e[1][1] # call[w].ip => (e \in dests' <=> e \in dests)
  BY <1>1 DEF KeepsTo
<1>3. \A x : x \in SeenAddrs' <=> x \in SeenAddrs
  BY <1>2, SeenIs, SeenIsNext
<1>4. \A s : s \in SeenSvcs' <=> s \in SeenSvcs
  BY <1>2, SeenIs, SeenIsNext
<1>5. \A e : e \in SeenDests' <=> e \in SeenDests
  BY <1>2, SeenIs, SeenIsNext
<1> QED
  BY <1>3, <1>4, <1>5, SameSeen

(* A handler begins with the objects on its address as they are, or is     *)
(* refused before it has an address.                                       *)
LEMMA SeenBegins ==
  ASSUME TypeInv, Slices, NEW w \in Workers,
         call[w].pc \in {"idle", "allocate"}, call[w].ip = NoIP,
         call'[w].ip = NoIP \/ \A v \in Workers \ {w} : call[v].ip # call'[w].ip,
         before'[w] = OnAddress(call'[w].ip),
         \A v \in Workers \ {w} : call'[v] = call[v] /\ before'[v] = before[v],
         UNCHANGED <<addrs, svcs, dests>>
  PROVE  UNCHANGED <<SeenAddrs, SeenSvcs, SeenDests>>
<1>1. before[w] = NoSlice
  BY DEF Slices
<1>2. /\ OnAddress(NoIP) = NoSlice
      /\ NoIP \notin addrs /\ (\A s \in svcs : s[1] # NoIP) /\ (\A e \in dests : e[1][1] # NoIP)
  BY OnNoAddress, ConfigAssumption DEF TypeInv, TypeOK, Service
<1>3. \A x : x \in SeenAddrs' <=> x \in SeenAddrs
  BY <1>1, <1>2, SeenIs, SeenIsNext DEF OnAddress, NoSlice
<1>4. \A s : s \in SeenSvcs' <=> s \in SeenSvcs
  BY <1>1, <1>2, SeenIs, SeenIsNext DEF OnAddress, NoSlice
<1>5. \A e : e \in SeenDests' <=> e \in SeenDests
  BY <1>1, <1>2, SeenIs, SeenIsNext DEF OnAddress, NoSlice
<1> QED
  BY <1>3, <1>4, <1>5, SameSeen

(* When a handler that has its address for itself answers, what it did     *)
(* there is seen at once.                                                  *)
LEMMA SeenEnds ==
  ASSUME TypeInv, TypeInv', Slices, NEW w \in Workers, call[w].ip # NoIP,
         \A v \in Workers \ {w} : call[v].ip # call[w].ip,
         call' = [call EXCEPT ![w] = Idle], before' = [before EXCEPT ![w] = NoSlice],
         UNCHANGED kernel
  PROVE  /\ \A x : x \in SeenAddrs' <=> IF x = call[w].ip THEN x \in addrs ELSE x \in SeenAddrs
         /\ \A s : s \in SeenSvcs' <=> IF s[1] = call[w].ip THEN s \in svcs ELSE s \in SeenSvcs
         /\ \A e : e \in SeenDests' <=> IF e[1][1] = call[w].ip THEN e \in dests ELSE e \in SeenDests
         /\ \A x : x = call[w].ip => (x \in SeenAddrs <=> x \in before[w].addrs)
         /\ \A s : s[1] = call[w].ip => (s \in SeenSvcs <=> s \in before[w].svcs)
         /\ \A e : e[1][1] = call[w].ip => (e \in SeenDests <=> e \in before[w].dests)
<1>1. /\ UNCHANGED <<addrs, svcs, dests>>
      /\ call'[w].ip = NoIP /\ \A v \in Workers \ {w} : call'[v] = call[v]
      /\ before'[w] = NoSlice /\ \A v \in Workers \ {w} : before'[v] = before[v]
  BY DEF Slices, TypeInv, kernel, Idle
<1>2. NoIP \notin addrs /\ (\A s \in svcs : s[1] # NoIP) /\ (\A e \in dests : e[1][1] # NoIP)
  BY ConfigAssumption DEF TypeInv, TypeOK, Service
<1>3. \A v \in Workers :
        /\ \A x \in before[v].addrs : x = call[v].ip
        /\ \A s \in before[v].svcs : s[1] = call[v].ip
        /\ \A e \in before[v].dests : e[1][1] = call[v].ip
  BY DEF Slices
<1>4. \A x : x = call[w].ip => (x \in SeenAddrs <=> x \in before[w].addrs)
  BY <1>3, SeenIs
<1>5. \A s : s[1] = call[w].ip => (s \in SeenSvcs <=> s \in before[w].svcs)
  BY <1>3, SeenIs
<1>6. \A e : e[1][1] = call[w].ip => (e \in SeenDests <=> e \in before[w].dests)
  BY <1>3, SeenIs
<1>7. \A x : x \in SeenAddrs' <=> IF x = call[w].ip THEN x \in addrs ELSE x \in SeenAddrs
  BY <1>1, <1>2, <1>3, SeenIs, SeenIsNext DEF NoSlice
<1>8. \A s : s \in SeenSvcs' <=> IF s[1] = call[w].ip THEN s \in svcs ELSE s \in SeenSvcs
  BY <1>1, <1>2, <1>3, SeenIs, SeenIsNext DEF NoSlice
<1>9. \A e : e \in SeenDests' <=> IF e[1][1] = call[w].ip THEN e \in dests ELSE e \in SeenDests
  BY <1>1, <1>2, <1>3, SeenIs, SeenIsNext DEF NoSlice
<1> QED
  BY <1>4, <1>5, <1>6, <1>7, <1>8, <1>9

(* When no handler is under way all is seen as it is.                      *)
LEMMA SeenAtRest ==
  ASSUME TypeInv, \A w \in Workers : call[w].ip = NoIP /\ before[w] = NoSlice
  PROVE  SeenAddrs = addrs /\ SeenSvcs = svcs /\ SeenDests = dests
<1>1. NoIP \notin addrs /\ (\A s \in svcs : s[1] # NoIP) /\ (\A e \in dests : e[1][1] # NoIP)
  BY ConfigAssumption DEF TypeInv, TypeOK, Service
<1>2. \A x : x \in SeenAddrs <=> x \in addrs
  BY <1>1, SeenIs DEF NoSlice
<1>3. \A s : s \in SeenSvcs <=> s \in svcs
  BY <1>1, SeenIs DEF NoSlice
<1>4. \A e : e \in SeenDests <=> e \in dests
  BY <1>1, SeenIs DEF NoSlice
<1> QED
  BY <1>2, <1>3, <1>4

LEMMA SeenAtRestNext ==
  ASSUME TypeInv', \A w \in Workers : call'[w].ip = NoIP /\ before'[w] = NoSlice
  PROVE  SeenAddrs' = addrs' /\ SeenSvcs' = svcs' /\ SeenDests' = dests'
<1>1. NoIP \notin addrs' /\ (\A s \in svcs' : s[1] # NoIP) /\ (\A e \in dests' : e[1][1] # NoIP)
  BY ConfigAssumption DEF TypeInv, TypeOK, Service
<1>2. \A x : x \in SeenAddrs' <=> x \in addrs'
  BY <1>1, SeenIsNext DEF NoSlice
<1>3. \A s : s \in SeenSvcs' <=> s \in svcs'
  BY <1>1, SeenIsNext DEF NoSlice
<1>4. \A e : e \in SeenDests' <=> e \in dests'
  BY <1>1, SeenIsNext DEF NoSlice
<1> QED
  BY <1>2, <1>3, <1>4

LEMMA OnAddressTyped == TypeOK => \A ip : OnAddress(ip) \in Slice
BY DEF TypeOK, OnAddress, Slice

(* What is left to show of one handler and its kernel calls.               *)
LEMMA SlicesWhen ==
  ASSUME TypeInv, Slices, NEW w \in Workers, NEW d, NEW b \in Slice,
         call' = [call EXCEPT ![w] = d], before' = [before EXCEPT ![w] = b], up' = up,
         d.pc # "idle" => up,
         \A x \in b.addrs : x = d.ip,
         \A s \in b.svcs : s[1] = d.ip,
         \A e \in b.dests : e[1][1] = d.ip,
         d.pc \in {"idle", "allocate"} => b = NoSlice,
         d.pc = "idle" => d.ip = NoIP,
         \A e \in dests' : e[1] \in svcs'
  PROVE  Slices'
<1>1. /\ before' \in [Workers -> Slice]
      /\ call'[w] = d /\ \A v \in Workers \ {w} : call'[v] = call[v]
      /\ before'[w] = b /\ \A v \in Workers \ {w} : before'[v] = before[v]
  BY DEF Slices, TypeInv
<1> QED
  BY <1>1 DEF Slices

LEMMA SlicesEnd ==
  ASSUME TypeInv, Slices, NEW w \in Workers,
         call' = [call EXCEPT ![w] = Idle], before' = [before EXCEPT ![w] = NoSlice],
         UNCHANGED <<svcs, dests, up>>
  PROVE  Slices'
<1>1. NoSlice \in Slice
  BY DEF NoSlice, Slice
<1>2. /\ \A x \in NoSlice.addrs : FALSE
      /\ \A s \in NoSlice.svcs : FALSE
      /\ \A e \in NoSlice.dests : FALSE
  BY DEF NoSlice
<1>3. Idle.pc = "idle" /\ Idle.ip = NoIP
  BY DEF Idle
<1>4. \A e \in dests : e[1] \in svcs
  BY DEF Slices
<1> HIDE DEF Idle, NoSlice
<1> QED
  BY <1>1, <1>2, <1>3, <1>4, SlicesWhen

(* A handler that goes on keeps its address and what it began with.        *)
LEMMA SlicesGoOn ==
  ASSUME TypeInv, Slices, NEW w \in Workers, NEW d, call' = [call EXCEPT ![w] = d],
         before' = before, up' = up, call[w].pc \notin {"idle", "allocate"},
         d.ip = call[w].ip, d.pc \notin {"idle", "allocate"},
         \A e \in dests' : e[1] \in svcs'
  PROVE  Slices'
<1>1. before' = [before EXCEPT ![w] = before[w]] /\ before[w] \in Slice
  BY DEF Slices
<1> QED
  BY <1>1, SlicesWhen DEF Slices

LEMMA SlicesBegin ==
  ASSUME TypeInv, Slices, NEW w \in Workers, NEW d, Begin(w, d), up,
         d.pc # "idle", d.pc = "allocate" => d.ip = NoIP
  PROVE  Slices'
<1>1. /\ call' = [call EXCEPT ![w] = d] /\ before' = [before EXCEPT ![w] = OnAddress(d.ip)]
      /\ UNCHANGED <<svcs, dests, up>>
  BY DEF Begin, kernel
<1>2. /\ OnAddress(d.ip) \in Slice
      /\ \A x \in OnAddress(d.ip).addrs : x = d.ip
      /\ \A s \in OnAddress(d.ip).svcs : s[1] = d.ip
      /\ \A e \in OnAddress(d.ip).dests : e[1][1] = d.ip
  BY OnAddressTyped DEF TypeInv, OnAddress
<1>3. d.pc = "allocate" => OnAddress(d.ip) = NoSlice
  BY OnNoAddress DEF TypeInv
<1>4. \A e \in dests : e[1] \in svcs
  BY DEF Slices
<1> QED
  BY <1>1, <1>2, <1>3, <1>4, SlicesWhen

(* What a handler begins with: a name that is not stored, with the address *)
(* that was asked for or none yet, or a name that is, with its record.     *)
Fresh(d) ==
  /\ d.n \in Names /\ d.errs = {}
  /\ \/ d.pc = "allocate" /\ d.ip = NoIP /\ ~Exists(d.n)
     \/ d.pc = "addrList" /\ d.ip # NoIP /\ <<d.n, d.ip>> \in Requests /\ ~Exists(d.n)
     \/ /\ Exists(d.n) /\ d.ip = db[d.n].ip /\ d.info = db[d.n]
        /\ \/ d.pc = "delServices" /\ d.todo = PortsOf(d.info)
           \/ d.pc = "isPresent" /\ d.m \notin d.info.targets
           \/ d.pc = "delDest" /\ d.m \in d.info.targets

SameView == UNCHANGED <<SeenAddrs, SeenSvcs, SeenDests>>

(* The serial server has the same helpers.                                 *)
LEMMA SameHelpers ==
  /\ Serial!Mapping = Mapping /\ Serial!NoLB = NoLB /\ Serial!Stored = Stored
  /\ \A n : Exists(n) <=> Serial!Exists(n)
  /\ \A used : Serial!Allocate(used) = Allocate(used)
  /\ \A i, m : /\ Serial!ServiceOf(i, m) = ServiceOf(i, m)
               /\ Serial!EntryOf(i, m) = EntryOf(i, m)
               /\ Serial!LastOnPort(i, m) <=> LastOnPort(i, m)
  /\ \A i : Serial!ServicesOf(i) = ServicesOf(i)
  /\ \A E, S : Serial!WithoutServices(E, S) = WithoutServices(E, S)
BY DEF Serial!Mapping, Mapping, Serial!NoLB, NoLB, Serial!Stored, Stored, Serial!Exists, Exists,
       Serial!Allocate, Allocate, Serial!LeastFree, LeastFree, Serial!ServiceOf, ServiceOf, Serial!EntryOf, EntryOf,
       Serial!toIPVSService, toIPVSService, Serial!toDestination, toDestination,
       Serial!LastOnPort, LastOnPort, Serial!ServicesOf, ServicesOf, Serial!WithoutServices, WithoutServices

(* A request begins a handler, or is refused, as the serial server would.  *)
LEMMA RequestForm ==
  ASSUME TypeInv, NEW w \in Workers, Request(w)
  PROVE  /\ up /\ call[w].pc = "idle"
         /\ \/ \E d : Fresh(d) /\ Begin(w, d)
            \/ \E n, err : Refuse(w, n, err) /\ (SameView => Serial!Next)
<1> DEFINE Goal == /\ up /\ call[w].pc = "idle"
                   /\ \/ \E d : Fresh(d) /\ Begin(w, d)
                      \/ \E n, err : Refuse(w, n, err) /\ (SameView => Serial!Next)
<1>1. ASSUME NEW n, NEW err, Refuse(w, n, err), SameView
      PROVE  Serial!Refuse(n, err)
  BY <1>1 DEF Refuse, Return, kernel, SameView, Serial!Refuse, Serial!Answer, Serial!kernel
<1>2. (\A n : Exists(n) <=> Serial!Exists(n)) /\ Serial!Mapping = Mapping
  BY SameHelpers
<1>3. ASSUME NEW r \in Requests, CreateGet(w, r[1], r[2])
      PROVE  Goal
  <2> DEFINE d == [Idle EXCEPT !.pc = IF r[2] = NoIP THEN "allocate" ELSE "addrList", !.n = r[1], !.ip = r[2]]
  <2>1. r = <<r[1], r[2]>> /\ r[1] \in Names
    BY ConfigAssumption
  <2>2. d.n = r[1] /\ d.ip = r[2] /\ d.errs = {} /\ d.pc = IF r[2] = NoIP THEN "allocate" ELSE "addrList"
    BY DEF Idle
  <2> HIDE DEF d
  <2>3. up /\ call[w].pc = "idle"
    BY <1>3 DEF CreateGet, Accept
  <2>4. CASE ~Exists(r[1]) /\ Begin(w, d)
    BY <2>1, <2>2, <2>3, <2>4 DEF Fresh
  <2>5. CASE Exists(r[1]) /\ Refuse(w, r[1], "AlreadyExists")
    <3>1. ASSUME SameView
          PROVE  Serial!Next
      <4>1. Serial!Refuse(r[1], "AlreadyExists") /\ Serial!Exists(r[1])
        BY <1>1, <1>2, <2>5, <3>1
      <4>2. CASE r[2] = NoIP
        BY <2>1, <2>3, <4>1, <4>2 DEF Serial!Next, Serial!CreateAuto
      <4>3. CASE r[2] # NoIP
        BY <2>3, <4>1, <4>3 DEF Serial!Next, Serial!Create
      <4> QED
        BY <4>2, <4>3
    <3> QED
      BY <2>3, <2>5, <3>1
  <2> QED
    BY <1>3, <2>4, <2>5 DEF CreateGet, d
<1>4. ASSUME NEW n \in Names, DeleteGet(w, n)
      PROVE  Goal
  <2> DEFINE d == [Idle EXCEPT !.pc = "delServices", !.n = n, !.ip = db[n].ip, !.info = db[n],
                               !.todo = {<<m.port, m.proto>> : m \in db[n].targets}]
  <2>1. /\ d.n = n /\ d.ip = db[n].ip /\ d.pc = "delServices" /\ d.info = db[n] /\ d.errs = {}
        /\ d.todo = PortsOf(db[n])
    BY DEF Idle, PortsOf
  <2> HIDE DEF d
  <2>2. up /\ call[w].pc = "idle"
    BY <1>4 DEF DeleteGet, Accept
  <2>3. CASE Exists(n) /\ Begin(w, d)
    BY <2>1, <2>2, <2>3 DEF Fresh
  <2>4. CASE ~Exists(n) /\ Refuse(w, n, "NoSuchLB")
    BY <1>1, <1>2, <2>2, <2>4 DEF Serial!Next, Serial!Delete
  <2> QED
    BY <1>4, <2>3, <2>4 DEF DeleteGet, d
<1>5. ASSUME NEW n \in Names, NEW m \in Mapping, AddGet(w, n, m)
      PROVE  Goal
  <2> DEFINE d == [Idle EXCEPT !.pc = "isPresent", !.n = n, !.ip = db[n].ip, !.m = m, !.info = db[n]]
  <2>1. d.n = n /\ d.ip = db[n].ip /\ d.pc = "isPresent" /\ d.info = db[n] /\ d.errs = {} /\ d.m = m
    BY DEF Idle
  <2> HIDE DEF d
  <2>2. up /\ call[w].pc = "idle"
    BY <1>5 DEF AddGet, Accept
  <2>3. CASE Exists(n) /\ m \notin db[n].targets /\ Begin(w, d)
    BY <2>1, <2>2, <2>3 DEF Fresh
  <2>4. CASE \/ ~Exists(n) /\ Refuse(w, n, "NoSuchLB")
             \/ Exists(n) /\ m \in db[n].targets /\ Refuse(w, n, "TargetAlreadyMapped")
    BY <1>1, <1>2, <2>2, <2>4 DEF Serial!Next, Serial!AddTarget
  <2> QED
    BY <1>5, <2>3, <2>4 DEF AddGet, d
<1>6. ASSUME NEW n \in Names, NEW m \in Mapping, DelGet(w, n, m)
      PROVE  Goal
  <2> DEFINE d == [Idle EXCEPT !.pc = "delDest", !.n = n, !.ip = db[n].ip, !.m = m, !.info = db[n]]
  <2>1. d.n = n /\ d.ip = db[n].ip /\ d.pc = "delDest" /\ d.info = db[n] /\ d.errs = {} /\ d.m = m
    BY DEF Idle
  <2> HIDE DEF d
  <2>2. up /\ call[w].pc = "idle"
    BY <1>6 DEF DelGet, Accept
  <2>3. CASE Exists(n) /\ m \in db[n].targets /\ Begin(w, d)
    BY <2>1, <2>2, <2>3 DEF Fresh
  <2>4. CASE \/ ~Exists(n) /\ Refuse(w, n, "NoSuchLB")
             \/ Exists(n) /\ m \notin db[n].targets /\ Refuse(w, n, "TargetNotMapped")
    BY <1>1, <1>2, <2>2, <2>4 DEF Serial!Next, Serial!DelTarget
  <2> QED
    BY <1>6, <2>3, <2>4 DEF DelGet, d
<1> QED
  BY <1>3, <1>4, <1>5, <1>6 DEF Request

-----------------------------------------------------------------------------
(* One handler among others *)

(* A handler on an address of the dynamic range, or about to ask for one,  *)
(* is on the one name that gets its address from the IPAM.                 *)
LEMMA AutoName ==
  ASSUME ExclusiveRequests, Origin, NEW w \in Workers, call[w].pc # "idle",
         call[w].pc = "allocate" \/ call[w].ip \in DynRange
  PROVE  <<call[w].n, NoIP>> \in Requests
BY DEF ExclusiveRequests, Origin, AddressOf

LEMMA OneDynamic ==
  ASSUME ExclusiveRequests, OneAutoName, Origin, Separate, NEW v \in Workers, NEW w \in Workers, v # w,
         call[v].pc # "idle", call[w].pc # "idle",
         call[v].pc = "allocate" \/ call[v].ip \in DynRange
  PROVE  call[w].ip \notin DynRange /\ call[w].pc # "allocate"
<1>1. call[v].n # call[w].n
  BY DEF Separate
<1> QED
  BY <1>1, AutoName DEF OneAutoName

LEMMA HasAddress ==
  ASSUME Origin, NEW w \in Workers, call[w].pc \notin {"idle", "allocate"}
  PROVE  call[w].ip # NoIP
<1>1. NoIP \notin DynRange
  BY ConfigAssumption DEF DynRange
<1> QED
  BY <1>1 DEF Origin, AddressOf

(* Handlers on different names are on different addresses.                 *)
LEMMA OthersOff ==
  ASSUME ExclusiveRequests, OneAutoName, Origin, Slices, Separate,
         NEW w \in Workers, call[w].pc \notin {"idle", "allocate"}, NEW v \in Workers \ {w}
  PROVE  call[v].ip # call[w].ip
<1>1. CASE call[v].pc \in {"idle", "allocate"}
  <2>1. call[v].ip = NoIP
    BY <1>1 DEF Origin, Slices
  <2> QED
    BY <2>1, HasAddress
<1>2. CASE call[v].pc \notin {"idle", "allocate"}
  <2>1. call[v].n # call[w].n
    BY <1>2 DEF Separate
  <2> QED
    BY <1>2, <2>1, AddressesDiffer DEF Origin
<1> QED
  BY <1>1, <1>2

LEMMA OnAddressStays ==
  ASSUME TypeInv, TypeInv', NEW n, NEW ip, NEW j, KeepsTo(n, ip), j # ip
  PROVE  OnAddress(j)' = OnAddress(j)
<1>1. /\ svcs \subseteq Service /\ svcs' \subseteq Service
      /\ dests \subseteq Service \X Destination /\ dests' \subseteq Service \X Destination
  BY DEF TypeInv, TypeOK
<1>2. addrs' \cap {j} = addrs \cap {j}
  BY DEF KeepsTo
<1>3. {s \in svcs' : s[1] = j} = {s \in svcs : s[1] = j}
  BY <1>1 DEF KeepsTo
<1>4. {e \in dests' : e[1][1] = j} = {e \in dests : e[1][1] = j}
  BY <1>1 DEF KeepsTo
<1> QED
  BY <1>2, <1>3, <1>4 DEF OnAddress

(* What the IPAM gives out depends on the dynamic range only.              *)
LEMMA AllocateSame ==
  ASSUME NEW S, NEW T, \A x \in DynRange : x \in S <=> x \in T
  PROVE  Allocate(S) = Allocate(T)
BY DEF Allocate, LeastFree, DynRange

Own(w) ==
  /\ RecordKnown(call[w])
  /\ call[w].pc \notin {"idle", "allocate"} => Progress(call[w], OnAddress(call[w].ip), before[w])
  /\ call[w].pc \in Storing /\ call[w].ip \in DynRange => call[w].ip \in Allocate(SeenAddrs)

LEMMA SeparateIs ==
  Separate <=>
    /\ \A v, w \in Workers :
         v # w /\ call[v].pc # "idle" /\ call[w].pc # "idle" => call[v].n # call[w].n
    /\ \A w \in Workers : Own(w)
BY DEF Separate, Own

(* What a handler does on its name and address is nothing to the others.   *)
LEMMA OwnStays ==
  ASSUME TypeInv, TypeInv', NEW v \in Workers, Own(v),
         call'[v] = call[v], before'[v] = before[v],
         call[v].pc # "idle" => db'[call[v].n] = db[call[v].n],
         call[v].pc \notin {"idle", "allocate"} => OnAddress(call[v].ip)' = OnAddress(call[v].ip),
         call[v].pc \in Storing /\ call[v].ip \in DynRange =>
           \A x \in DynRange : x \in SeenAddrs' <=> x \in SeenAddrs
  PROVE  Own(v)'
<1>1. RecordKnown(call[v])'
  BY DEF Own, RecordKnown, Exists, Storing, Deleting, Adding, Removing
<1>2. call'[v].pc \notin {"idle", "allocate"} => Progress(call[v], OnAddress(call[v].ip), before[v])'
  BY DEF Own
<1>3. call'[v].pc \in Storing /\ call'[v].ip \in DynRange => call'[v].ip \in Allocate(SeenAddrs')
  BY AllocateSame DEF Own
<1> QED
  BY <1>1, <1>2, <1>3 DEF Own, Allocate

(* What every step must do: keep the invariant, and be one of the serial   *)
(* server's or none.                                                       *)
Simulates == Slices' /\ Apart' /\ (apart' => Serial!Next \/ UNCHANGED Serial!vars)

Hypotheses == ExclusiveRequests /\ OneAutoName /\ ~CrashAnywhere /\ ~CallsFail
Invariant == TypeInv /\ Origin /\ Slices /\ Apart

LEMMA ViewUnchanged ==
  ASSUME SameView, UNCHANGED <<db, up, reply>>
  PROVE  UNCHANGED Serial!vars
BY DEF SameView, Serial!vars

(* The kernel objects on an address after a step.                          *)
After(ip) ==
  [addrs |-> addrs' \cap {ip},
   svcs |-> {s \in svcs' : s[1] = ip},
   dests |-> {e \in dests' : e[1][1] = ip}]

(* A handler makes one of its calls and goes on.                           *)
LEMMA GoesOn ==
  ASSUME Hypotheses, Invariant, TypeInv', NEW w \in Workers, NEW d,
         call' = [call EXCEPT ![w] = d], UNCHANGED <<before, db, up, reply, apart>>,
         KeepsTo(call[w].n, call[w].ip), \A e \in dests' : e[1] \in svcs',
         d.n = call[w].n, d.ip = call[w].ip, d.m = call[w].m, d.info = call[w].info,
         \E P \in {Storing, Deleting, Adding, Removing} : call[w].pc \in P /\ d.pc \in P,
         d.pc = "delService" => LastOnPort(d.info, d.m),
         Progress(call[w], OnAddress(d.ip), before[w]) => Progress(d, After(d.ip), before[w])
  PROVE  Simulates
<1>1. call[w].pc \notin {"idle", "allocate"} /\ d.pc \notin {"idle", "allocate"}
  BY DEF Storing, Deleting, Adding, Removing
<1>2. call'[w] = d /\ \A v \in Workers \ {w} : call'[v] = call[v]
  BY DEF Invariant, TypeInv
<1>3. Slices'
  BY <1>1, SlicesGoOn DEF Invariant
<1>4. ASSUME apart
      PROVE  Separate' /\ UNCHANGED Serial!vars
  <2>1. Separate /\ \A v \in Workers : Own(v)
    BY <1>4, SeparateIs DEF Invariant, Apart
  <2>2. SameView
    BY <1>2, SeenGoesOn DEF Invariant, SameView
  <2>3. ASSUME NEW v \in Workers \ {w}
        PROVE  Own(v)'
    <3>1. call[v].pc # "idle" => call[v].n # call[w].n /\ call[v].n \in Names
      BY <1>1, <2>1 DEF Separate, Invariant, TypeInv, CallOK
    <3>2. call[v].pc # "idle" => db'[call[v].n] = db[call[v].n]
      BY <3>1 DEF KeepsTo
    <3>3. call[v].ip # call[w].ip
      BY <1>1, <2>1, OthersOff DEF Hypotheses, Invariant
    <3>4. OnAddress(call[v].ip)' = OnAddress(call[v].ip)
      <4>1. ASSUME NEW j, j # call[w].ip
            PROVE  OnAddress(j)' = OnAddress(j)
        BY <4>1, OnAddressStays DEF Invariant
      <4> QED
        BY <1>2, <3>3, <4>1 DEF OnAddress
    <3> QED
      BY <1>2, <2>1, <2>2, <3>2, <3>4, OwnStays DEF Invariant, SameView
  <2>4. Own(w)'
    <3>1. RecordKnown(call[w])'
      BY <1>1, <1>2, <2>1 DEF Own, RecordKnown, Exists, Storing, Deleting, Adding, Removing
    <3>2. Progress(d, After(d.ip), before[w])
      BY <1>1, <2>1 DEF Own
    <3>3. OnAddress(call[w].ip)' = After(d.ip)
      BY <1>2 DEF OnAddress, After
    <3>4. d.pc \in Storing /\ d.ip \in DynRange => d.ip \in Allocate(SeenAddrs')
      BY <2>1, <2>2 DEF Own, Storing, Deleting, Adding, Removing, SameView
    <3> QED
      BY <1>2, <3>1, <3>2, <3>3, <3>4 DEF Own, Allocate
  <2>5. \A u, v \in Workers :
          u # v /\ call'[u].pc # "idle" /\ call'[v].pc # "idle" => call'[u].n # call'[v].n
    BY <1>1, <1>2, <2>1 DEF Separate
  <2>6. Separate'
    BY <2>3, <2>4, <2>5 DEF Own, Separate
  <2> QED
    BY <2>2, <2>6, ViewUnchanged
<1> QED
  BY <1>3, <1>4 DEF Simulates, Apart

(* A handler answers, and all it did is seen.                              *)
LEMMA Ends ==
  ASSUME Hypotheses, Invariant, TypeInv', NEW w \in Workers, call[w].pc \notin {"idle", "allocate"},
         NEW errs, Return(w, call[w].n, errs), UNCHANGED kernel,
         KeepsTo(call[w].n, call[w].ip), Separate => Serial!Next
  PROVE  Simulates
<1>1. /\ call' = [call EXCEPT ![w] = Idle] /\ before' = [before EXCEPT ![w] = NoSlice]
      /\ UNCHANGED <<addrs, svcs, dests, up, apart>>
  BY DEF Return, kernel
<1>2. call'[w].pc = "idle" /\ \A v \in Workers \ {w} : call'[v] = call[v] /\ before'[v] = before[v]
  BY <1>1 DEF Invariant, TypeInv, Slices, Idle
<1>3. Slices'
  BY <1>1, SlicesEnd DEF Invariant
<1>4. ASSUME apart
      PROVE  Separate'
  <2>1. Separate /\ \A v \in Workers : Own(v)
    BY <1>4, SeparateIs DEF Invariant, Apart
  <2>2. ASSUME NEW v \in Workers \ {w}
        PROVE  Own(v)'
    <3>1. call[v].pc # "idle" => call[v].n # call[w].n /\ call[v].n \in Names
      BY <2>1 DEF Separate, Invariant, TypeInv, CallOK
    <3>2. call[v].pc # "idle" => db'[call[v].n] = db[call[v].n]
      BY <3>1 DEF KeepsTo
    <3>3. OnAddress(call[v].ip)' = OnAddress(call[v].ip)
      BY <1>1, <1>2 DEF OnAddress
    <3>4. ASSUME call[v].pc \in Storing, call[v].ip \in DynRange, NEW x \in DynRange
          PROVE  x \in SeenAddrs' <=> x \in SeenAddrs
      <4>1. call[w].ip \notin DynRange
        BY <2>1, <3>4, OneDynamic DEF Hypotheses, Invariant, Storing
      <4>2. call[w].ip # NoIP /\ \A u \in Workers \ {w} : call[u].ip # call[w].ip
        BY <2>1, HasAddress, OthersOff DEF Hypotheses, Invariant
      <4> QED
        BY <1>1, <3>4, <4>1, <4>2, SeenEnds DEF Invariant
    <3> QED
      BY <1>2, <2>1, <3>2, <3>3, <3>4, OwnStays DEF Invariant
  <2>3. Own(w)'
    BY <1>2 DEF Own, RecordKnown, Storing, Deleting, Adding, Removing
  <2>4. \A u, v \in Workers :
          u # v /\ call'[u].pc # "idle" /\ call'[v].pc # "idle" => call'[u].n # call'[v].n
    BY <1>2, <2>1 DEF Separate
  <2> QED
    BY <2>2, <2>3, <2>4 DEF Own, Separate
<1> QED
  BY <1>1, <1>3, <1>4 DEF Simulates, Apart, Invariant

(* A request that is refused, or an allocation that finds no address.      *)
LEMMA Refused ==
  ASSUME Hypotheses, Invariant, TypeInv', NEW w \in Workers, call[w].pc \in {"idle", "allocate"},
         NEW n, NEW err, Refuse(w, n, err), Separate \/ call[w].pc = "idle" => (SameView => Serial!Next)
  PROVE  Simulates
<1>1. /\ call' = [call EXCEPT ![w] = Idle] /\ before' = [before EXCEPT ![w] = NoSlice]
      /\ UNCHANGED <<addrs, svcs, dests, db, up, apart>> /\ UNCHANGED kernel
  BY DEF Refuse, Return, kernel
<1>2. call'[w].pc = "idle" /\ \A v \in Workers \ {w} : call'[v] = call[v] /\ before'[v] = before[v]
  BY <1>1 DEF Invariant, TypeInv, Slices, Idle
<1>3. Slices'
  BY <1>1, SlicesEnd DEF Invariant
<1>4. SameView
  <2>1. call[w].ip = NoIP
    BY DEF Invariant, Origin, Slices
  <2>2. call'[w].ip = NoIP /\ before'[w] = OnAddress(NoIP)
    BY <1>1, OnNoAddress DEF Invariant, TypeInv, Slices, Idle
  <2> QED
    BY <1>1, <1>2, <2>1, <2>2, SeenBegins DEF Invariant, SameView
<1>5. ASSUME apart
      PROVE  Separate' /\ Serial!Next
  <2>1. Separate /\ \A v \in Workers : Own(v)
    BY <1>5, SeparateIs DEF Invariant, Apart
  <2>2. ASSUME NEW v \in Workers \ {w}
        PROVE  Own(v)'
    <3>1. OnAddress(call[v].ip)' = OnAddress(call[v].ip)
      BY <1>1, <1>2 DEF OnAddress
    <3> QED
      BY <1>1, <1>2, <1>4, <2>1, <3>1, OwnStays DEF Invariant, SameView
  <2>3. Own(w)'
    BY <1>2 DEF Own, RecordKnown, Storing, Deleting, Adding, Removing
  <2>4. \A u, v \in Workers :
          u # v /\ call'[u].pc # "idle" /\ call'[v].pc # "idle" => call'[u].n # call'[v].n
    BY <1>2, <2>1 DEF Separate
  <2> QED
    BY <1>4, <2>1, <2>2, <2>3, <2>4 DEF Own, Separate
<1> QED
  BY <1>1, <1>3, <1>5 DEF Simulates, Apart, Invariant

(* A handler begins on a name and an address nobody else works on.         *)
LEMMA BeginsApart ==
  ASSUME Hypotheses, Invariant, TypeInv', NEW w \in Workers, NEW d, Begin(w, d), Separate,
         call[w].pc \in {"idle", "allocate"}, d.pc # "idle",
         d.ip = NoIP \/ \A v \in Workers \ {w} : call[v].ip # d.ip,
         \A v \in Workers \ {w} : call[v].pc # "idle" => call[v].n # d.n,
         RecordKnown(d),
         d.pc # "allocate" => Progress(d, OnAddress(d.ip), OnAddress(d.ip)),
         d.pc \in Storing /\ d.ip \in DynRange => d.ip \in Allocate(SeenAddrs)
  PROVE  Separate' /\ UNCHANGED Serial!vars
<1>1. /\ call' = [call EXCEPT ![w] = d] /\ before' = [before EXCEPT ![w] = OnAddress(d.ip)]
      /\ UNCHANGED <<addrs, svcs, dests, db, up, reply>> /\ UNCHANGED kernel
  BY DEF Begin, kernel
<1>2. /\ call'[w] = d /\ before'[w] = OnAddress(d.ip)
      /\ \A v \in Workers \ {w} : call'[v] = call[v] /\ before'[v] = before[v]
  BY <1>1 DEF Invariant, TypeInv, Slices
<1>3. SameView
  <2>1. call[w].ip = NoIP
    BY DEF Invariant, Origin, Slices
  <2> QED
    BY <1>1, <1>2, <2>1, SeenBegins DEF Invariant, SameView
<1>4. ASSUME NEW v \in Workers \ {w}
      PROVE  Own(v)'
  <2>1. OnAddress(call[v].ip)' = OnAddress(call[v].ip)
    BY <1>1, <1>2 DEF OnAddress
  <2> QED
    BY <1>1, <1>2, <1>3, <2>1, SeparateIs, OwnStays DEF Invariant, SameView
<1>5. Own(w)'
  <2>1. RecordKnown(call[w])'
    BY <1>1, <1>2 DEF RecordKnown, Exists
  <2>2. OnAddress(call[w].ip)' = OnAddress(d.ip)
    BY <1>1, <1>2 DEF OnAddress
  <2>3. SeenAddrs' = SeenAddrs
    BY <1>3 DEF SameView
  <2> QED
    BY <1>2, <2>1, <2>2, <2>3 DEF Own, Allocate
<1>6. \A u, v \in Workers :
        u # v /\ call'[u].pc # "idle" /\ call'[v].pc # "idle" => call'[u].n # call'[v].n
  BY <1>2 DEF Separate
<1> QED
  BY <1>1, <1>3, <1>4, <1>5, <1>6, ViewUnchanged DEF Own, Separate

LEMMA FreshProgress ==
  ASSUME NEW d, Fresh(d), d.pc # "allocate", NEW b
  PROVE  Progress(d, b, b)
<1>1. CASE d.pc = "delServices"
  <2>1. Passed(d) = {}
    BY <1>1 DEF Fresh, Passed
  <2>2. Gone(d) = {} /\ ~ServiceMissed(d, b.svcs)
    BY <2>1 DEF Gone, ServiceMissed
  <2> QED
    BY <1>1, <2>2 DEF Fresh, Progress, CreateProgress, DeleteProgress, AddProgress, DelProgress,
                      WithoutServices, Deleting
<1>2. CASE d.pc \in {"addrList", "isPresent", "delDest"}
  BY <1>2 DEF Progress, CreateProgress, DeleteProgress, AddProgress, DelProgress, Deleting
<1> QED
  BY <1>1, <1>2 DEF Fresh

LEMMA QuietSeparate == Quiet => Separate
BY DEF Quiet, Separate, RecordKnown, Storing, Deleting, Adding, Removing

LEMMA RequestSimulates ==
  ASSUME Hypotheses, Invariant, TypeInv', Origin', NEW w \in Workers, Request(w)
  PROVE  Simulates
<1>1. ASSUME NEW n, NEW err, call[w].pc = "idle", Refuse(w, n, err), SameView => Serial!Next
      PROVE  Simulates
  BY <1>1, Refused
<1>2. ASSUME NEW d, up, call[w].pc = "idle", Fresh(d), Begin(w, d)
      PROVE  Simulates
  <2>1. /\ call' = [call EXCEPT ![w] = d]
        /\ apart' => Quiet \/ (apart /\ \A v \in Workers \ {w} : call[v].n # d.n)
    BY <1>2 DEF Begin
  <2>2. d.pc # "idle" /\ (d.pc = "allocate" => d.ip = NoIP)
    BY <1>2 DEF Fresh
  <2>3. Slices'
    BY <1>2, <2>2, SlicesBegin DEF Invariant
  <2>4. ASSUME apart'
        PROVE  Separate' /\ UNCHANGED Serial!vars
    <3>1. Separate /\ \A v \in Workers \ {w} : call[v].pc # "idle" => call[v].n # d.n
      BY <2>1, <2>4, QuietSeparate DEF Invariant, Apart, Quiet
    <3>2. d.pc # "allocate" => AddressOf(d.n, d.ip)
      <4>1. call'[w] = d
        BY <2>1 DEF Invariant, TypeInv
      <4> QED
        BY <2>2, <4>1 DEF Origin, AddressOf
    <3>3. ASSUME d.ip # NoIP, NEW v \in Workers \ {w}
          PROVE  call[v].ip # d.ip
      <4>1. CASE call[v].pc \in {"idle", "allocate"}
        BY <3>3, <4>1 DEF Invariant, Slices, Origin
      <4>2. CASE call[v].pc \notin {"idle", "allocate"}
        BY <2>2, <3>1, <3>2, <3>3, <4>2, AddressesDiffer DEF Hypotheses, Invariant, Origin
      <4> QED
        BY <4>1, <4>2
    <3>4. RecordKnown(d)
      BY <1>2 DEF Fresh, RecordKnown, Storing, Deleting, Adding, Removing
    <3>5. d.pc \in Storing => d.ip \notin DynRange
      BY <1>2 DEF Fresh, Storing, Hypotheses, ExclusiveRequests
    <3> QED
      BY <1>2, <2>2, <3>1, <3>3, <3>4, <3>5, FreshProgress, BeginsApart
  <2> QED
    BY <2>3, <2>4 DEF Simulates, Apart
<1> QED
  BY <1>1, <1>2, RequestForm DEF Invariant

LEMMA GotoSimulates ==
  ASSUME Hypotheses, Invariant, TypeInv', NEW w \in Workers, Handler(w), NEW pc, Goto(w, pc), db' = db,
         \A e \in dests' : e[1] \in svcs',
         \E P \in {Storing, Adding, Removing} : call[w].pc \in P /\ pc \in P,
         pc = "delService" => LastOnPort(call[w].info, call[w].m),
         \A d : /\ d.pc = pc /\ d.ip = call[w].ip /\ d.m = call[w].m /\ d.info = call[w].info
                /\ Progress(call[w], OnAddress(call[w].ip), before[w])
                => Progress(d, After(call[w].ip), before[w])
  PROVE  Simulates
<1> DEFINE d == [call[w] EXCEPT !.pc = pc]
<1>1. /\ call' = [call EXCEPT ![w] = d] /\ UNCHANGED <<before, db, up, reply, apart>>
  BY DEF Goto
<1>2. d.pc = pc /\ d.n = call[w].n /\ d.ip = call[w].ip /\ d.m = call[w].m /\ d.info = call[w].info
  BY DEF Invariant, TypeInv, CallRecord
<1>3. KeepsTo(call[w].n, call[w].ip)
  BY HandlerKeepsTo DEF Invariant
<1> HIDE DEF d
<1> QED
  BY <1>1, <1>2, <1>3, GoesOn

(* On address ip, what was seen before the step is b and what is seen      *)
(* after it is a; elsewhere what is seen stays.                            *)
ViewTurns(ip, b, a) ==
  /\ \A x : x \in SeenAddrs' <=> IF x = ip THEN x \in a.addrs ELSE x \in SeenAddrs
  /\ \A s : s \in SeenSvcs' <=> IF s[1] = ip THEN s \in a.svcs ELSE s \in SeenSvcs
  /\ \A e : e \in SeenDests' <=> IF e[1][1] = ip THEN e \in a.dests ELSE e \in SeenDests
  /\ \A x : x = ip => (x \in SeenAddrs <=> x \in b.addrs)
  /\ \A s : s[1] = ip => (s \in SeenSvcs <=> s \in b.svcs)
  /\ \A e : e[1][1] = ip => (e \in SeenDests <=> e \in b.dests)

(* An answer makes seen what the handler did, on its address.              *)
LEMMA EndView ==
  ASSUME Hypotheses, Invariant, TypeInv', Separate, NEW w \in Workers, call[w].pc \notin {"idle", "allocate"},
         NEW n, NEW errs, Return(w, n, errs), UNCHANGED kernel
  PROVE  /\ RecordKnown(call[w]) /\ Progress(call[w], OnAddress(call[w].ip), before[w]) /\ up /\ up' = up
         /\ reply' = [name |-> n, code |-> errs]
         /\ ViewTurns(call[w].ip, before[w], OnAddress(call[w].ip))
<1> DEFINE a == OnAddress(call[w].ip)
           b == before[w]
<1>1. /\ call' = [call EXCEPT ![w] = Idle] /\ before' = [before EXCEPT ![w] = NoSlice]
      /\ reply' = [name |-> n, code |-> errs] /\ up' = up
  BY DEF Return
<1>2. RecordKnown(call[w]) /\ Progress(call[w], a, b) /\ up
  BY DEF Separate, Invariant, Slices
<1>3. /\ call[w].ip # NoIP
      /\ \A v \in Workers \ {w} : call[v].ip # call[w].ip
  BY HasAddress, OthersOff DEF Hypotheses, Invariant
<1>4. /\ \A x : x = call[w].ip => (x \in addrs <=> x \in a.addrs)
      /\ \A s : s[1] = call[w].ip => (s \in svcs <=> s \in a.svcs)
      /\ \A e : e[1][1] = call[w].ip => (e \in dests <=> e \in a.dests)
  BY DEF OnAddress
<1>5. TypeInv /\ Slices
  BY DEF Invariant
<1>6. /\ \A x : x \in SeenAddrs' <=> IF x = call[w].ip THEN x \in addrs ELSE x \in SeenAddrs
      /\ \A s : s \in SeenSvcs' <=> IF s[1] = call[w].ip THEN s \in svcs ELSE s \in SeenSvcs
      /\ \A e : e \in SeenDests' <=> IF e[1][1] = call[w].ip THEN e \in dests ELSE e \in SeenDests
      /\ \A x : x = call[w].ip => (x \in SeenAddrs <=> x \in before[w].addrs)
      /\ \A s : s[1] = call[w].ip => (s \in SeenSvcs <=> s \in before[w].svcs)
      /\ \A e : e[1][1] = call[w].ip => (e \in SeenDests <=> e \in before[w].dests)
  BY <1>1, <1>3, <1>5, SeenEnds
<1> HIDE DEF a
<1>7. ViewTurns(call[w].ip, b, a)
  BY <1>4, <1>6 DEF ViewTurns
<1> QED
  BY <1>1, <1>2, <1>7 DEF a

(* A handler that gives up before it changes anything.                     *)
LEMMA EndsUndone ==
  ASSUME Hypotheses, Invariant, TypeInv', Separate, NEW w \in Workers, call[w].pc \notin {"idle", "allocate"},
         NEW n, NEW errs, Return(w, n, errs), UNCHANGED kernel, OnAddress(call[w].ip) = before[w]
  PROVE  SameView
<1> DEFINE b == before[w]
           ip == call[w].ip
<1>1. ViewTurns(ip, b, b)
  BY EndView
<1> HIDE DEF b, ip
<1>2. /\ \A x : x \in SeenAddrs' <=> x \in SeenAddrs
      /\ \A s : s \in SeenSvcs' <=> s \in SeenSvcs
      /\ \A e : e \in SeenDests' <=> e \in SeenDests
  BY <1>1 DEF ViewTurns
<1> QED
  BY <1>2, SameSeen DEF SameView

-----------------------------------------------------------------------------
(* Create, seen from outside *)

LEMMA CreateAllocateSimulates ==
  ASSUME Hypotheses, Invariant, TypeInv', NEW w \in Workers, CreateAllocate(w)
  PROVE  Simulates
<1> DEFINE c == call[w]
<1>1. /\ c.pc = "allocate" /\ c \in CallRecord /\ c.n \in Names /\ c.ip = NoIP /\ up
      /\ <<c.n, NoIP>> \in Requests
  BY DEF CreateAllocate, At, Invariant, TypeInv, CallOK, Slices, Origin
<1>2. ASSUME Separate
      PROVE  /\ ~Exists(c.n) /\ \A v \in Workers : call[v].ip \notin DynRange
             /\ Allocate(SeenAddrs) = Allocate(addrs)
  <2>1. ~Exists(c.n)
    BY <1>1, <1>2 DEF Separate, RecordKnown
  <2>2. \A v \in Workers : call[v].ip \notin DynRange
    <3>1. NoIP \notin DynRange
      BY ConfigAssumption DEF DynRange
    <3>2. ASSUME NEW v \in Workers \ {w}, call[v].pc # "idle"
          PROVE  call[v].ip \notin DynRange
      BY <1>1, <1>2, <3>2, OneDynamic DEF Hypotheses, Invariant
    <3> QED
      BY <1>1, <3>1, <3>2 DEF Invariant, Slices
  <2>3. \A x \in DynRange : x \in SeenAddrs <=> x \in addrs
    BY <2>2, SeenIs DEF Invariant, Slices
  <2> QED
    BY <2>1, <2>2, <2>3, AllocateSame
<1>3. CASE Allocate(addrs) = {} /\ Refuse(w, c.n, "NoFreeIP")
  <2>1. ASSUME Separate, SameView
        PROVE  Serial!Next
    <3>1. /\ ~Serial!Exists(c.n) /\ Serial!Allocate(SeenAddrs) = {}
          /\ Serial!Refuse(c.n, "NoFreeIP")
      BY <1>2, <1>3, <2>1, SameHelpers
         DEF Refuse, Return, kernel, SameView, Serial!Refuse, Serial!Answer, Serial!kernel
    <3> QED
      BY <1>1, <3>1 DEF Serial!Next, Serial!CreateAuto
  <2> QED
    BY <1>1, <1>3, <2>1, Refused
<1>4. ASSUME NEW ip \in Allocate(addrs), Begin(w, [c EXCEPT !.pc = "addrList", !.ip = ip])
      PROVE  Simulates
  <2> DEFINE d == [c EXCEPT !.pc = "addrList", !.ip = ip]
  <2>1. d.pc = "addrList" /\ d.n = c.n /\ d.ip = ip
    BY <1>1 DEF CallRecord
  <2> HIDE DEF d
  <2>2. Begin(w, d) /\ ip \in DynRange
    BY <1>4 DEF d, Allocate, LeastFree, DynRange
  <2>3. Slices'
    BY <1>1, <2>1, <2>2, SlicesBegin DEF Invariant
  <2>4. ASSUME apart'
        PROVE  Separate' /\ UNCHANGED Serial!vars
    <3>1. Separate /\ \A v \in Workers \ {w} : call[v].n # d.n
      BY <1>1, <2>2, <2>4 DEF Begin, Quiet, Invariant, Apart
    <3>2. \A v \in Workers \ {w} : call[v].ip # d.ip
      BY <1>2, <2>1, <2>2, <3>1
    <3>3. RecordKnown(d) /\ Progress(d, OnAddress(d.ip), OnAddress(d.ip))
      BY <1>2, <2>1, <3>1 DEF RecordKnown, Progress, CreateProgress, DeleteProgress, AddProgress, DelProgress,
                              Storing, Deleting, Adding, Removing
    <3>4. d.ip \in Allocate(SeenAddrs)
      BY <1>2, <1>4, <2>1, <3>1
    <3> QED
      BY <1>1, <2>1, <2>2, <3>1, <3>2, <3>3, <3>4, BeginsApart
  <2> QED
    BY <2>3, <2>4 DEF Simulates, Apart
<1> QED
  BY <1>3, <1>4 DEF CreateAllocate

LEMMA CreateSimulates ==
  ASSUME Hypotheses, Invariant, TypeInv', NEW w \in Workers, Handler(w),
         CreateAddrList(w) \/ CreateAddrAdd(w) \/ CreatePut(w)
  PROVE  Simulates
<1> DEFINE c == call[w]
           ip == call[w].ip
           b == before[w]
<1>1. /\ c.pc \in Storing /\ c \in CallRecord /\ c.n \in Names
      /\ c.pc \notin {"idle", "allocate"} /\ KeepsTo(c.n, ip) /\ AddressOf(c.n, ip)
      /\ \A e \in dests : e[1] \in svcs
  BY HandlerKeepsTo DEF CreateAddrList, CreateAddrAdd, CreatePut, At, Storing, Invariant, TypeInv, CallOK, Slices, Origin
<1>2. ASSUME NEW pc \in {"addrAdd", "createPut"}, Goto(w, pc), db' = db, UNCHANGED <<svcs, dests>>,
             c.pc = "addrList" \/ c.pc = "addrAdd",
             pc = "addrAdd" => c.pc = "addrList" /\ ip \notin addrs /\ addrs' = addrs,
             pc = "createPut" => addrs' = addrs \cup {ip}
      PROVE  Simulates
  <2>1. ASSUME NEW d, d.pc = pc, d.ip = ip, d.m = c.m, d.info = c.info, Progress(c, OnAddress(ip), b)
        PROVE  Progress(d, After(ip), b)
    <3>1. OnAddress(ip) = b
      BY <1>2, <2>1 DEF Progress, CreateProgress
    <3>2. /\ After(ip).svcs = b.svcs /\ After(ip).dests = b.dests
          /\ pc = "createPut" => After(ip).addrs = {ip}
          /\ pc = "addrAdd" => After(ip) = b /\ ip \notin b.addrs
      <4>1. b.svcs = {s \in svcs : s[1] = ip} /\ b.dests = {e \in dests : e[1][1] = ip} /\ b.addrs = addrs \cap {ip}
        BY <3>1 DEF OnAddress
      <4>2. After(ip).svcs = b.svcs /\ After(ip).dests = b.dests
        BY <1>2, <4>1 DEF After
      <4>3. pc = "createPut" => After(ip).addrs = {ip}
        BY <1>2 DEF After
      <4>4. pc = "addrAdd" => After(ip) = OnAddress(ip) /\ ip \notin b.addrs
        BY <1>2, <4>1 DEF After, OnAddress
      <4> QED
        BY <3>1, <4>2, <4>3, <4>4
    <3> QED
      BY <1>2, <2>1, <3>2 DEF Progress, CreateProgress, DeleteProgress, AddProgress, DelProgress, Deleting
  <2>2. (\A e \in dests' : e[1] \in svcs') /\ pc # "delService"
        /\ \E P \in {Storing, Adding, Removing} : c.pc \in P /\ pc \in P
    BY <1>1, <1>2 DEF Storing
  <2> QED
    BY <1>2, <2>1, <2>2, GotoSimulates
<1>3. CASE CreateAddrList(w)
  <2>1. CASE ip \notin Cidr /\ Refuse(w, c.n, "NotInCidr")
    <3>1. ASSUME Separate
          PROVE  Serial!Next
      <4>1. OnAddress(ip) = b /\ ~Exists(c.n) /\ up
        BY <1>1, <1>3, <3>1 DEF CreateAddrList, At, Storing, Separate, RecordKnown, Progress, CreateProgress,
                                Invariant, Slices
      <4>2. SameView
        BY <1>1, <2>1, <3>1, <4>1, EndsUndone DEF Refuse
      <4>3. Serial!Refuse(c.n, "NotInCidr") /\ ~Serial!Exists(c.n)
        BY <2>1, <4>1, <4>2, SameHelpers
           DEF Refuse, Return, kernel, SameView, Serial!Refuse, Serial!Answer, Serial!kernel
      <4>4. ip # NoIP /\ <<c.n, ip>> \in Requests
        BY <1>1, <2>1, ConfigAssumption DEF AddressOf, DynRange
      <4>5. Serial!Create(c.n, ip)
        BY <2>1, <4>1, <4>3, <4>4 DEF Serial!Create
      <4> QED
        BY <4>4, <4>5 DEF Serial!Next
    <3> QED
      BY <1>1, <2>1, <3>1, Ends DEF Refuse
  <2>2. ASSUME Goto(w, IF ip \in addrs THEN "createPut" ELSE "addrAdd"), UNCHANGED <<db, kernel>>
        PROVE  Simulates
    <3>1. CASE ip \in addrs
      BY <1>2, <1>3, <2>2, <3>1 DEF CreateAddrList, At, kernel
    <3>2. CASE ip \notin addrs
      BY <1>2, <1>3, <2>2, <3>2 DEF CreateAddrList, At, kernel
    <3> QED
      BY <3>1, <3>2
  <2> QED
    BY <1>3, <2>1, <2>2 DEF CreateAddrList
<1>4. CASE CreateAddrAdd(w)
  <2>1. c.pc = "addrAdd"
    BY <1>4 DEF CreateAddrAdd, At
  <2>2. CASE ip \in addrs /\ Refuse(w, c.n, "CallFailed")
    <3>1. ~Separate
      <4>1. ip \in OnAddress(ip).addrs
        BY <2>2 DEF OnAddress
      <4> QED
        BY <1>1, <2>1, <4>1 DEF Separate, Progress, CreateProgress
    <3> QED
      BY <1>1, <2>2, <3>1, Ends DEF Refuse
  <2>3. CASE addrs' = addrs \cup {ip} /\ Goto(w, "createPut") /\ UNCHANGED <<db, svcs, dests>>
    BY <1>2, <2>1, <2>3
  <2> QED
    BY <1>4, <2>2, <2>3 DEF CreateAddrAdd
<1>5. CASE CreatePut(w)
  <2>1. /\ c.pc = "createPut" /\ ip \in Cidr /\ Return(w, c.n, {}) /\ UNCHANGED kernel
        /\ db' = [db EXCEPT ![c.n] = [ip |-> ip, targets |-> {}]]
    BY <1>5 DEF CreatePut, At, Invariant, TypeInv, CallOK
  <2>2. ASSUME Separate
        PROVE  Serial!Next
    <3> DEFINE a == OnAddress(ip)
    <3>1. /\ RecordKnown(c) /\ Progress(c, a, b) /\ up /\ up' = up
          /\ reply' = [name |-> c.n, code |-> {}]
          /\ ViewTurns(ip, b, a)
      BY <1>1, <2>1, <2>2, EndView
    <3>2. a.addrs = {ip} /\ a.svcs = b.svcs /\ a.dests = b.dests
      BY <2>1, <3>1 DEF Progress, CreateProgress
    <3> HIDE DEF a, b
    <3>3. \A x : x \in SeenAddrs' <=> x \in SeenAddrs \cup {ip}
      BY <3>1, <3>2 DEF ViewTurns
    <3>4. \A s : s \in SeenSvcs' <=> s \in SeenSvcs
      BY <3>1, <3>2 DEF ViewTurns
    <3>5. \A e : e \in SeenDests' <=> e \in SeenDests
      BY <3>1, <3>2 DEF ViewTurns
    <3>6. SeenAddrs' = SeenAddrs \cup {ip} /\ SeenSvcs' = SeenSvcs /\ SeenDests' = SeenDests
      BY <3>3, <3>4, <3>5
    <3>7. Serial!StoreNew(c.n, ip)
      BY <2>1, <3>1, <3>6 DEF Serial!StoreNew, Serial!Answer
    <3>8. ~Serial!Exists(c.n)
      BY <1>1, <3>1, SameHelpers DEF RecordKnown
    <3>9. CASE ip \in DynRange
      <4>1. ip \in Serial!Allocate(SeenAddrs) /\ <<c.n, NoIP>> \in Requests
        BY <1>1, <2>2, <3>9, AutoName, SameHelpers DEF Separate, Hypotheses, Invariant
      <4>2. Serial!CreateAuto(c.n)
        BY <3>1, <3>7, <3>8, <4>1 DEF Serial!CreateAuto
      <4> QED
        BY <1>1, <4>1, <4>2 DEF Serial!Next
    <3>10. CASE ip \notin DynRange
      <4>1. ip # NoIP /\ <<c.n, ip>> \in Requests
        BY <1>1, <3>10 DEF AddressOf
      <4>2. Serial!Create(c.n, ip)
        BY <3>1, <3>7, <3>8, <4>1 DEF Serial!Create
      <4> QED
        BY <4>1, <4>2 DEF Serial!Next
    <3> QED
      BY <3>9, <3>10
  <2> QED
    BY <1>1, <2>1, <2>2, Ends
<1> QED
  BY <1>3, <1>4, <1>5

-----------------------------------------------------------------------------
(* AddTarget, seen from outside *)

LEMMA TargetAddress ==
  ASSUME Invariant, NEW w \in Workers, call[w].pc \in Adding \cup Removing
  PROVE  /\ call[w].pc \notin {"idle", "allocate"} /\ call[w].n \in Names /\ call[w].m \in Mapping
         /\ ServiceOf(call[w].info, call[w].m)[1] = call[w].ip
         /\ EntryOf(call[w].info, call[w].m)[1] = ServiceOf(call[w].info, call[w].m)
<1>1. /\ call[w].info \in LBInfo /\ call[w].info.ip # NoIP /\ call[w].m \in Mapping
      /\ call[w].info.ip = call[w].ip /\ call[w].n \in Names /\ call[w].pc \notin {"idle", "allocate"}
  BY DEF Invariant, TypeInv, CallOK, CallRecord, Origin, Adding, Removing
<1> QED
  BY <1>1, EntryType

LEMMA AddSimulates ==
  ASSUME Hypotheses, Invariant, TypeInv', NEW w \in Workers, Handler(w),
         AddIsServicePresent(w) \/ AddNewService(w) \/ AddNewDestination(w) \/ AddPut(w)
  PROVE  Simulates
<1> DEFINE c == call[w]
           n == call[w].n
           ip == call[w].ip
           b == before[w]
           a == OnAddress(call[w].ip)
           s == ServiceOf(call[w].info, call[w].m)
           e == EntryOf(call[w].info, call[w].m)
<1>1. /\ c.pc \in Adding /\ c.n \in Names /\ c.m \in Mapping
      /\ c.pc \notin {"idle", "allocate"} /\ KeepsTo(c.n, ip) /\ s[1] = ip /\ e[1] = s
      /\ \A x \in dests : x[1] \in svcs
  BY HandlerKeepsTo, TargetAddress
     DEF AddIsServicePresent, AddNewService, AddNewDestination, AddPut, At, Adding, Invariant, Slices
<1>2. a.addrs = addrs \cap {ip} /\ a.svcs = {x \in svcs : x[1] = ip} /\ a.dests = {x \in dests : x[1][1] = ip}
  BY DEF OnAddress
<1>3. ASSUME Progress(c, a, b)
      PROVE  AddProgress(c, a, b)
  BY <1>3 DEF Progress
<1>4. ASSUME NEW pc \in Adding, Goto(w, pc), db' = db, \A x \in dests' : x[1] \in svcs',
             \A d : d.pc = pc /\ d.m = c.m /\ d.info = c.info /\ AddProgress(c, a, b) => AddProgress(d, After(ip), b)
      PROVE  Simulates
  <2>1. \A d : d.pc = pc => CreateProgress(d, After(ip), b) /\ DeleteProgress(d, After(ip), b) /\ DelProgress(d, After(ip), b)
    BY DEF Adding, Deleting, CreateProgress, DeleteProgress, DelProgress
  <2>2. \A d : /\ d.pc = pc /\ d.ip = ip /\ d.m = c.m /\ d.info = c.info /\ Progress(c, a, b)
               => Progress(d, After(ip), b)
    BY <1>3, <1>4, <2>1 DEF Progress
  <2>3. pc # "delService" /\ \E P \in {Storing, Adding, Removing} : c.pc \in P /\ pc \in P
    BY <1>1 DEF Adding
  <2> HIDE DEF a
  <2> QED
    BY <1>4, <2>2, <2>3, GotoSimulates DEF a
<1>5. CASE AddIsServicePresent(w)
  <2>1. /\ c.pc = "isPresent" /\ UNCHANGED <<db, addrs, svcs, dests>>
        /\ Goto(w, IF s \in svcs THEN "newDest" ELSE "newService")
    BY <1>5 DEF AddIsServicePresent, At, kernel
  <2>2. After(ip) = a
    BY <2>1 DEF After, OnAddress
  <2>3. ASSUME NEW d, d.pc = IF s \in svcs THEN "newDest" ELSE "newService",
               d.m = c.m, d.info = c.info, AddProgress(c, a, b)
        PROVE  AddProgress(d, After(ip), b)
    <3>1. a = b
      BY <2>1, <2>3 DEF AddProgress
    <3> QED
      BY <1>1, <1>2, <2>2, <2>3, <3>1 DEF AddProgress
  <2> HIDE DEF a, b, s, e
  <2> QED
    BY <1>1, <1>4, <2>1, <2>3 DEF Adding
<1>6. CASE AddNewService(w)
  <2>1. c.pc = "newService"
    BY <1>6 DEF AddNewService, At
  <2>2. CASE s \in svcs /\ Refuse(w, n, "CallFailed")
    <3>1. ~Separate
      BY <1>1, <1>2, <2>1, <2>2 DEF Separate, Progress, AddProgress
    <3> QED
      BY <1>1, <2>2, <3>1, Ends DEF Refuse
  <2>3. CASE svcs' = svcs \cup {s} /\ Goto(w, "newDest") /\ UNCHANGED <<db, addrs, dests>>
    <3>1. After(ip).addrs = a.addrs /\ After(ip).svcs = a.svcs \cup {s} /\ After(ip).dests = a.dests
      BY <1>1, <1>2, <2>3 DEF After
    <3>2. ASSUME NEW d, d.pc = "newDest", d.m = c.m, d.info = c.info, AddProgress(c, a, b)
          PROVE  AddProgress(d, After(ip), b)
      BY <2>1, <3>1, <3>2 DEF AddProgress
    <3> HIDE DEF a, b, s, e
    <3> QED
      BY <1>1, <1>4, <2>3, <3>2 DEF Adding
  <2> QED
    BY <1>6, <2>2, <2>3 DEF AddNewService
<1>7. CASE AddNewDestination(w)
  <2>1. c.pc = "newDest"
    BY <1>7 DEF AddNewDestination, At
  <2>2. CASE (e \in dests \/ e[1] \notin svcs) /\ Refuse(w, n, "AddDestinationFailed")
    <3>1. Return(w, n, {"AddDestinationFailed"}) /\ UNCHANGED <<db, kernel>>
      BY <2>2 DEF Refuse
    <3>2. ASSUME Separate
          PROVE  Serial!Next
      <4>1. /\ RecordKnown(c) /\ Progress(c, a, b) /\ up /\ up' = up
            /\ reply' = [name |-> n, code |-> {"AddDestinationFailed"}] /\ ViewTurns(ip, b, a)
        BY <1>1, <3>1, <3>2, EndView
      <4>2. a.addrs = b.addrs /\ a.svcs = b.svcs \cup {s} /\ a.dests = b.dests
        BY <1>3, <2>1, <4>1 DEF AddProgress
      <4>3. e \in a.dests
        <5>1. s \in svcs
          BY <1>2, <4>2
        <5> QED
          BY <1>1, <1>2, <2>2, <5>1
      <4>4. Exists(n) /\ c.info = db[n] /\ c.m \notin db[n].targets
        BY <1>1, <4>1 DEF RecordKnown
      <4> HIDE DEF a, b
      <4>5. (\A x : x \in SeenAddrs' <=> x \in SeenAddrs) /\ (\A x : x \in SeenDests' <=> x \in SeenDests)
        BY <4>1, <4>2 DEF ViewTurns
      <4>6. \A x : x \in SeenSvcs' <=> x \in SeenSvcs \cup {s}
        BY <1>1, <4>1, <4>2 DEF ViewTurns
      <4>7. e \in SeenDests
        BY <1>1, <4>1, <4>2, <4>3 DEF ViewTurns
      <4>8. Serial!AddTarget(n, c.m)
        <5>1. SeenAddrs' = SeenAddrs /\ SeenDests' = SeenDests /\ SeenSvcs' = SeenSvcs \cup {s}
          BY <4>5, <4>6
        <5>2. /\ Serial!Exists(n) /\ Serial!ServiceOf(db[n], c.m) = s /\ Serial!EntryOf(db[n], c.m) = e
          BY <4>4, SameHelpers
        <5> HIDE DEF s, e
        <5> QED
          BY <3>1, <4>1, <4>4, <4>7, <5>1, <5>2 DEF Serial!AddTarget, Serial!Answer
      <4> QED
        BY <1>1, <4>8, SameHelpers DEF Serial!Next
    <3> QED
      BY <1>1, <3>1, <3>2, Ends
  <2>3. CASE e \notin dests /\ e[1] \in svcs /\ dests' = dests \cup {e} /\ Goto(w, "addPut") /\ UNCHANGED <<db, addrs, svcs>>
    <3>1. After(ip).addrs = a.addrs /\ After(ip).svcs = a.svcs /\ After(ip).dests = a.dests \cup {e}
      BY <1>1, <1>2, <2>3 DEF After
    <3>2. ASSUME NEW d, d.pc = "addPut", d.m = c.m, d.info = c.info, AddProgress(c, a, b)
          PROVE  AddProgress(d, After(ip), b)
      <4>1. a.addrs = b.addrs /\ a.svcs = b.svcs \cup {s} /\ a.dests = b.dests /\ e \notin b.dests
        BY <1>2, <2>1, <2>3, <3>2 DEF AddProgress
      <4> QED
        BY <3>1, <3>2, <4>1 DEF AddProgress
    <3> HIDE DEF a, b, s, e
    <3> QED
      BY <1>1, <1>4, <2>3, <3>2 DEF Adding
  <2> QED
    BY <1>7, <2>2, <2>3 DEF AddNewDestination
<1>8. CASE AddPut(w)
  <2>1. /\ c.pc = "addPut" /\ Return(w, n, {}) /\ UNCHANGED kernel
        /\ db' = [db EXCEPT ![n] = [c.info EXCEPT !.targets = @ \cup {c.m}]]
    BY <1>8 DEF AddPut, At
  <2>2. ASSUME Separate
        PROVE  Serial!Next
    <3>1. /\ RecordKnown(c) /\ Progress(c, a, b) /\ up /\ up' = up
          /\ reply' = [name |-> n, code |-> {}] /\ ViewTurns(ip, b, a)
      BY <1>1, <2>1, <2>2, EndView
    <3>2. a.addrs = b.addrs /\ a.svcs = b.svcs \cup {s} /\ a.dests = b.dests \cup {e} /\ e \notin b.dests
      BY <1>3, <2>1, <3>1 DEF AddProgress
    <3>3. Exists(n) /\ c.info = db[n] /\ c.m \notin db[n].targets
      BY <1>1, <3>1 DEF RecordKnown
    <3> HIDE DEF a, b
    <3>4. \A x : x \in SeenAddrs' <=> x \in SeenAddrs
      BY <3>1, <3>2 DEF ViewTurns
    <3>5. \A x : x \in SeenSvcs' <=> x \in SeenSvcs \cup {s}
      BY <1>1, <3>1, <3>2 DEF ViewTurns
    <3>6. \A x : x \in SeenDests' <=> x \in SeenDests \cup {e}
      BY <1>1, <3>1, <3>2 DEF ViewTurns
    <3>7. e \notin SeenDests
      BY <1>1, <3>1, <3>2 DEF ViewTurns
    <3>8. Serial!AddTarget(n, c.m)
      <4>1. SeenAddrs' = SeenAddrs /\ SeenDests' = SeenDests \cup {e} /\ SeenSvcs' = SeenSvcs \cup {s}
        BY <3>4, <3>5, <3>6
      <4>2. /\ Serial!Exists(n) /\ Serial!ServiceOf(db[n], c.m) = s /\ Serial!EntryOf(db[n], c.m) = e
        BY <3>3, SameHelpers
      <4>3. db' = [db EXCEPT ![n].targets = @ \cup {c.m}]
        BY <2>1, <3>3
      <4> HIDE DEF s, e
      <4> QED
        BY <3>1, <3>3, <3>7, <4>1, <4>2, <4>3 DEF Serial!AddTarget, Serial!Answer
    <3> QED
      BY <1>1, <3>8, SameHelpers DEF Serial!Next
  <2> QED
    BY <1>1, <2>1, <2>2, Ends
<1> QED
  BY <1>5, <1>6, <1>7, <1>8

-----------------------------------------------------------------------------
(* DelTarget, seen from outside *)

LEMMA DelSimulates ==
  ASSUME Hypotheses, Invariant, TypeInv', NEW w \in Workers, Handler(w),
         DelDestination(w) \/ DelService(w) \/ DelPut(w)
  PROVE  Simulates
<1> DEFINE c == call[w]
           n == call[w].n
           ip == call[w].ip
           b == before[w]
           a == OnAddress(call[w].ip)
           s == ServiceOf(call[w].info, call[w].m)
           e == EntryOf(call[w].info, call[w].m)
           last == LastOnPort(call[w].info, call[w].m)
<1>1. /\ c.pc \in Removing /\ c.n \in Names /\ c.m \in Mapping
      /\ c.pc \notin {"idle", "allocate"} /\ KeepsTo(c.n, ip) /\ s[1] = ip /\ e[1] = s
      /\ \A x \in dests : x[1] \in svcs
  BY HandlerKeepsTo, TargetAddress
     DEF DelDestination, DelService, DelPut, At, Removing, Invariant, Slices
<1>2. a.addrs = addrs \cap {ip} /\ a.svcs = {x \in svcs : x[1] = ip} /\ a.dests = {x \in dests : x[1][1] = ip}
  BY DEF OnAddress
<1>3. ASSUME Progress(c, a, b)
      PROVE  DelProgress(c, a, b)
  BY <1>3 DEF Progress
<1>4. ASSUME NEW pc \in Removing, Goto(w, pc), db' = db, \A x \in dests' : x[1] \in svcs', pc = "delService" => last,
             \A d : d.pc = pc /\ d.m = c.m /\ d.info = c.info /\ DelProgress(c, a, b) => DelProgress(d, After(ip), b)
      PROVE  Simulates
  <2>1. \A d : d.pc = pc => CreateProgress(d, After(ip), b) /\ DeleteProgress(d, After(ip), b) /\ AddProgress(d, After(ip), b)
    BY DEF Removing, Deleting, CreateProgress, DeleteProgress, AddProgress
  <2>2. \A d : /\ d.pc = pc /\ d.ip = ip /\ d.m = c.m /\ d.info = c.info /\ Progress(c, a, b)
               => Progress(d, After(ip), b)
    BY <1>3, <1>4, <2>1 DEF Progress
  <2>3. \E P \in {Storing, Adding, Removing} : c.pc \in P /\ pc \in P
    BY <1>1
  <2> HIDE DEF a
  <2> QED
    BY <1>4, <2>2, <2>3, GotoSimulates DEF a
<1>5. CASE DelDestination(w)
  <2>1. c.pc = "delDest"
    BY <1>5 DEF DelDestination, At
  <2>2. CASE e \notin dests /\ Refuse(w, n, "DelDestinationFailed")
    <3>1. Return(w, n, {"DelDestinationFailed"}) /\ UNCHANGED <<db, kernel>>
      BY <2>2 DEF Refuse
    <3>2. ASSUME Separate
          PROVE  Serial!Next
      <4>1. /\ RecordKnown(c) /\ Progress(c, a, b) /\ up /\ up' = up
            /\ reply' = [name |-> n, code |-> {"DelDestinationFailed"}] /\ ViewTurns(ip, b, a)
        BY <1>1, <3>1, <3>2, EndView
      <4>2. a = b
        BY <1>3, <2>1, <4>1 DEF DelProgress
      <4>3. SameView
        BY <1>1, <3>1, <3>2, <4>2, EndsUndone
      <4>4. e \notin a.dests
        BY <1>2, <2>2
      <4>5. Exists(n) /\ c.info = db[n] /\ c.m \in db[n].targets
        BY <1>1, <4>1 DEF RecordKnown
      <4> HIDE DEF a, b
      <4>6. e \notin SeenDests
        BY <1>1, <4>1, <4>2, <4>4 DEF ViewTurns
      <4>7. Serial!DelTarget(n, c.m)
        <5>1. Serial!Exists(n) /\ Serial!EntryOf(db[n], c.m) = e
          BY <4>5, SameHelpers
        <5>2. Serial!Refuse(n, "DelDestinationFailed")
          BY <3>1, <4>1, <4>3 DEF SameView, Serial!Refuse, Serial!Answer, Serial!kernel
        <5> HIDE DEF s, e
        <5> QED
          BY <4>1, <4>5, <4>6, <5>1, <5>2 DEF Serial!DelTarget
      <4> QED
        BY <1>1, <4>7, SameHelpers DEF Serial!Next
    <3> QED
      BY <1>1, <3>1, <3>2, Ends
  <2>3. CASE e \in dests /\ dests' = dests \ {e} /\ Goto(w, IF last THEN "delService" ELSE "delPut") /\ UNCHANGED <<db, addrs, svcs>>
    <3>1. After(ip).addrs = a.addrs /\ After(ip).svcs = a.svcs /\ After(ip).dests = a.dests \ {e}
      BY <1>2, <2>3 DEF After
    <3>2. s \in a.svcs /\ e \in a.dests
      BY <1>1, <1>2, <2>3
    <3>3. ASSUME NEW d, d.pc = IF last THEN "delService" ELSE "delPut",
                 d.m = c.m, d.info = c.info, DelProgress(c, a, b)
          PROVE  DelProgress(d, After(ip), b)
      <4>1. a = b
        BY <2>1, <3>3 DEF DelProgress
      <4> QED
        BY <3>1, <3>2, <3>3, <4>1 DEF DelProgress
    <3> HIDE DEF a, b, s, e, last
    <3> QED
      BY <1>1, <1>4, <2>3, <3>3 DEF Removing
  <2> QED
    BY <1>5, <2>2, <2>3 DEF DelDestination
<1>6. CASE DelService(w)
  <2>1. c.pc = "delService"
    BY <1>6 DEF DelService, At
  <2>2. CASE s \notin svcs /\ Refuse(w, n, "DelDestinationFailed")
    <3>1. ~Separate
      BY <1>1, <1>2, <2>1, <2>2 DEF Separate, Progress, DelProgress
    <3> QED
      BY <1>1, <2>2, <3>1, Ends DEF Refuse
  <2>3. CASE svcs' = svcs \ {s} /\ dests' = WithoutServices(dests, {s}) /\ Goto(w, "delPut") /\ UNCHANGED <<db, addrs>>
    <3>1. /\ After(ip).addrs = a.addrs /\ After(ip).svcs = a.svcs \ {s}
          /\ After(ip).dests = WithoutServices(a.dests, {s})
      BY <1>2, <2>3 DEF After, WithoutServices
    <3>2. ASSUME NEW d, d.pc = "delPut", d.m = c.m, d.info = c.info, DelProgress(c, a, b)
          PROVE  DelProgress(d, After(ip), b)
      <4>1. a.addrs = b.addrs /\ a.svcs = b.svcs /\ a.dests = b.dests \ {e} /\ last /\ e \in b.dests
        BY <2>1, <3>2 DEF DelProgress
      <4>2. WithoutServices(a.dests, {s}) = WithoutServices(b.dests, {s})
        BY <1>1, <4>1 DEF WithoutServices
      <4> QED
        BY <3>1, <3>2, <4>1, <4>2 DEF DelProgress
    <3>3. \A x \in dests' : x[1] \in svcs'
      BY <1>1, <2>3 DEF WithoutServices
    <3> HIDE DEF a, b, s, e, last
    <3> QED
      BY <1>1, <1>4, <2>3, <3>2, <3>3 DEF Removing
  <2> QED
    BY <1>6, <2>2, <2>3 DEF DelService
<1>7. CASE DelPut(w)
  <2>1. /\ c.pc = "delPut" /\ Return(w, n, {}) /\ UNCHANGED kernel
        /\ db' = [db EXCEPT ![n] = [c.info EXCEPT !.targets = @ \ {c.m}]]
    BY <1>7 DEF DelPut, At
  <2>2. ASSUME Separate
        PROVE  Serial!Next
    <3>1. /\ RecordKnown(c) /\ Progress(c, a, b) /\ up /\ up' = up
          /\ reply' = [name |-> n, code |-> {}] /\ ViewTurns(ip, b, a)
      BY <1>1, <2>1, <2>2, EndView
    <3>2. /\ a.addrs = b.addrs /\ e \in b.dests
          /\ last => a.svcs = b.svcs \ {s} /\ a.dests = WithoutServices(b.dests, {s})
          /\ ~last => a.svcs = b.svcs /\ a.dests = b.dests \ {e}
      BY <1>3, <2>1, <3>1 DEF DelProgress
    <3>3. Exists(n) /\ c.info = db[n] /\ c.m \in db[n].targets
      BY <1>1, <3>1 DEF RecordKnown
    <3> HIDE DEF a, b
    <3>4. SeenAddrs' = SeenAddrs
      BY <3>1, <3>2 DEF ViewTurns
    <3>5. e \in SeenDests
      BY <1>1, <3>1, <3>2 DEF ViewTurns
    <3>6. last => SeenSvcs' = SeenSvcs \ {s} /\ SeenDests' = WithoutServices(SeenDests, {s})
      BY <1>1, <3>1, <3>2 DEF ViewTurns, WithoutServices
    <3>7. ~last => SeenSvcs' = SeenSvcs /\ SeenDests' = SeenDests \ {e}
      BY <1>1, <3>1, <3>2 DEF ViewTurns
    <3>8. Serial!DelTarget(n, c.m)
      <4>1. /\ Serial!Exists(n) /\ Serial!ServiceOf(db[n], c.m) = s /\ Serial!EntryOf(db[n], c.m) = e
            /\ Serial!LastOnPort(db[n], c.m) <=> last
            /\ Serial!WithoutServices(SeenDests, {s}) = WithoutServices(SeenDests, {s})
        BY <3>3, SameHelpers
      <4>2. db' = [db EXCEPT ![n].targets = @ \ {c.m}]
        BY <2>1, <3>3
      <4> HIDE DEF s, e, last
      <4> QED
        BY <3>1, <3>3, <3>4, <3>5, <3>6, <3>7, <4>1, <4>2 DEF Serial!DelTarget, Serial!Answer
    <3> QED
      BY <1>1, <3>8, SameHelpers DEF Serial!Next
  <2> QED
    BY <1>1, <2>1, <2>2, Ends
<1> QED
  BY <1>5, <1>6, <1>7

-----------------------------------------------------------------------------
(* Delete, seen from outside *)

(* One more service is gone.                                               *)
LEMMA OneMoreGone ==
  ASSUME NEW c, NEW d, NEW pp \in c.todo, c.todo \subseteq PortsOf(c.info),
         d.todo = c.todo \ {pp}, d.info = c.info, d.ip = c.ip
  PROVE  /\ Gone(d) = Gone(c) \cup {ServiceAt(c, pp)}
         /\ \A S : ServiceMissed(d, S) <=>
              ServiceMissed(c, S) \/ ServiceAt(c, pp) \notin S \/ ServiceAt(c, pp) \in Gone(c)
<1>1. Passed(d) = Passed(c) \cup {pp} /\ pp \notin Passed(c)
  BY DEF Passed
<1>2. \A p : ServiceAt(d, p) = ServiceAt(c, p)
  BY DEF ServiceAt
<1>3. \A s : s \in Gone(c) <=> \E p \in Passed(c) : ServiceAt(c, p) = s
  BY DEF Gone
<1>4. Gone(d) = Gone(c) \cup {ServiceAt(c, pp)}
  BY <1>1, <1>2, <1>3 DEF Gone
<1>5. ASSUME NEW S
      PROVE  ServiceMissed(d, S) <=>
               ServiceMissed(c, S) \/ ServiceAt(c, pp) \notin S \/ ServiceAt(c, pp) \in Gone(c)
  BY <1>1, <1>2, <1>3 DEF ServiceMissed
<1> QED
  BY <1>4, <1>5

(* When none is left, all services of the record are.                      *)
LEMMA AllGone ==
  ASSUME NEW c, c.todo = {}, c.ip = c.info.ip
  PROVE  /\ Gone(c) = ServicesOf(c.info)
         /\ \A S : ServiceMissed(c, S) <=> SomeDelServiceFails(c.info, S)
<1>1. Passed(c) = PortsOf(c.info)
  BY DEF Passed
<1>2. \A m : ServiceAt(c, <<m.port, m.proto>>) = ServiceOf(c.info, m)
  BY DEF ServiceAt, ServiceOf
<1>3. Gone(c) = ServicesOf(c.info)
  BY <1>1, <1>2 DEF Gone, PortsOf, ServicesOf
<1>4. \A m, k : ServiceOf(c.info, m) = ServiceOf(c.info, k) => m.proto = k.proto
  BY DEF ServiceOf, toIPVSService
<1>5. ASSUME NEW S
      PROVE  ServiceMissed(c, S) <=> SomeDelServiceFails(c.info, S)
  <2>1. ASSUME ServiceMissed(c, S)
        PROVE  SomeDelServiceFails(c.info, S)
    <3>1. PICK m \in c.info.targets :
            \/ ServiceOf(c.info, m) \notin S
            \/ \E k \in c.info.targets : <<k.port, k.proto>> # <<m.port, m.proto>> /\ ServiceOf(c.info, k) = ServiceOf(c.info, m)
      BY <1>1, <1>2, <2>1 DEF ServiceMissed, PortsOf
    <3> QED
      BY <1>4, <3>1 DEF SomeDelServiceFails
  <2>2. ASSUME SomeDelServiceFails(c.info, S)
        PROVE  ServiceMissed(c, S)
    <3>1. PICK m \in c.info.targets :
            \/ ServiceOf(c.info, m) \notin S
            \/ \E k \in c.info.targets : k.port # m.port /\ ServiceOf(c.info, k) = ServiceOf(c.info, m)
      BY <2>2 DEF SomeDelServiceFails
    <3>2. \A k \in c.info.targets : <<k.port, k.proto>> \in Passed(c)
      BY <1>1 DEF PortsOf
    <3> QED
      BY <1>2, <3>1, <3>2 DEF ServiceMissed
  <2> QED
    BY <2>1, <2>2
<1> QED
  BY <1>3, <1>5

LEMMA DeleteSimulates ==
  ASSUME Hypotheses, Invariant, TypeInv', NEW w \in Workers, Handler(w),
         DeleteService(w) \/ DeleteAddr(w) \/ DeleteRecord(w)
  PROVE  Simulates
<1> DEFINE c == call[w]
           n == call[w].n
           ip == call[w].ip
           b == before[w]
           a == OnAddress(call[w].ip)
<1>1. /\ c.pc \in Deleting /\ c.n \in Names /\ c \in CallRecord /\ call \in [Workers -> CallRecord]
      /\ c.pc \notin {"idle", "allocate"} /\ KeepsTo(c.n, ip)
      /\ \A x \in dests : x[1] \in svcs
  BY HandlerKeepsTo DEF DeleteService, DeleteAddr, DeleteRecord, At, Deleting, Invariant, TypeInv, CallOK, Slices
<1>2. a.addrs = addrs \cap {ip} /\ a.svcs = {x \in svcs : x[1] = ip} /\ a.dests = {x \in dests : x[1][1] = ip}
  BY DEF OnAddress
<1>3. ASSUME Progress(c, a, b)
      PROVE  DeleteProgress(c, a, b)
  BY <1>3 DEF Progress
<1>4. ASSUME NEW d, call' = [call EXCEPT ![w] = d], UNCHANGED <<before, db, up, reply, apart>>,
             d.n = n, d.ip = ip, d.m = c.m, d.info = c.info, d.pc \in Deleting,
             \A x \in dests' : x[1] \in svcs',
             DeleteProgress(c, a, b) => DeleteProgress(d, After(ip), b)
      PROVE  Simulates
  <2>1. CreateProgress(d, After(ip), b) /\ AddProgress(d, After(ip), b) /\ DelProgress(d, After(ip), b)
    BY <1>4 DEF Deleting, CreateProgress, AddProgress, DelProgress
  <2>2. Progress(c, a, b) => Progress(d, After(ip), b)
    BY <1>3, <1>4, <2>1 DEF Progress
  <2>3. d.pc # "delService" /\ \E P \in {Storing, Deleting, Adding, Removing} : c.pc \in P /\ d.pc \in P
    BY <1>1, <1>4 DEF Deleting
  <2> QED
    BY <1>1, <1>4, <2>2, <2>3, GoesOn
<1>5. CASE DeleteService(w)
  <2>1. c.pc = "delServices" /\ UNCHANGED <<db, addrs, up, reply, before, apart>>
    BY <1>5 DEF DeleteService, At
  <2>2. PICK pp \in c.todo :
          /\ svcs' = svcs \ {ServiceAt(c, pp)}
          /\ dests' = WithoutServices(dests, {ServiceAt(c, pp)})
          /\ call' = [call EXCEPT ![w].todo = @ \ {pp},
                                  ![w].errs = @ \cup (IF ServiceAt(c, pp) \in svcs THEN {} ELSE {"NoSuchService"})]
    BY <1>5 DEF DeleteService, ServiceAt
  <2> DEFINE s == ServiceAt(c, pp)
             new == IF s \in svcs THEN {} ELSE {"NoSuchService"}
             d == [c EXCEPT !.todo = @ \ {pp}, !.errs = @ \cup new]
  <2>3. /\ d.n = n /\ d.ip = ip /\ d.m = c.m /\ d.info = c.info /\ d.pc = "delServices"
        /\ d.todo = c.todo \ {pp} /\ d.errs = c.errs \cup new
    BY <1>1, <2>1 DEF CallRecord
  <2>4. call' = [call EXCEPT ![w] = d]
    BY <1>1, <2>2
  <2>5. s[1] = ip
    BY DEF ServiceAt, toIPVSService
  <2> HIDE DEF d
  <2>6. /\ After(ip).addrs = a.addrs /\ After(ip).svcs = a.svcs \ {s}
        /\ After(ip).dests = WithoutServices(a.dests, {s})
    BY <1>2, <2>1, <2>2 DEF After, WithoutServices
  <2>7. s \in svcs <=> s \in a.svcs
    BY <1>2, <2>5
  <2>8. ASSUME DeleteProgress(c, a, b)
        PROVE  DeleteProgress(d, After(ip), b)
    <3>1. /\ c.todo \subseteq PortsOf(c.info)
          /\ a.svcs = b.svcs \ Gone(c)
          /\ a.dests = WithoutServices(b.dests, Gone(c))
          /\ c.errs \subseteq {"NoSuchService", "NoSuchIP"}
          /\ "NoSuchService" \in c.errs <=> ServiceMissed(c, b.svcs)
          /\ a.addrs = b.addrs /\ "NoSuchIP" \notin c.errs
      BY <1>1, <2>1, <2>8 DEF DeleteProgress
    <3>2. /\ Gone(d) = Gone(c) \cup {s}
          /\ ServiceMissed(d, b.svcs) <=> ServiceMissed(c, b.svcs) \/ s \notin b.svcs \/ s \in Gone(c)
      BY <2>3, <3>1, OneMoreGone
    <3> HIDE DEF c, a, b, s
    <3>3. After(ip).svcs = b.svcs \ Gone(d) /\ After(ip).dests = WithoutServices(b.dests, Gone(d))
      BY <2>6, <3>1, <3>2 DEF WithoutServices
    <3>4. "NoSuchService" \in d.errs <=> ServiceMissed(d, b.svcs)
      BY <2>3, <2>7, <3>1, <3>2
    <3>5. d.todo \subseteq PortsOf(d.info) /\ d.errs \subseteq {"NoSuchService", "NoSuchIP"} /\ "NoSuchIP" \notin d.errs
      BY <2>3, <3>1
    <3> QED
      BY <2>3, <2>6, <3>1, <3>3, <3>4, <3>5 DEF DeleteProgress
  <2>9. \A x \in dests' : x[1] \in svcs'
    BY <1>1, <2>2 DEF WithoutServices
  <2> HIDE DEF c, a, b, s, new
  <2> QED
    BY <1>4, <2>1, <2>3, <2>4, <2>8, <2>9 DEF Deleting, c
<1>6. CASE DeleteAddr(w)
  <2> DEFINE new == IF ip \in addrs THEN {} ELSE {"NoSuchIP"}
             d == [c EXCEPT !.pc = "dbDelete", !.errs = @ \cup new]
  <2>1. /\ c.pc = "delServices" /\ c.todo = {} /\ addrs' = addrs \ {ip}
        /\ call' = [call EXCEPT ![w].pc = "dbDelete", ![w].errs = @ \cup new]
        /\ UNCHANGED <<db, svcs, dests, up, reply, before, apart>>
    BY <1>6 DEF DeleteAddr, At
  <2>2. /\ d.n = n /\ d.ip = ip /\ d.m = c.m /\ d.info = c.info /\ d.pc = "dbDelete"
        /\ d.todo = {} /\ d.errs = c.errs \cup new
    BY <1>1, <2>1 DEF CallRecord
  <2>3. call' = [call EXCEPT ![w] = d]
    BY <1>1, <2>1
  <2> HIDE DEF d
  <2>4. After(ip).addrs = {} /\ After(ip).svcs = a.svcs /\ After(ip).dests = a.dests
    BY <1>2, <2>1 DEF After
  <2>5. ip \in addrs <=> ip \in a.addrs
    BY <1>2
  <2>6. ASSUME DeleteProgress(c, a, b)
        PROVE  DeleteProgress(d, After(ip), b)
    <3>1. /\ a.svcs = b.svcs \ Gone(c)
          /\ a.dests = WithoutServices(b.dests, Gone(c))
          /\ c.errs \subseteq {"NoSuchService", "NoSuchIP"}
          /\ "NoSuchService" \in c.errs <=> ServiceMissed(c, b.svcs)
          /\ a.addrs = b.addrs /\ "NoSuchIP" \notin c.errs
      BY <1>1, <2>1, <2>6 DEF DeleteProgress
    <3>2. Gone(d) = Gone(c) /\ (ServiceMissed(d, b.svcs) <=> ServiceMissed(c, b.svcs))
      BY <2>1, <2>2 DEF Gone, Passed, ServiceMissed, ServiceAt
    <3>3. "NoSuchIP" \in d.errs <=> d.ip \notin b.addrs
      BY <2>2, <2>5, <3>1
    <3>4. d.errs \subseteq {"NoSuchService", "NoSuchIP"} /\ ("NoSuchService" \in d.errs <=> "NoSuchService" \in c.errs)
      BY <2>2, <3>1
    <3> HIDE DEF c, a, b, new
    <3> QED
      BY <2>2, <2>4, <3>1, <3>2, <3>3, <3>4 DEF DeleteProgress
  <2>7. \A x \in dests' : x[1] \in svcs'
    BY <1>1, <2>1
  <2> HIDE DEF c, a, b, new
  <2> QED
    BY <1>4, <2>1, <2>2, <2>3, <2>6, <2>7 DEF Deleting, c
<1>7. CASE DeleteRecord(w)
  <2>1. /\ c.pc = "dbDelete" /\ Return(w, n, c.errs) /\ UNCHANGED kernel
        /\ db' = [db EXCEPT ![n] = NoLB]
    BY <1>7 DEF DeleteRecord, At
  <2>2. ASSUME Separate
        PROVE  Serial!Next
    <3>1. /\ RecordKnown(c) /\ Progress(c, a, b) /\ up /\ up' = up
          /\ reply' = [name |-> n, code |-> c.errs] /\ ViewTurns(ip, b, a)
      BY <1>1, <2>1, <2>2, EndView
    <3>2. /\ a.svcs = b.svcs \ Gone(c)
          /\ a.dests = WithoutServices(b.dests, Gone(c))
          /\ c.errs \subseteq {"NoSuchService", "NoSuchIP"}
          /\ "NoSuchService" \in c.errs <=> ServiceMissed(c, b.svcs)
          /\ a.addrs = {} /\ c.todo = {} /\ ("NoSuchIP" \in c.errs <=> ip \notin b.addrs)
      BY <1>1, <1>3, <2>1, <3>1 DEF DeleteProgress
    <3>3. Exists(n) /\ c.info = db[n] /\ ip = db[n].ip
      BY <1>1, <3>1 DEF RecordKnown
    <3>4. /\ Gone(c) = ServicesOf(db[n])
          /\ ServiceMissed(c, b.svcs) <=> SomeDelServiceFails(db[n], b.svcs)
      BY <3>2, <3>3, AllGone
    <3>5. \A s \in ServicesOf(db[n]) : s[1] = ip
      BY <3>3 DEF ServicesOf, ServiceOf, toIPVSService
    <3>6. \A s \in ServicesOf(db[n]) : s \in b.svcs <=> s \in SeenSvcs
      BY <3>1, <3>5 DEF ViewTurns
    <3>7. SomeDelServiceFails(db[n], b.svcs) <=> SomeDelServiceFails(db[n], SeenSvcs)
      BY <3>6 DEF SomeDelServiceFails, ServicesOf
    <3>8. "NoSuchIP" \in c.errs <=> db[n].ip \notin SeenAddrs
      BY <3>1, <3>2, <3>3 DEF ViewTurns
    <3>9. "NoSuchService" \in c.errs <=> SomeDelServiceFails(db[n], SeenSvcs)
      BY <3>2, <3>4, <3>7
    <3> HIDE DEF a, b
    <3>10. SeenAddrs' = SeenAddrs \ {db[n].ip}
      BY <3>1, <3>2, <3>3 DEF ViewTurns
    <3>11. SeenSvcs' = SeenSvcs \ ServicesOf(db[n])
      <4>1. \A s : s \in SeenSvcs' <=> s \in SeenSvcs \ ServicesOf(db[n])
        BY <3>1, <3>2, <3>4, <3>5 DEF ViewTurns
      <4> QED
        BY <4>1
    <3>12. SeenDests' = WithoutServices(SeenDests, ServicesOf(db[n]))
      <4>1. \A e : e \in SeenDests' <=> e \in SeenDests /\ e[1] \notin ServicesOf(db[n])
        BY <3>1, <3>2, <3>4, <3>5 DEF ViewTurns, WithoutServices
      <4> QED
        BY <4>1 DEF WithoutServices
    <3>13. c.errs = Serial!DeleteErrors(db[n])
      <4>1. Serial!SomeDelServiceFails(db[n], SeenSvcs) <=> SomeDelServiceFails(db[n], SeenSvcs)
        BY SameHelpers DEF Serial!SomeDelServiceFails, SomeDelServiceFails
      <4> QED
        BY <3>2, <3>8, <3>9, <4>1 DEF Serial!DeleteErrors
    <3>14. Serial!Delete(n)
      <4>1. /\ Serial!Exists(n) /\ Serial!ServicesOf(db[n]) = ServicesOf(db[n]) /\ Serial!NoLB = NoLB
            /\ Serial!WithoutServices(SeenDests, ServicesOf(db[n])) = WithoutServices(SeenDests, ServicesOf(db[n]))
        BY <3>3, SameHelpers
      <4> QED
        BY <2>1, <3>1, <3>10, <3>11, <3>12, <3>13, <4>1 DEF Serial!Delete, Serial!Answer
    <3> QED
      BY <1>1, <3>14 DEF Serial!Next
  <2> QED
    BY <1>1, <2>1, <2>2, Ends
<1> QED
  BY <1>5, <1>6, <1>7

-----------------------------------------------------------------------------
(* Stop, reboot and restart, seen from outside *)

(* Between stop and restart no handler is under way, and all is seen as it *)
(* is.                                                                     *)
LEMMA AtRest ==
  ASSUME Invariant, Quiet \/ ~up
  PROVE  /\ Quiet /\ \A w \in Workers : call[w].ip = NoIP /\ before[w] = NoSlice
         /\ SeenAddrs = addrs /\ SeenSvcs = svcs /\ SeenDests = dests
<1>1. \A w \in Workers : call[w].pc = "idle"
  BY DEF Quiet, Invariant, Slices
<1>2. \A w \in Workers : call[w].ip = NoIP /\ before[w] = NoSlice
  BY <1>1 DEF Invariant, Slices
<1> QED
  BY <1>1, <1>2, SeenAtRest DEF Quiet, Invariant

LEMMA AtRestNext ==
  ASSUME TypeInv', \A w \in Workers : call'[w].pc = "idle" /\ call'[w].ip = NoIP,
         before' \in [Workers -> Slice], \A w \in Workers : before'[w] = NoSlice,
         \A e \in dests' : e[1] \in svcs'
  PROVE  /\ Slices' /\ Separate'
         /\ SeenAddrs' = addrs' /\ SeenSvcs' = svcs' /\ SeenDests' = dests'
<1>1. Slices'
  BY DEF Slices, NoSlice
<1>2. Separate'
  BY DEF Separate, RecordKnown, Storing, Deleting, Adding, Removing
<1> QED
  BY <1>1, <1>2, SeenAtRestNext

LEMMA HaltSimulates ==
  ASSUME Hypotheses, Invariant, TypeInv', Crash \/ Reboot
  PROVE  Simulates
<1>1. Quiet /\ up' = FALSE /\ UNCHANGED <<db, reply, apart>>
  BY DEF Hypotheses, Crash, Reboot, Halt
<1>2. SeenAddrs = addrs /\ SeenSvcs = svcs /\ SeenDests = dests
  BY <1>1, AtRest
<1>3. /\ Slices' /\ Separate'
      /\ SeenAddrs' = addrs' /\ SeenSvcs' = svcs' /\ SeenDests' = dests'
  <2>1. /\ call' = [w \in Workers |-> Idle] /\ before' = [w \in Workers |-> NoSlice]
        /\ Idle.pc = "idle" /\ Idle.ip = NoIP /\ NoSlice \in Slice
    BY DEF Crash, Reboot, Halt, Idle, NoSlice, Slice
  <2>2. \A e \in dests' : e[1] \in svcs'
    BY DEF Crash, Reboot, kernel, Invariant, Slices
  <2> HIDE DEF Idle, NoSlice
  <2> QED
    BY <2>1, <2>2, AtRestNext
<1>4. Crash => Serial!Stop
  BY <1>1, <1>2, <1>3 DEF Crash, kernel, Serial!Stop, Serial!kernel
<1>5. Reboot => Serial!Reboot
  BY <1>1, <1>3 DEF Reboot, Serial!Reboot
<1> QED
  BY <1>3, <1>4, <1>5 DEF Simulates, Apart, Serial!Next

LEMMA RestoreSimulates ==
  ASSUME Hypotheses, Invariant, TypeInv', Restore
  PROVE  Simulates
<1>1. /\ ~up /\ up' = TRUE /\ UNCHANGED <<db, call, before, apart>>
      /\ reply' = [name |-> NoIP, code |-> {}]
      /\ addrs' = addrs \cup {db[n].ip : n \in Stored}
      /\ svcs' = svcs \cup {e[1] : e \in Recorded(Stored)}
      /\ dests' = dests \cup Recorded(Stored)
  BY DEF Restore, Restored
<1>2. /\ Quiet /\ \A w \in Workers : call[w].ip = NoIP /\ before[w] = NoSlice
      /\ SeenAddrs = addrs /\ SeenSvcs = svcs /\ SeenDests = dests
  BY <1>1, AtRest
<1>3. /\ Slices' /\ Separate'
      /\ SeenAddrs' = addrs' /\ SeenSvcs' = svcs' /\ SeenDests' = dests'
  <2>1. \A e \in dests' : e[1] \in svcs'
    BY <1>1 DEF Invariant, Slices
  <2>2. before \in [Workers -> Slice] /\ \A w \in Workers : call[w].pc = "idle"
    BY <1>2 DEF Invariant, Slices, Quiet
  <2> QED
    BY <1>1, <1>2, <2>1, <2>2, AtRestNext
<1>4. {e[1] : e \in Recorded(Stored)} = UNION {ServicesOf(db[n]) : n \in Stored}
  <2>1. \A n, m : EntryOf(db[n], m)[1] = ServiceOf(db[n], m)
    BY DEF EntryOf
  <2>2. \A e : e \in Recorded(Stored) <=> \E n \in Stored : \E m \in db[n].targets : e = EntryOf(db[n], m)
    BY DEF Recorded
  <2>3. \A s : s \in UNION {ServicesOf(db[n]) : n \in Stored}
                <=> \E n \in Stored : \E m \in db[n].targets : s = ServiceOf(db[n], m)
    BY DEF ServicesOf
  <2>4. \A s : s \in {e[1] : e \in Recorded(Stored)}
                <=> \E n \in Stored : \E m \in db[n].targets : s = ServiceOf(db[n], m)
    <3>1. \A s : s \in {e[1] : e \in Recorded(Stored)} <=> \E e \in Recorded(Stored) : s = e[1]
      OBVIOUS
    <3>2. ASSUME NEW s, NEW e \in Recorded(Stored), s = e[1]
          PROVE  \E n \in Stored : \E m \in db[n].targets : s = ServiceOf(db[n], m)
      BY <2>1, <2>2, <3>2
    <3>3. ASSUME NEW s, NEW n \in Stored, NEW m \in db[n].targets, s = ServiceOf(db[n], m)
          PROVE  \E e \in Recorded(Stored) : s = e[1]
      <4>1. EntryOf(db[n], m) \in Recorded(Stored)
        BY <2>2
      <4> QED
        BY <2>1, <3>3, <4>1
    <3> QED
      BY <3>1, <3>2, <3>3
  <2> QED
    BY <2>3, <2>4
<1>5. Serial!Restore
  <2>1. /\ Serial!Stored = Stored
        /\ UNION {Serial!ServicesOf(db[n]) : n \in Stored} = UNION {ServicesOf(db[n]) : n \in Stored}
        /\ UNION {{Serial!EntryOf(db[n], m) : m \in db[n].targets} : n \in Stored} = Recorded(Stored)
    BY SameHelpers DEF Recorded
  <2> QED
    BY <1>1, <1>2, <1>3, <1>4, <2>1 DEF Serial!Restore, Serial!Answer
<1> QED
  BY <1>3, <1>5 DEF Simulates, Apart, Serial!Next

LEMMA StepSimulates ==
  ASSUME Hypotheses, Invariant, TypeInv', Origin', [Next]_vars
  PROVE  Simulates
<1>1. ASSUME NEW w \in Workers, Handler(w)
      PROVE  Simulates
  BY <1>1, CreateAllocateSimulates, CreateSimulates, DeleteSimulates, AddSimulates, DelSimulates DEF Handler
<1>2. CASE UNCHANGED vars
  <2>1. UNCHANGED <<db, up, reply, addrs, svcs, dests, call, before, apart>>
    BY <1>2 DEF vars
  <2>2. Slices'
    BY <2>1 DEF Invariant, Slices
  <2>3. SameView
    BY <2>1 DEF SameView, SeenAddrs, SeenSvcs, SeenDests, BusyAddrs
  <2>4. Apart'
    <3>1. \A w \in Workers : OnAddress(call[w].ip)' = OnAddress(call[w].ip)
      BY <2>1 DEF OnAddress
    <3>2. \A w \in Workers : RecordKnown(call[w])' = RecordKnown(call[w])
      BY <2>1 DEF RecordKnown, Exists
    <3> QED
      BY <2>1, <2>3, <3>1, <3>2 DEF Invariant, Apart, Separate, SameView
  <2> QED
    BY <2>1, <2>2, <2>3, <2>4, ViewUnchanged DEF Simulates
<1>3. ~CallsFail /\ ~CrashAnywhere
  BY DEF Hypotheses
<1> QED
  BY <1>1, <1>2, <1>3, RequestSimulates, HaltSimulates, RestoreSimulates
     DEF Next, CallFails, RestoreMisses, RestoreCut

LEMMA SerialStart == Init => Slices /\ Apart /\ Serial!Init
<1> SUFFICES ASSUME Init PROVE Slices /\ Apart /\ Serial!Init
  OBVIOUS
<1>1. TypeInv
  BY InitTyped
<1>2. \A w \in Workers : call[w].pc = "idle" /\ call[w].ip = NoIP /\ before[w] = NoSlice
  BY DEF Init, Idle
<1>3. before \in [Workers -> Slice]
  BY DEF Init, NoSlice, Slice
<1>4. Slices
  BY <1>2, <1>3 DEF Slices, NoSlice, Init
<1>5. Apart
  BY <1>2, QuietSeparate DEF Apart, Quiet
<1>6. SeenAddrs = addrs /\ SeenSvcs = svcs /\ SeenDests = dests
  BY <1>1, <1>2, SeenAtRest
<1>7. Serial!Init
  BY <1>6, SameHelpers DEF Init, Serial!Init
<1> QED
  BY <1>4, <1>5, <1>7

(* Clients ask for addresses of their own, one name at most gets its       *)
(* address from the IPAM, lbmanager stops only when no RPC is under way,   *)
(* and no call fails for a reason outside the model.  Then the handlers of *)
(* impl.go, which share no lock and overlap at every netlink, IPVS and     *)
(* database call, are to their clients one RPC after the other, as long as *)
(* no two of them are on one load balancer.                                *)
THEOREM SerialToClients ==
  ExclusiveRequests /\ OneAutoName /\ ~CrashAnywhere /\ ~CallsFail => (Spec => RefinesSerial)
<1> SUFFICES ASSUME Hypotheses PROVE Spec => RefinesSerial
  BY DEF Hypotheses
<1>1. Init => Invariant /\ Serial!Init
  BY InitTyped, OriginStart, SerialStart DEF Invariant
<1>2. Invariant /\ [Next]_vars => Invariant'
  BY TypeInductive, OriginStep, StepSimulates DEF Invariant, Simulates, Hypotheses
<1>3. Invariant /\ [Next]_vars => [apart' => Serial!Next]_(Serial!vars)
  BY <1>2, StepSimulates DEF Invariant, Simulates
<1> QED
  BY <1>1, <1>2, <1>3, PTL DEF Spec, RefinesSerial
=============================================================================
