--------------------------- MODULE LBServerSteps ---------------------------
(***************************************************************************)
(* lbmanager, one call to the outside at a time.                           *)
(*                                                                         *)
(* gRPC runs every RPC in a goroutine of its own and loadBalancerServer    *)
(* has no lock, so the handlers of impl.go interleave at every netlink,    *)
(* IPVS and database call.  Here each of those calls is one step of a      *)
(* worker; what a handler computes between two calls goes with the call    *)
(* before it.  lbmanager installs no signal handler, so it may stop        *)
(* between any two calls, and it comes back through Restore.               *)
(***************************************************************************)
EXTENDS LBDefs

CONSTANTS
  Workers,         \* goroutines that serve RPCs
  OneCallPerName,  \* clients never have two RPCs on one name under way
  CrashAnywhere,   \* the process may die in the middle of a handler
  CallsFail        \* a netlink, IPVS or database call may fail for no reason in the model

ASSUME StepsAssumption ==
  OneCallPerName \in BOOLEAN /\ CrashAnywhere \in BOOLEAN /\ CallsFail \in BOOLEAN

VARIABLES
  db,      \* rosedb: name -> record, NoLB for a missing key
  addrs,   \* addresses on the external link
  svcs,    \* IPVS services
  dests,   \* IPVS destinations: <<service, destination>>
  up,      \* lbmanager has restored its state and is serving
  call,    \* worker -> the handler it is in and the handler's local variables
  reply,   \* the last answer: load balancer and error flags
  flaws,   \* history: what may be wrong, see below
  before,  \* history: worker -> kernel objects on its address when it began
  apart    \* history: since no RPC was under way, no two on one name were

kernel == <<addrs, svcs, dests>>
vars == <<db, addrs, svcs, dests, up, call, reply, flaws, before, apart>>

PCs == {"idle", "allocate", "addrList", "addrAdd", "createPut",
        "delServices", "dbDelete",
        "isPresent", "newService", "newDest", "addPut",
        "delDest", "delService", "delPut"}

Errors == {"AlreadyExists", "NotInCidr", "NoFreeIP", "NoSuchLB", "NoSuchService",
           "NoSuchIP", "AddDestinationFailed", "DelDestinationFailed",
           "TargetAlreadyMapped", "TargetNotMapped", "CallFailed"}

(* "leak": since the last reboot a handler was cut short, so the kernel may *)
(* hold more than the database.  "miss": since lbmanager last started a    *)
(* call failed, so it may hold less.  "kept": since lbmanager last started *)
(* with an address per record, db.Delete failed, so the record outlives    *)
(* its alias and the IPAM takes its address for free.                      *)
Flaws == {"leak", "miss", "kept"}

NoMapping == [port |-> 0]
NoSlice == [addrs |-> {}, svcs |-> {}, dests |-> {}]

(* The fields a handler uses: the load balancer, its address, the target,  *)
(* the record read by getLB, the services still to remove, the error flags *)
(* collected so far.                                                       *)
Idle == [pc |-> "idle", n |-> NoIP, ip |-> NoIP, m |-> NoMapping, info |-> NoLB,
         todo |-> {}, errs |-> {}]

Exists(n) == db[n].ip # NoIP
Stored == {n \in Names : Exists(n)}
Quiet == \A w \in Workers : call[w].pc = "idle"

(* No two load balancers have the same address.                            *)
OwnAddress == \A n, k \in Stored : n # k => db[n].ip # db[k].ip

TypeOK ==
  /\ db \in [Names -> LBInfo]
  /\ addrs \in SUBSET Nat
  /\ svcs \in SUBSET Service
  /\ dests \in SUBSET (Service \X Destination)
  /\ up \in BOOLEAN /\ apart \in BOOLEAN /\ flaws \subseteq Flaws
  /\ \A w \in Workers :
       /\ call[w].pc \in PCs
       /\ call[w].n \in Names \cup {NoIP}
       /\ call[w].ip \in Nat \cup {NoIP}
       /\ call[w].m \in Mapping \cup {NoMapping}
       /\ call[w].info \in LBInfo
       /\ call[w].todo \in SUBSET (SrcPorts \X Protocols)
       /\ call[w].errs \in SUBSET Errors
  /\ reply \in [name : Names \cup {NoIP}, code : SUBSET Errors]

Init ==
  /\ db = [n \in Names |-> NoLB]
  /\ addrs = BaseAddrs
  /\ svcs = {}
  /\ dests = {}
  /\ up = FALSE
  /\ call = [w \in Workers |-> Idle]
  /\ reply = [name |-> NoIP, code |-> {}]
  /\ flaws = {}
  /\ before = [w \in Workers |-> NoSlice]
  /\ apart = TRUE

-----------------------------------------------------------------------------
(* Control flow of a handler *)

OnAddress(ip) ==
  [addrs |-> addrs \cap {ip},
   svcs |-> {s \in svcs : s[1] = ip},
   dests |-> {e \in dests : e[1][1] = ip}]

(* A worker takes an RPC on load balancer n.  Nothing in lbmanager keeps   *)
(* RPCs on one load balancer apart: OneCallPerName is a discipline of its  *)
(* clients, which holds while a service is worked on by one worker of one  *)
(* controller and nobody uses lbctl on it at the same time.                *)
Accept(w, n) ==
  /\ up
  /\ call[w].pc = "idle"
  /\ OneCallPerName => \A v \in Workers : call[v].n # n

At(w, pc) == call[w].pc = pc

Begin(w, c) ==
  /\ call' = [call EXCEPT ![w] = c]
  /\ before' = [before EXCEPT ![w] = OnAddress(c.ip)]
  /\ apart' = (Quiet \/ (apart /\ \A v \in Workers \ {w} : call[v].n # c.n))
  /\ UNCHANGED <<db, kernel, up, reply, flaws>>

Goto(w, pc) ==
  /\ call' = [call EXCEPT ![w].pc = pc]
  /\ UNCHANGED <<up, reply, flaws, before, apart>>

Return(w, n, errs) ==
  /\ call' = [call EXCEPT ![w] = Idle]
  /\ before' = [before EXCEPT ![w] = NoSlice]
  /\ reply' = [name |-> n, code |-> errs]
  /\ UNCHANGED <<up, flaws, apart>>

Refuse(w, n, err) == Return(w, n, {err}) /\ UNCHANGED <<db, kernel>>

-----------------------------------------------------------------------------
(* Create *)

CreateGet(w, n, ip) ==
  /\ Accept(w, n)
  /\ \/ Exists(n) /\ Refuse(w, n, "AlreadyExists")
     \/ /\ ~Exists(n)
        /\ Begin(w, [Idle EXCEPT !.pc = IF ip = NoIP THEN "allocate" ELSE "addrList",
                                 !.n = n, !.ip = ip])

CreateAllocate(w) ==
  /\ At(w, "allocate")
  /\ \/ Allocate(addrs) = {} /\ Refuse(w, call[w].n, "NoFreeIP")
     \/ \E ip \in Allocate(addrs) : Begin(w, [call[w] EXCEPT !.pc = "addrList", !.ip = ip])

(* addAddrAlias: the CIDR check and AddrList.                              *)
CreateAddrListUnchecked(w) ==
  /\ At(w, "addrList")
  /\ Goto(w, IF call[w].ip \in addrs THEN "createPut" ELSE "addrAdd")
  /\ UNCHANGED <<db, kernel>>

CreateAddrList(w) ==
  /\ At(w, "addrList")
  /\ \/ call[w].ip \notin Cidr /\ Refuse(w, call[w].n, "NotInCidr")
     \/ /\ call[w].ip \in Cidr
        /\ Goto(w, IF call[w].ip \in addrs THEN "createPut" ELSE "addrAdd")
        /\ UNCHANGED <<db, kernel>>

(* The kernel refuses an address that appeared on the link meanwhile.      *)
CreateAddrAdd(w) ==
  /\ At(w, "addrAdd")
  /\ \/ call[w].ip \in addrs /\ Refuse(w, call[w].n, "CallFailed")
     \/ /\ call[w].ip \notin addrs
        /\ addrs' = addrs \cup {call[w].ip}
        /\ Goto(w, "createPut")
        /\ UNCHANGED <<db, svcs, dests>>

CreatePut(w) ==
  /\ At(w, "createPut")
  /\ db' = [db EXCEPT ![call[w].n] = [ip |-> call[w].ip, targets |-> {}]]
  /\ Return(w, call[w].n, {})
  /\ UNCHANGED kernel

-----------------------------------------------------------------------------
(* Delete *)

DeleteGetNoServices(w, n) ==
  /\ Accept(w, n)
  /\ Exists(n)
  /\ Begin(w, [Idle EXCEPT !.pc = "delServices", !.n = n, !.ip = db[n].ip, !.info = db[n]])

DeleteGet(w, n) ==
  /\ Accept(w, n)
  /\ \/ ~Exists(n) /\ Refuse(w, n, "NoSuchLB")
     \/ /\ Exists(n)
        /\ Begin(w, [Idle EXCEPT !.pc = "delServices", !.n = n, !.ip = db[n].ip, !.info = db[n],
                                 !.todo = {<<m.port, m.proto>> : m \in db[n].targets}])

(* One DelService; Go's map order makes the sequence arbitrary.            *)
DeleteService(w) ==
  /\ At(w, "delServices")
  /\ \E pp \in call[w].todo :
       LET s == toIPVSService(call[w].ip, pp[1], pp[2]) IN
         /\ svcs' = svcs \ {s}
         /\ dests' = WithoutServices(dests, {s})
         /\ call' = [call EXCEPT ![w].todo = @ \ {pp},
                                 ![w].errs = @ \cup (IF s \in svcs THEN {} ELSE {"NoSuchService"})]
  /\ UNCHANGED <<db, addrs, up, reply, flaws, before, apart>>

DeleteAddrSkipped(w) ==
  /\ At(w, "delServices")
  /\ call[w].todo = {}
  /\ Goto(w, "dbDelete")
  /\ UNCHANGED <<db, kernel>>

DeleteAddr(w) ==
  /\ At(w, "delServices")
  /\ call[w].todo = {}
  /\ addrs' = addrs \ {call[w].ip}
  /\ call' = [call EXCEPT ![w].pc = "dbDelete",
                          ![w].errs = @ \cup (IF call[w].ip \in addrs THEN {} ELSE {"NoSuchIP"})]
  /\ UNCHANGED <<db, svcs, dests, up, reply, flaws, before, apart>>

DeleteRecord(w) ==
  /\ At(w, "dbDelete")
  /\ db' = [db EXCEPT ![call[w].n] = NoLB]
  /\ Return(w, call[w].n, call[w].errs)
  /\ UNCHANGED kernel

-----------------------------------------------------------------------------
(* AddTarget.  The record read by getLB is the one written back.           *)

AddGet(w, n, m) ==
  /\ Accept(w, n)
  /\ \/ ~Exists(n) /\ Refuse(w, n, "NoSuchLB")
     \/ Exists(n) /\ m \in db[n].targets /\ Refuse(w, n, "TargetAlreadyMapped")
     \/ /\ Exists(n)
        /\ m \notin db[n].targets
        /\ Begin(w, [Idle EXCEPT !.pc = "isPresent", !.n = n, !.ip = db[n].ip, !.m = m, !.info = db[n]])

AddAssumesService(w) ==
  /\ At(w, "isPresent")
  /\ Goto(w, "newDest")
  /\ UNCHANGED <<db, kernel>>

AddIsServicePresent(w) ==
  /\ At(w, "isPresent")
  /\ Goto(w, IF ServiceOf(call[w].info, call[w].m) \in svcs THEN "newDest" ELSE "newService")
  /\ UNCHANGED <<db, kernel>>

AddNewService(w) ==
  /\ At(w, "newService")
  /\ LET s == ServiceOf(call[w].info, call[w].m) IN
       \/ s \in svcs /\ Refuse(w, call[w].n, "CallFailed")
       \/ /\ s \notin svcs
          /\ svcs' = svcs \cup {s}
          /\ Goto(w, "newDest")
          /\ UNCHANGED <<db, addrs, dests>>

(* The kernel refuses a destination that is there already, or whose        *)
(* service is gone.                                                        *)
AddNewDestination(w) ==
  /\ At(w, "newDest")
  /\ LET e == EntryOf(call[w].info, call[w].m) IN
       \/ (e \in dests \/ e[1] \notin svcs) /\ Refuse(w, call[w].n, "AddDestinationFailed")
       \/ /\ e \notin dests /\ e[1] \in svcs
          /\ dests' = dests \cup {e}
          /\ Goto(w, "addPut")
          /\ UNCHANGED <<db, addrs, svcs>>

AddPut(w) ==
  /\ At(w, "addPut")
  /\ db' = [db EXCEPT ![call[w].n] = [call[w].info EXCEPT !.targets = @ \cup {call[w].m}]]
  /\ Return(w, call[w].n, {})
  /\ UNCHANGED kernel

-----------------------------------------------------------------------------
(* DelTarget *)

DelGet(w, n, m) ==
  /\ Accept(w, n)
  /\ \/ ~Exists(n) /\ Refuse(w, n, "NoSuchLB")
     \/ Exists(n) /\ m \notin db[n].targets /\ Refuse(w, n, "TargetNotMapped")
     \/ /\ Exists(n)
        /\ m \in db[n].targets
        /\ Begin(w, [Idle EXCEPT !.pc = "delDest", !.n = n, !.ip = db[n].ip, !.m = m, !.info = db[n]])

DelDestination(w) ==
  /\ At(w, "delDest")
  /\ LET e == EntryOf(call[w].info, call[w].m) IN
       \/ e \notin dests /\ Refuse(w, call[w].n, "DelDestinationFailed")
       \/ /\ e \in dests
          /\ dests' = dests \ {e}
          /\ Goto(w, IF LastOnPort(call[w].info, call[w].m) THEN "delService" ELSE "delPut")
          /\ UNCHANGED <<db, addrs, svcs>>

DelServiceFlushes(w) ==
  /\ At(w, "delService")
  /\ svcs' = {}
  /\ dests' = {}
  /\ Goto(w, "delPut")
  /\ UNCHANGED <<db, addrs>>

DelService(w) ==
  /\ At(w, "delService")
  /\ LET s == ServiceOf(call[w].info, call[w].m) IN
       \/ s \notin svcs /\ Refuse(w, call[w].n, "DelDestinationFailed")
       \/ /\ s \in svcs
          /\ svcs' = svcs \ {s}
          /\ dests' = WithoutServices(dests, {s})
          /\ Goto(w, "delPut")
          /\ UNCHANGED <<db, addrs>>

DelPut(w) ==
  /\ At(w, "delPut")
  /\ db' = [db EXCEPT ![call[w].n] = [call[w].info EXCEPT !.targets = @ \ {call[w].m}]]
  /\ Return(w, call[w].n, {})
  /\ UNCHANGED kernel

-----------------------------------------------------------------------------
(* Failing calls *)

(* What a handler does when the call it is at fails: most return at once   *)
(* and take nothing back, Delete goes on, and a failed AddrList or         *)
(* GetService counts as "not there".                                       *)
CallFails(w) ==
  /\ CallsFail
  /\ flaws' = flaws \cup (IF At(w, "dbDelete") THEN Flaws ELSE {"leak", "miss"})
  /\ UNCHANGED <<db, kernel, up, apart>>
  /\ \/ /\ call[w].pc \in {"allocate", "addrAdd", "createPut", "newService", "addPut", "delPut", "dbDelete"}
        /\ call' = [call EXCEPT ![w] = Idle]
        /\ before' = [before EXCEPT ![w] = NoSlice]
        /\ reply' = [name |-> call[w].n, code |-> {"CallFailed"}]
     \/ /\ call[w].pc \in {"newDest", "delDest", "delService"}
        /\ call' = [call EXCEPT ![w] = Idle]
        /\ before' = [before EXCEPT ![w] = NoSlice]
        /\ reply' = [name |-> call[w].n,
                     code |-> {IF At(w, "newDest") THEN "AddDestinationFailed" ELSE "DelDestinationFailed"}]
     \/ /\ At(w, "addrList") /\ call[w].ip \in Cidr
        /\ call' = [call EXCEPT ![w].pc = "addrAdd"]
        /\ UNCHANGED <<before, reply>>
     \/ /\ At(w, "isPresent")
        /\ call' = [call EXCEPT ![w].pc = "newService"]
        /\ UNCHANGED <<before, reply>>
     \/ /\ At(w, "delServices")
        /\ \/ \E pp \in call[w].todo :
                call' = [call EXCEPT ![w].todo = @ \ {pp}, ![w].errs = @ \cup {"NoSuchService"}]
           \/ /\ call[w].todo = {}
              /\ call' = [call EXCEPT ![w].pc = "dbDelete", ![w].errs = @ \cup {"NoSuchIP"}]
        /\ UNCHANGED <<before, reply>>

-----------------------------------------------------------------------------
(* Stop, reboot, restart *)

Halt ==
  /\ CrashAnywhere \/ Quiet
  /\ up' = FALSE
  /\ call' = [w \in Workers |-> Idle]
  /\ before' = [w \in Workers |-> NoSlice]
  /\ UNCHANGED <<db, reply, apart>>

Crash ==
  /\ up
  /\ Halt
  /\ flaws' = IF Quiet THEN flaws ELSE flaws \cup {"leak"}
  /\ UNCHANGED kernel

Reboot ==
  /\ Halt
  /\ addrs' = BaseAddrs
  /\ svcs' = {}
  /\ dests' = {}
  /\ flaws' = flaws \cap {"kept"}

Recorded(S) == UNION {{EntryOf(db[n], m) : m \in db[n].targets} : n \in S}

Restored(S, E, F) ==
  /\ addrs' = addrs \cup {db[n].ip : n \in S}
  /\ svcs' = svcs \cup {e[1] : e \in E}
  /\ dests' = dests \cup F
  /\ UNCHANGED <<db, call, before, apart>>

(* A Restore in which no call fails puts every missing object back.        *)
MadeGood == flaws \ (IF OwnAddress THEN {"miss", "kept"} ELSE {"miss"})

RestoreForgetsAliases ==
  /\ ~up
  /\ up' = TRUE
  /\ Restored({}, Recorded(Stored), Recorded(Stored))
  /\ reply' = [name |-> NoIP, code |-> {}]
  /\ flaws' = MadeGood

RestoreForgetsTargets ==
  /\ ~up
  /\ up' = TRUE
  /\ Restored(Stored, {}, {})
  /\ reply' = [name |-> NoIP, code |-> {}]
  /\ flaws' = MadeGood

Restore ==
  /\ ~up
  /\ up' = TRUE
  /\ Restored(Stored, Recorded(Stored), Recorded(Stored))
  /\ reply' = [name |-> NoIP, code |-> {}]
  /\ flaws' = MadeGood

(* Restore drops the *Error of mapTarget, by which a failed NewDestination *)
(* is reported: it goes on, and lbmanager serves without the destination.  *)
RestoreMisses ==
  /\ ~up
  /\ CallsFail
  /\ up' = TRUE
  /\ \E F \in SUBSET Recorded(Stored) :
       F # Recorded(Stored) /\ Restored(Stored, Recorded(Stored), F)
  /\ reply' = [name |-> NoIP, code |-> {}]
  /\ flaws' = flaws \cup {"leak", "miss"}

(* Restore is cut short, by a failing call (log.Fatalf) or by a crash:     *)
(* some of the aliases, services and destinations are there.               *)
RestoreCut ==
  /\ ~up
  /\ CrashAnywhere
  /\ \E S \in SUBSET Stored : \E E \in SUBSET Recorded(S) : \E F \in SUBSET E : Restored(S, E, F)
  /\ UNCHANGED <<up, reply, flaws>>

-----------------------------------------------------------------------------
Handler(w) ==
  \/ CreateAllocate(w) \/ CreateAddrList(w) \/ CreateAddrAdd(w) \/ CreatePut(w)
  \/ DeleteService(w) \/ DeleteAddr(w) \/ DeleteRecord(w)
  \/ AddIsServicePresent(w) \/ AddNewService(w) \/ AddNewDestination(w) \/ AddPut(w)
  \/ DelDestination(w) \/ DelService(w) \/ DelPut(w)

Request(w) ==
  \/ \E r \in Requests : CreateGet(w, r[1], r[2])
  \/ \E n \in Names : DeleteGet(w, n)
  \/ \E n \in Names, m \in Mapping : AddGet(w, n, m)
  \/ \E n \in Names, m \in Mapping : DelGet(w, n, m)

Next ==
  \/ \E w \in Workers : Request(w)
  \/ \E w \in Workers : Handler(w)
  \/ \E w \in Workers : CallFails(w)
  \/ Crash
  \/ Reboot
  \/ Restore
  \/ RestoreMisses
  \/ RestoreCut

Spec == Init /\ [][Next]_vars

-----------------------------------------------------------------------------
(* Properties *)

Served(n) == db[n].ip \in addrs /\ \A m \in db[n].targets : EntryOf(db[n], m) \in dests

(* Whatever handlers were cut short by crashes, when no RPC is under way   *)
(* every recorded load balancer has its alias and all its destinations:    *)
(* each handler writes the record only after the kernel, or removes it     *)
(* last, and Restore fills what is missing.  A failed call may leave a     *)
(* record that is not served, but no longer than to the next start in      *)
(* which no call fails; two records with one address may take it from each *)
(* other as long as both are there.                                        *)
ServedWhenQuiet == up /\ Quiet /\ flaws \subseteq {"leak"} => \A n \in Stored : Served(n)

(* After a reboot, and until a handler is cut short again, the link and    *)
(* the IPVS table hold nothing that is not recorded: what crashes leaked   *)
(* does not survive the namespace.                                         *)
ExactAfterReboot ==
  flaws = {} /\ up /\ Quiet => /\ addrs = BaseAddrs \cup {db[n].ip : n \in Stored}
                          /\ dests = Recorded(Stored)

(* What the last step of the handler call c must have brought about.       *)
Done(c) ==
  CASE c.pc = "createPut" -> db'[c.n].ip = c.ip /\ c.ip \in addrs'
    [] c.pc = "addPut" -> c.m \in db'[c.n].targets /\ EntryOf(c.info, c.m) \in dests'
    [] c.pc = "delPut" -> c.m \notin db'[c.n].targets /\ EntryOf(c.info, c.m) \notin dests'
    [] c.pc = "dbDelete" -> /\ db'[c.n] = NoLB
                            /\ c.ip \notin addrs'
                            /\ \A m \in c.info.targets : EntryOf(c.info, m) \notin dests'
    [] OTHER -> TRUE

Succeeds(w) == up' /\ ~At(w, "idle") /\ call'[w].pc = "idle" /\ reply'.code = {}

(* An RPC that answers without an error has done all it stands for, also   *)
(* when calls failed in it or in the RPCs before it.                       *)
SuccessMeansDone == [][\A w \in Workers : Succeeds(w) => Done(call[w])]_vars

(* A load balancer on which no RPC is under way keeps its record, its      *)
(* alias, its services and its destinations, however RPCs on another one   *)
(* overlap: they may lose each other's updates, but not reach past their   *)
(* own address.                                                            *)
BystandersUntouched ==
  [][\A n \in Stored :
       up /\ up' /\ (\A w \in Workers : call[w].n # n /\ call'[w].n # n) =>
         /\ db'[n] = db[n]
         /\ db[n].ip \in addrs' <=> db[n].ip \in addrs
         /\ \A s \in Service : s[1] = db[n].ip => (s \in svcs' <=> s \in svcs)
         /\ \A e \in dests \cup dests' : e[1][1] = db[n].ip => e \in dests \cap dests']_vars

(* Handlers that do not overlap give two load balancers the same address   *)
(* for one reason only: a Delete whose db.Delete failed after the alias    *)
(* was gone, with no restart since to put the alias back.                  *)
SharedAfterFailedDelete == ~OwnAddress => "kept" \in flaws

-----------------------------------------------------------------------------
(* Overlapping handlers on different load balancers take effect one after  *)
(* the other: seen from outside, a handler happens when it answers.  Until *)
(* then the kernel objects on its address count as they were at its start. *)
(* Two handlers on one load balancer may lose an update, but only until    *)
(* both have answered: from whatever they leave, the next ones are serial  *)
(* again.                                                                  *)
BusyAddrs == {call[w].ip : w \in Workers}
SeenAddrs == {x \in addrs : x \notin BusyAddrs} \cup UNION {before[w].addrs : w \in Workers}
SeenSvcs == {s \in svcs : s[1] \notin BusyAddrs} \cup UNION {before[w].svcs : w \in Workers}
SeenDests == {e \in dests : e[1][1] \notin BusyAddrs} \cup UNION {before[w].dests : w \in Workers}

Serial == INSTANCE LBServer WITH addrs <- SeenAddrs, svcs <- SeenSvcs, dests <- SeenDests

RefinesSerial == Serial!Init /\ [][apart' => Serial!Next]_(Serial!vars)
=============================================================================
