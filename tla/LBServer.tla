------------------------------ MODULE LBServer ------------------------------
(***************************************************************************)
(* lbmanager, one RPC at a time.                                           *)
(*                                                                         *)
(* Each action is one whole gRPC handler of internal/loadbalancer/impl.go: *)
(* its guard and early returns, every netlink, IPVS and database call it   *)
(* makes, in the code's order, and its answer.  The process may stop, and  *)
(* the container may reboot, between two RPCs; main() then runs Restore    *)
(* before it serves.  Netlink, IPVS and database calls fail here only for  *)
(* the reasons the kernel has (object already there, object not there).    *)
(* LBServerSteps takes the handlers apart: overlapping RPCs, crashes in    *)
(* the middle of a handler and I/O errors are there.                       *)
(***************************************************************************)
EXTENDS LBDefs

VARIABLES
  db,     \* rosedb: name -> record, NoLB for a missing key
  addrs,  \* addresses on the external link
  svcs,   \* IPVS services
  dests,  \* IPVS destinations: <<service, destination>>
  up,     \* lbmanager has restored its state and is serving
  reply   \* the last answer: load balancer and error flags

kernel == <<addrs, svcs, dests>>
vars == <<db, addrs, svcs, dests, up, reply>>

Errors == {"AlreadyExists", "NotInCidr", "NoFreeIP", "NoSuchLB", "NoSuchService",
           "NoSuchIP", "AddDestinationFailed", "DelDestinationFailed",
           "TargetAlreadyMapped", "TargetNotMapped"}

Answer(n, errs) == reply' = [name |-> n, code |-> errs]
Refuse(n, err) == Answer(n, {err}) /\ UNCHANGED <<db, kernel, up>>

Exists(n) == db[n].ip # NoIP

TypeOK ==
  /\ db \in [Names -> LBInfo]
  /\ addrs \in SUBSET Nat
  /\ svcs \in SUBSET Service
  /\ dests \in SUBSET (Service \X Destination)
  /\ up \in BOOLEAN
  /\ reply \in [name : Names \cup {NoIP}, code : SUBSET Errors]

Init ==
  /\ db = [n \in Names |-> NoLB]
  /\ addrs = BaseAddrs
  /\ svcs = {}
  /\ dests = {}
  /\ up = FALSE
  /\ reply = [name |-> NoIP, code |-> {}]

-----------------------------------------------------------------------------
(* Create *)

(* addAddrAlias and the final db.Put.  An alias that is already on the     *)
(* link is shared without complaint.                                       *)
StoreUnchecked(n, ip) ==
  /\ addrs' = addrs \cup {ip}
  /\ db' = [db EXCEPT ![n] = [ip |-> ip, targets |-> {}]]
  /\ Answer(n, {})
  /\ UNCHANGED <<svcs, dests, up>>

StoreNew(n, ip) ==
  /\ ip \in Cidr
  /\ addrs' = addrs \cup {ip}
  /\ db' = [db EXCEPT ![n] = [ip |-> ip, targets |-> {}]]
  /\ Answer(n, {})
  /\ UNCHANGED <<svcs, dests, up>>

Create(n, ip) ==
  /\ up
  /\ ip # NoIP
  /\ \/ Exists(n) /\ Refuse(n, "AlreadyExists")
     \/ ~Exists(n) /\ ip \notin Cidr /\ Refuse(n, "NotInCidr")
     \/ ~Exists(n) /\ StoreNew(n, ip)

CreateAuto(n) ==
  /\ up
  /\ \/ Exists(n) /\ Refuse(n, "AlreadyExists")
     \/ ~Exists(n) /\ Allocate(addrs) = {} /\ Refuse(n, "NoFreeIP")
     \/ ~Exists(n) /\ \E ip \in Allocate(addrs) : StoreNew(n, ip)

(* Delete goes on after a failed call, removes the record whatever         *)
(* happened before and reports what failed.                                *)
DeleteErrors(info) ==
  {err \in {"NoSuchService", "NoSuchIP"} :
     \/ err = "NoSuchService" /\ SomeDelServiceFails(info, svcs)
     \/ err = "NoSuchIP" /\ info.ip \notin addrs}

DeleteKeepsAlias(n) ==
  /\ up
  /\ Exists(n)
  /\ svcs' = svcs \ ServicesOf(db[n])
  /\ dests' = WithoutServices(dests, ServicesOf(db[n]))
  /\ db' = [db EXCEPT ![n] = NoLB]
  /\ Answer(n, {})
  /\ UNCHANGED <<addrs, up>>

Delete(n) ==
  /\ up
  /\ \/ ~Exists(n) /\ Refuse(n, "NoSuchLB")
     \/ /\ Exists(n)
        /\ svcs' = svcs \ ServicesOf(db[n])
        /\ dests' = WithoutServices(dests, ServicesOf(db[n]))
        /\ addrs' = addrs \ {db[n].ip}
        /\ db' = [db EXCEPT ![n] = NoLB]
        /\ Answer(n, DeleteErrors(db[n]))
        /\ UNCHANGED up

-----------------------------------------------------------------------------
(* AddTarget and DelTarget *)

(* mapTarget creates the service if it is missing and then the             *)
(* destination; a destination that is already there is an error, and the   *)
(* record is not stored.                                                   *)
AddTargetTwice(n, m) ==
  /\ up
  /\ Exists(n)
  /\ svcs' = svcs \cup {ServiceOf(db[n], m)}
  /\ dests' = dests \cup {EntryOf(db[n], m)}
  /\ db' = [db EXCEPT ![n].targets = @ \cup {m}]
  /\ Answer(n, {e \in {"AddDestinationFailed"} : EntryOf(db[n], m) \in dests})
  /\ UNCHANGED <<addrs, up>>

AddTarget(n, m) ==
  /\ up
  /\ \/ ~Exists(n) /\ Refuse(n, "NoSuchLB")
     \/ Exists(n) /\ m \in db[n].targets /\ Refuse(n, "TargetAlreadyMapped")
     \/ /\ Exists(n)
        /\ m \notin db[n].targets
        /\ EntryOf(db[n], m) \in dests
        /\ svcs' = svcs \cup {ServiceOf(db[n], m)}
        /\ Answer(n, {"AddDestinationFailed"})
        /\ UNCHANGED <<db, addrs, dests, up>>
     \/ /\ Exists(n)
        /\ m \notin db[n].targets
        /\ EntryOf(db[n], m) \notin dests
        /\ svcs' = svcs \cup {ServiceOf(db[n], m)}
        /\ dests' = dests \cup {EntryOf(db[n], m)}
        /\ db' = [db EXCEPT ![n].targets = @ \cup {m}]
        /\ Answer(n, {})
        /\ UNCHANGED <<addrs, up>>

(* After the destination is gone, the service goes too when the port's     *)
(* list is empty; the service looked at is the one of the target's own     *)
(* protocol.                                                               *)
DelTarget(n, m) ==
  /\ up
  /\ \/ ~Exists(n) /\ Refuse(n, "NoSuchLB")
     \/ Exists(n) /\ m \notin db[n].targets /\ Refuse(n, "TargetNotMapped")
     \/ /\ Exists(n)
        /\ m \in db[n].targets
        /\ EntryOf(db[n], m) \notin dests
        /\ Refuse(n, "DelDestinationFailed")
     \/ /\ Exists(n)
        /\ m \in db[n].targets
        /\ EntryOf(db[n], m) \in dests
        /\ IF LastOnPort(db[n], m)
             THEN /\ svcs' = svcs \ {ServiceOf(db[n], m)}
                  /\ dests' = WithoutServices(dests, {ServiceOf(db[n], m)})
             ELSE /\ dests' = dests \ {EntryOf(db[n], m)}
                  /\ UNCHANGED svcs
        /\ db' = [db EXCEPT ![n].targets = @ \ {m}]
        /\ Answer(n, {})
        /\ UNCHANGED <<addrs, up>>

-----------------------------------------------------------------------------
(* Stop, reboot, restart *)

(* lbmanager stops; the kernel keeps its state.                            *)
Stop ==
  /\ up
  /\ up' = FALSE
  /\ UNCHANGED <<db, kernel, reply>>

(* The container stops: the network namespace is built again by the        *)
(* install script, with nothing but its own addresses.                     *)
Reboot ==
  /\ up' = FALSE
  /\ addrs' = BaseAddrs
  /\ svcs' = {}
  /\ dests' = {}
  /\ UNCHANGED <<db, reply>>

Stored == {n \in Names : Exists(n)}

(* What Restore adds to the kernel: the alias of every record, and the     *)
(* service and the destination of every mapping.  What is there already is *)
(* left alone, and nothing is removed.                                     *)
RestoreForgetsTargets ==
  /\ ~up
  /\ up' = TRUE
  /\ addrs' = addrs \cup {db[n].ip : n \in Stored}
  /\ Answer(NoIP, {})
  /\ UNCHANGED <<db, svcs, dests>>

Restore ==
  /\ ~up
  /\ up' = TRUE
  /\ addrs' = addrs \cup {db[n].ip : n \in Stored}
  /\ svcs' = svcs \cup UNION {ServicesOf(db[n]) : n \in Stored}
  /\ dests' = dests \cup UNION {{EntryOf(db[n], m) : m \in db[n].targets} : n \in Stored}
  /\ Answer(NoIP, {})
  /\ UNCHANGED db

-----------------------------------------------------------------------------
Next ==
  \/ \E r \in Requests : Create(r[1], r[2])
  \/ \E n \in Names : <<n, NoIP>> \in Requests /\ CreateAuto(n)
  \/ \E n \in Names : Delete(n)
  \/ \E n \in Names, m \in Mapping : AddTarget(n, m)
  \/ \E n \in Names, m \in Mapping : DelTarget(n, m)
  \/ Stop
  \/ Reboot
  \/ Restore

Spec == Init /\ [][Next]_vars

-----------------------------------------------------------------------------
(* Properties *)

(* While lbmanager serves, the external link carries the container's own   *)
(* addresses and exactly one alias per load balancer: Delete takes back    *)
(* what Create put there, and Restore puts back what a reboot took.        *)
AddrsAccounted == up => addrs = BaseAddrs \cup {db[n].ip : n \in Stored}

(* No two load balancers have the same address, whether it was allocated   *)
(* by the IPAM or requested.                                               *)
OwnAddress == \A n, k \in Stored : n # k => db[n].ip # db[k].ip

(* While lbmanager serves, every recorded mapping is a destination in the  *)
(* kernel: what a client was told is mapped receives traffic.              *)
TargetsServed == up => \A n \in Stored : \A m \in db[n].targets : EntryOf(db[n], m) \in dests

(* The kernel forwards to no destination that is not recorded for the load *)
(* balancer that owns the address: nothing removed goes on being served.   *)
DestsRecorded == \A e \in dests : \E n \in Stored : \E m \in db[n].targets : e = EntryOf(db[n], m)

(* The database never disagrees with the kernel to the point that a call   *)
(* it was the reason for is refused: no AddTarget finds its destination    *)
(* already there, and no DelTarget or Delete misses what it removes.       *)
KernelNeverRefuses ==
  reply.code \cap {"AddDestinationFailed", "DelDestinationFailed", "NoSuchService", "NoSuchIP"} = {}

(* The entries the kernel has for the address of load balancer n.          *)
Traffic(n) == {e \in dests : e[1][1] = db[n].ip}

(* An RPC on one load balancer leaves the traffic of every other one       *)
(* exactly as it was.                                                      *)
OthersUntouched ==
  [][\A n \in Stored : up /\ up' /\ reply'.name # n => Traffic(n)' = Traffic(n)]_vars

(* The parts of the inductive invariant behind these properties.  They     *)
(* hold when ExclusiveRequests and PortsFit do.                            *)

(* An address was allocated from the dynamic range or requested for this   *)
(* very load balancer, and is none of the link's own.                      *)
AddressOrigin ==
  \A n \in Stored : /\ db[n].ip \in DynRange \/ <<n, db[n].ip>> \in Requests
                    /\ db[n].ip \notin BaseAddrs

(* Also while lbmanager is down, nothing is on the link that is neither    *)
(* the link's own nor the alias of a stored load balancer.                 *)
AddrsBounded == BaseAddrs \subseteq addrs /\ addrs \subseteq BaseAddrs \cup {db[n].ip : n \in Stored}

EntriesHaveService == \A e \in dests : e[1] \in svcs

(* The database, the link's addresses and the IPVS table agree, across     *)
(* every sequence of RPCs, stops, reboots and restarts.                    *)
Consistent ==
  /\ TypeOK
  /\ AddressOrigin
  /\ OwnAddress
  /\ AddrsBounded
  /\ AddrsAccounted
  /\ EntriesHaveService
  /\ DestsRecorded
  /\ TargetsServed
  /\ KernelNeverRefuses

(* The alias of a stored load balancer is on the link while lbmanager      *)
(* serves, also when another load balancer had the same address.           *)
AliasPresent == up => \A n \in Stored : db[n].ip \in addrs
=============================================================================
