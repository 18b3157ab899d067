----------------------------- MODULE Instances -----------------------------
(***************************************************************************)
(* The instances of the cloud provider (internal/proxmox/instance.go), for *)
(* one Kubernetes node: InstanceExists, InstanceShutdown and               *)
(* InstanceMetadata, one request to the Proxmox API per step, while        *)
(* machines are created, destroyed, migrated and switched on and off.      *)
(*                                                                         *)
(* A provider ID is the host and the VM ID it was made from.  getVMRef     *)
(* takes the VM ID out of it and ignores the host; an ID it cannot parse   *)
(* counts as none, and the node's name is looked up instead.               *)
(***************************************************************************)
EXTENDS Integers

CONSTANTS
  Machines,    \* machines of the Proxmox cluster, by name
  Self,        \* the machine that bears the node's name
  IDsOf,       \* machine -> VM IDs it may have, one after the other
  Hosts,       \* hosts of the Proxmox cluster
  NoVM,        \* the machine does not exist
  NoID,        \* the node has no provider ID
  Foreign,     \* a provider ID that is not in the provider's format
  MaxChanges   \* bound on changes of the machines

IDs == UNION {IDsOf[m] : m \in Machines}
VM == [id : IDs, host : Hosts, running : BOOLEAN]
ProviderID == [host : Hosts, id : IDs]

ASSUME InstancesAssumption ==
  /\ Self \in Machines
  /\ NoVM \notin VM
  /\ NoID \notin IDs \cup Hosts \cup ProviderID
  /\ Foreign \notin ProviderID \cup {NoID}
  /\ MaxChanges \in Nat

(* No VM ID is given to another machine later on.                          *)
IDsNotReused == \A m, k \in Machines : m # k => IDsOf[m] \cap IDsOf[k] = {}

VARIABLES
  vms,         \* machine -> what Proxmox knows of it
  providerID,  \* spec.providerID of the node
  call,        \* the call under way: operation, provider ID, VM reference, host found
  answer,      \* the last answer
  seen,        \* history: the states of the node's machine during the call
  changes

vars == <<vms, providerID, call, answer, seen, changes>>

Ops == {"exists", "shutdown", "metadata"}
Idle == [op |-> "none", pc |-> "idle", pid |-> NoID, ref |-> NoID, host |-> NoID]
NoAnswer == [op |-> "none", pid |-> NoID, value |-> "none", providerID |-> NoID,
             machine |-> NoID, failed |-> FALSE]

TypeOK ==
  /\ vms \in [Machines -> VM \cup {NoVM}]
  /\ \A m \in Machines : vms[m] # NoVM => vms[m].id \in IDsOf[m]
  /\ providerID \in ProviderID \cup {NoID, Foreign}
  /\ call \in [op : Ops \cup {"none"}, pc : {"idle", "ref", "info", "config"},
               pid : ProviderID \cup {NoID, Foreign}, ref : IDs \cup {NoID}, host : Hosts \cup {NoID}]
  /\ answer \in [op : Ops \cup {"none"}, pid : ProviderID \cup {NoID, Foreign},
                 value : {"none", "yes", "no", "metadata", "error"},
                 providerID : ProviderID \cup {NoID}, machine : Machines \cup {NoID}, failed : BOOLEAN]
  /\ seen \subseteq VM \cup {NoVM}

Init ==
  /\ vms = [m \in Machines |-> NoVM]
  /\ providerID \in {NoID, Foreign}
  /\ call = Idle
  /\ answer = NoAnswer
  /\ seen = {}
  /\ changes = 0

-----------------------------------------------------------------------------
(* The Proxmox cluster *)

Becomes(m, vm) ==
  /\ changes < MaxChanges
  /\ changes' = changes + 1
  /\ vms' = [vms EXCEPT ![m] = vm]
  /\ seen' = IF call.pc = "idle" THEN seen ELSE seen \cup {vms'[Self]}
  /\ UNCHANGED <<providerID, call, answer>>

Free(id) == \A m \in Machines : vms[m] # NoVM => vms[m].id # id

CreateVM(m) ==
  /\ vms[m] = NoVM
  /\ \E id \in IDsOf[m], h \in Hosts :
       Free(id) /\ Becomes(m, [id |-> id, host |-> h, running |-> TRUE])

DestroyVM(m) == vms[m] # NoVM /\ Becomes(m, NoVM)

MigrateVM(m) ==
  /\ vms[m] # NoVM
  /\ \E h \in Hosts \ {vms[m].host} : Becomes(m, [vms[m] EXCEPT !.host = h])

PowerVM(m) == vms[m] # NoVM /\ Becomes(m, [vms[m] EXCEPT !.running = ~@])

-----------------------------------------------------------------------------
(* The provider *)

Begin(op) ==
  /\ call.pc = "idle"
  /\ call' = [Idle EXCEPT !.op = op, !.pc = "ref", !.pid = providerID]
  /\ seen' = {vms[Self]}
  /\ answer' = NoAnswer
  /\ UNCHANGED <<vms, providerID, changes>>

Answer(value, id, machine, failed) ==
  /\ answer' = [op |-> call.op, pid |-> call.pid, value |-> value, providerID |-> id,
                machine |-> machine, failed |-> failed]
  /\ call' = Idle
  /\ UNCHANGED <<vms, providerID, seen, changes>>

(* An error of getVMRef, getVMInfo or GetVmConfig: InstanceExists answers  *)
(* "no" and no error, the others return the error.                         *)
ReturnError(failed) ==
  Answer(IF call.op = "exists" THEN "no" ELSE "error", NoID, NoID, failed)

Continue(c) == call' = c /\ UNCHANGED <<vms, providerID, answer, seen, changes>>

(* getVMRef with an ID it can parse, without a request.                    *)
RefByProviderID ==
  /\ call.pc = "ref"
  /\ call.pid \notin {NoID, Foreign}
  /\ Continue([call EXCEPT !.pc = "info", !.ref = call.pid.id])

(* getVMRef without: GetVmRefByName.                                       *)
RefByName ==
  /\ call.pc = "ref"
  /\ call.pid \in {NoID, Foreign}
  /\ \/ vms[Self] = NoVM /\ ReturnError(FALSE)
     \/ vms[Self] # NoVM /\ Continue([call EXCEPT !.pc = "info", !.ref = vms[Self].id])

(* Mutant: the host of the provider ID is believed too.                    *)
InfoOnHost(m) ==
  /\ vms[m] # NoVM /\ vms[m].id = call.ref
  /\ call.pid \in ProviderID => vms[m].host = call.pid.host

(* The machine m is the one the reference stands for.                      *)
IsRef(m) == vms[m] # NoVM /\ vms[m].id = call.ref

(* getVMInfo, and what is made of it.                                      *)
Info ==
  /\ call.pc = "info"
  /\ \/ ~(\E m \in Machines : IsRef(m)) /\ ReturnError(FALSE)
     \/ \E m \in Machines :
          /\ IsRef(m)
          /\ \/ call.op = "exists" /\ Answer("yes", NoID, m, FALSE)
             \/ call.op = "shutdown" /\ Answer(IF vms[m].running THEN "no" ELSE "yes", NoID, m, FALSE)
             \/ call.op = "metadata" /\ Continue([call EXCEPT !.pc = "config", !.host = vms[m].host])

(* Mutant: the host is left out of the provider ID.                        *)
ProviderIDNoHost(host, id) == [host |-> NoID, id |-> id]
(* The provider ID made of what getVMInfo told.                            *)
getProviderID(host, id) == [host |-> host, id |-> id]

(* GetVmConfig: the addresses are those of the machine found.              *)
Config ==
  /\ call.pc = "config"
  /\ \/ ~(\E m \in Machines : IsRef(m)) /\ ReturnError(FALSE)
     \/ \E m \in Machines :
          IsRef(m) /\ Answer("metadata", getProviderID(call.host, call.ref), m, FALSE)

(* The request to the Proxmox API fails.                                   *)
ApiFails ==
  /\ \/ call.pc \in {"info", "config"}
     \/ call.pc = "ref" /\ call.pid \in {NoID, Foreign}
  /\ ReturnError(TRUE)

(* The node controller gives a node without a provider ID the one of its   *)
(* metadata.                                                               *)
Adopt ==
  /\ providerID = NoID
  /\ answer.value = "metadata"
  /\ providerID' = answer.providerID
  /\ UNCHANGED <<vms, call, answer, seen, changes>>

Next ==
  \/ \E m \in Machines : CreateVM(m) \/ DestroyVM(m) \/ MigrateVM(m) \/ PowerVM(m)
  \/ \E op \in Ops : Begin(op)
  \/ RefByProviderID \/ RefByName \/ Info \/ Config \/ ApiFails
  \/ Adopt

Spec == Init /\ [][Next]_vars

-----------------------------------------------------------------------------
(* Properties *)

(* s is the machine the node is running on, as far as the provider ID with *)
(* which the call began tells.                                             *)
IsNodes(s) == s # NoVM /\ (answer.pid \in ProviderID => s.id = answer.pid.id)

(* An answer was true at some moment of the call, though the machine may   *)
(* be destroyed, made anew under another VM ID, migrated or switched off   *)
(* between the requests of getVMRef, getVMInfo and GetVmConfig: "exists"   *)
(* is said of a machine that existed, "does not exist" of one that did not *)
(* (unless the API failed, which InstanceExists does not tell apart),      *)
(* "shutdown" of one that was not running, and a provider ID names the     *)
(* node's own machine, its VM ID and a host it was on.                     *)
AnswerWasTrue ==
  IDsNotReused =>
    /\ answer.op = "exists" /\ answer.value = "yes" =>
         answer.machine = Self /\ \E s \in seen : IsNodes(s)
    /\ answer.op = "exists" /\ answer.value = "no" =>
         answer.failed \/ \E s \in seen : ~IsNodes(s)
    /\ answer.op = "shutdown" /\ answer.value # "error" =>
         \E s \in seen : IsNodes(s) /\ (s.running <=> answer.value = "no")
    /\ answer.value = "metadata" =>
         /\ answer.machine = Self
         /\ \E s \in seen : IsNodes(s) /\ getProviderID(s.host, s.id) = answer.providerID
=============================================================================
