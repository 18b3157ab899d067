-------------------------- MODULE InstancesProofs --------------------------
(***************************************************************************)
(* Proofs about Instances, for any machines, hosts and VM IDs and any      *)
(* number of changes.                                                      *)
(***************************************************************************)
EXTENDS Instances, TLAPS

Pids == ProviderID \cup {NoID, Foreign}

(* The parts of TypeOK, to be cited one by one.                            *)
VmsType ==
  /\ vms \in [Machines -> VM \cup {NoVM}]
  /\ \A m \in Machines : vms[m] # NoVM => vms[m].id \in IDsOf[m]
CallType ==
  call \in [op : Ops \cup {"none"}, pc : {"idle", "ref", "info", "config"},
            pid : Pids, ref : IDs \cup {NoID}, host : Hosts \cup {NoID}]
AnswerType ==
  answer \in [op : Ops \cup {"none"}, pid : Pids,
              value : {"none", "yes", "no", "metadata", "error"},
              providerID : ProviderID \cup {NoID}, machine : Machines \cup {NoID}, failed : BOOLEAN]

LEMMA TypeParts ==
  /\ TypeOK <=> VmsType /\ providerID \in Pids /\ CallType /\ AnswerType /\ seen \subseteq VM \cup {NoVM}
  /\ TypeOK' <=> VmsType' /\ providerID' \in Pids /\ CallType' /\ AnswerType' /\ seen' \subseteq VM \cup {NoVM}
BY DEF TypeOK, VmsType, CallType, AnswerType, Pids

(* A machine that becomes vm leaves the types intact.                      *)
LEMMA BecomesTyped ==
  ASSUME TypeOK, NEW m \in Machines, NEW vm \in VM \cup {NoVM},
         vm # NoVM => vm.id \in IDsOf[m], Becomes(m, vm)
  PROVE  TypeOK'
<1>1. vms' = [vms EXCEPT ![m] = vm] /\ UNCHANGED <<providerID, call, answer>>
  BY DEF Becomes
<1>2. VmsType'
  BY <1>1, TypeParts DEF VmsType
<1>3. seen' \subseteq VM \cup {NoVM}
  BY <1>2, InstancesAssumption, TypeParts DEF Becomes, VmsType, InstancesAssumption
<1> QED
  BY <1>1, <1>2, <1>3, TypeParts DEF CallType, AnswerType

LEMMA AnswerTyped ==
  ASSUME TypeOK, NEW value \in {"yes", "no", "metadata", "error"},
         NEW id \in ProviderID \cup {NoID}, NEW m \in Machines \cup {NoID}, NEW failed \in BOOLEAN,
         Answer(value, id, m, failed)
  PROVE  TypeOK'
<1>1. UNCHANGED <<vms, providerID, seen>>
  BY DEF Answer
<1>2. CallType'
  BY DEF Answer, Idle, CallType, Pids
<1>3. AnswerType'
  BY TypeParts DEF Answer, CallType, AnswerType
<1> QED
  BY <1>1, <1>2, <1>3, TypeParts DEF VmsType

LEMMA ReturnErrorTyped ==
  ASSUME TypeOK, NEW failed \in BOOLEAN, ReturnError(failed)
  PROVE  TypeOK'
BY AnswerTyped DEF ReturnError

LEMMA ContinueTyped ==
  ASSUME TypeOK, NEW c, Continue(c),
         c \in [op : Ops \cup {"none"}, pc : {"idle", "ref", "info", "config"},
                pid : Pids, ref : IDs \cup {NoID}, host : Hosts \cup {NoID}]
  PROVE  TypeOK'
BY TypeParts DEF Continue, VmsType, CallType, AnswerType

LEMMA VMFields ==
  ASSUME TypeOK, NEW m \in Machines, vms[m] # NoVM
  PROVE  /\ vms[m] \in VM
         /\ vms[m].id \in IDsOf[m] /\ vms[m].id \in IDs
         /\ vms[m].host \in Hosts /\ vms[m].running \in BOOLEAN
BY DEF TypeOK, VM, IDs

(* What a call knows at each of its steps.  It is what keeps TypeOK going: *)
(* a provider ID is made of a host and a VM ID only because getVMInfo came *)
(* before.                                                                 *)
Looked ==
  /\ call.pc # "idle" => call.op \in Ops
  /\ call.pc \in {"info", "config"} => call.ref \in IDs
  /\ call.pc = "config" => call.op = "metadata" /\ call.host \in Hosts

LEMMA TypeInductive == TypeOK /\ Looked /\ [Next]_vars => TypeOK'
<1> SUFFICES ASSUME TypeOK, Looked, [Next]_vars PROVE TypeOK'
  OBVIOUS
<1>1. ASSUME NEW m \in Machines, CreateVM(m)
      PROVE  TypeOK'
  <2>1. PICK id \in IDsOf[m], h \in Hosts : Becomes(m, [id |-> id, host |-> h, running |-> TRUE])
    BY <1>1 DEF CreateVM
  <2>2. [id |-> id, host |-> h, running |-> TRUE] \in VM
    BY DEF VM, IDs
  <2> QED
    BY <2>1, <2>2, BecomesTyped
<1>2. ASSUME NEW m \in Machines, DestroyVM(m)
      PROVE  TypeOK'
  BY <1>2, BecomesTyped DEF DestroyVM
<1>3. ASSUME NEW m \in Machines, MigrateVM(m)
      PROVE  TypeOK'
  <2>1. PICK h \in Hosts : Becomes(m, [vms[m] EXCEPT !.host = h])
    BY <1>3 DEF MigrateVM
  <2>2. [vms[m] EXCEPT !.host = h] \in VM /\ [vms[m] EXCEPT !.host = h].id \in IDsOf[m]
    BY <1>3, VMFields DEF MigrateVM, VM
  <2> QED
    BY <2>1, <2>2, BecomesTyped
<1>4. ASSUME NEW m \in Machines, PowerVM(m)
      PROVE  TypeOK'
  <2>1. Becomes(m, [vms[m] EXCEPT !.running = ~@])
    BY <1>4 DEF PowerVM
  <2>2. [vms[m] EXCEPT !.running = ~@] \in VM /\ [vms[m] EXCEPT !.running = ~@].id \in IDsOf[m]
    BY <1>4, VMFields DEF PowerVM, VM
  <2> QED
    BY <2>1, <2>2, BecomesTyped
<1>5. ASSUME NEW op \in Ops, Begin(op)
      PROVE  TypeOK'
  <2>1. UNCHANGED <<vms, providerID>>
    BY <1>5 DEF Begin
  <2>2. CallType' /\ AnswerType'
    BY <1>5, TypeParts DEF Begin, Idle, NoAnswer, CallType, AnswerType, Pids
  <2>3. seen' \subseteq VM \cup {NoVM}
    BY <1>5, TypeParts, InstancesAssumption DEF Begin, VmsType, InstancesAssumption
  <2> QED
    BY <2>1, <2>2, <2>3, TypeParts DEF VmsType
<1>6. CASE RefByProviderID
  <2>1. call.pid.id \in IDs
    BY <1>6, TypeParts DEF RefByProviderID, CallType, Pids, ProviderID
  <2> QED
    BY <1>6, <2>1, ContinueTyped, TypeParts DEF RefByProviderID, CallType
<1>7. CASE RefByName
  <2>1. CASE vms[Self] = NoVM /\ ReturnError(FALSE)
    BY <2>1, ReturnErrorTyped
  <2>2. CASE vms[Self] # NoVM /\ Continue([call EXCEPT !.pc = "info", !.ref = vms[Self].id])
    BY <2>2, ContinueTyped, VMFields, TypeParts, InstancesAssumption DEF CallType, InstancesAssumption
  <2> QED
    BY <1>7, <2>1, <2>2 DEF RefByName
<1>8. CASE Info
  <2>1. CASE ReturnError(FALSE)
    BY <2>1, ReturnErrorTyped
  <2>2. ASSUME NEW m \in Machines, NEW value \in {"yes", "no"}, Answer(value, NoID, m, FALSE)
        PROVE  TypeOK'
    BY <2>2, AnswerTyped
  <2>3. ASSUME NEW m \in Machines, IsRef(m), Continue([call EXCEPT !.pc = "config", !.host = vms[m].host])
        PROVE  TypeOK'
    BY <2>3, ContinueTyped, VMFields, TypeParts DEF CallType, IsRef
  <2> QED
    BY <1>8, <2>1, <2>2, <2>3 DEF Info
<1>9. CASE Config
  <2>1. CASE ReturnError(FALSE)
    BY <2>1, ReturnErrorTyped
  <2>2. ASSUME NEW m \in Machines, IsRef(m), Answer("metadata", getProviderID(call.host, call.ref), m, FALSE)
        PROVE  TypeOK'
    <3>1. getProviderID(call.host, call.ref) \in ProviderID
      BY <1>9 DEF Config, Looked, getProviderID, ProviderID
    <3> QED
      BY <2>2, <3>1, AnswerTyped
  <2> QED
    BY <1>9, <2>1, <2>2 DEF Config
<1>10. CASE ApiFails
  BY <1>10, ReturnErrorTyped DEF ApiFails
<1>11. CASE Adopt
  BY <1>11, TypeParts DEF Adopt, VmsType, CallType, AnswerType, Pids
<1>12. CASE UNCHANGED vars
  BY <1>12, TypeParts DEF vars, VmsType, CallType, AnswerType
<1> QED
  BY <1>1, <1>2, <1>3, <1>4, <1>5, <1>6, <1>7, <1>8, <1>9, <1>10, <1>11, <1>12 DEF Next

(* A step keeps what the call knows.                                       *)
LEMMA LookedInductive == TypeOK /\ Looked /\ [Next]_vars => Looked'
<1> SUFFICES ASSUME TypeOK, Looked, [Next]_vars PROVE Looked'
  OBVIOUS
<1> USE DEF Looked
<1>1. ASSUME UNCHANGED call
      PROVE  Looked'
  BY <1>1
<1>2. ASSUME call' = Idle
      PROVE  Looked'
  BY <1>2 DEF Idle
<1>3. ASSUME NEW m \in Machines, CreateVM(m) \/ DestroyVM(m) \/ MigrateVM(m) \/ PowerVM(m)
      PROVE  Looked'
  BY <1>1, <1>3 DEF CreateVM, DestroyVM, MigrateVM, PowerVM, Becomes
<1>4. ASSUME NEW op \in Ops, Begin(op)
      PROVE  Looked'
  BY <1>4 DEF Begin, Idle
<1>5. CASE RefByProviderID
  <2>1. call.pid.id \in IDs
    BY <1>5, TypeParts DEF RefByProviderID, CallType, Pids, ProviderID
  <2> QED
    BY <1>5, <2>1, TypeParts DEF RefByProviderID, Continue, CallType
<1>6. CASE RefByName
  <2>1. CASE ReturnError(FALSE)
    BY <1>2, <2>1 DEF ReturnError, Answer
  <2>2. CASE vms[Self] # NoVM /\ Continue([call EXCEPT !.pc = "info", !.ref = vms[Self].id])
    BY <1>6, <2>2, VMFields, TypeParts, InstancesAssumption
    DEF RefByName, Continue, CallType, InstancesAssumption
  <2> QED
    BY <1>6, <2>1, <2>2 DEF RefByName
<1>7. CASE Info
  <2>1. ASSUME NEW m \in Machines, IsRef(m), call.op = "metadata",
               Continue([call EXCEPT !.pc = "config", !.host = vms[m].host])
        PROVE  Looked'
    BY <1>7, <2>1, VMFields, TypeParts DEF Info, Continue, CallType, IsRef
  <2> QED
    BY <1>2, <1>7, <2>1 DEF Info, ReturnError, Answer
<1>8. CASE Config \/ ApiFails
  BY <1>2, <1>8 DEF Config, ApiFails, ReturnError, Answer
<1>9. CASE Adopt \/ UNCHANGED vars
  BY <1>1, <1>9 DEF Adopt, vars
<1> QED
  BY <1>3, <1>4, <1>5, <1>6, <1>7, <1>8, <1>9 DEF Next

(* Every state of the calls and of the machines has its type: in           *)
(* particular a provider ID that the provider makes always has a host and  *)
(* a VM ID, though the two come from different requests.                   *)
THEOREM TypeCorrect == Spec => []TypeOK
<1>1. Init => TypeOK /\ Looked
  BY DEF Init, TypeOK, Looked, Idle, NoAnswer, VM
<1> QED
  BY <1>1, TypeInductive, LookedInductive, PTL DEF Spec

-----------------------------------------------------------------------------
(* Truth of the answers.  While a call is under way its history holds the  *)
(* machine as it is now; the reference it looks up is one of the node's    *)
(* own VM IDs; and if the machine is no longer the one that was found by   *)
(* its name, there was a moment without a machine.                         *)
OwnIDs ==
  /\ providerID \in ProviderID => providerID.id \in IDsOf[Self]
  /\ call.pid \in ProviderID => call.pid.id \in IDsOf[Self]
  /\ answer.providerID \in ProviderID => answer.providerID.id \in IDsOf[Self]

Watched ==
  /\ call.pc # "idle" => answer = NoAnswer /\ vms[Self] \in seen
  /\ call.pc \in {"info", "config"} =>
       /\ call.ref \in IDsOf[Self]
       /\ call.pid \in ProviderID => call.ref = call.pid.id
       /\ call.pid \notin ProviderID =>
            NoVM \in seen \/ (vms[Self] # NoVM /\ vms[Self].id = call.ref)
  /\ call.pc = "config" => \E s \in seen : s # NoVM /\ s.id = call.ref /\ s.host = call.host

Inv == TypeOK /\ Looked /\ (IDsNotReused => OwnIDs /\ Watched) /\ AnswerWasTrue

(* A reference to one of the node's VM IDs finds the node's machine.       *)
LEMMA RefIsSelf ==
  ASSUME TypeOK, IDsNotReused, call.ref \in IDsOf[Self], NEW m \in Machines, IsRef(m)
  PROVE  m = Self
BY InstancesAssumption DEF IDsNotReused, IsRef, TypeOK, InstancesAssumption

(* Changes of the machines.                                                *)
LEMMA BecomesTrue ==
  ASSUME Inv, NEW m \in Machines, NEW vm, Becomes(m, vm), vms[m] # NoVM => vm = NoVM \/ vm.id = vms[m].id
  PROVE  AnswerWasTrue' /\ (IDsNotReused => OwnIDs' /\ Watched')
<1>1. UNCHANGED <<providerID, call, answer>> /\ seen \subseteq seen' /\ (call.pc = "idle" => seen' = seen)
  BY DEF Becomes
<1>2. call.pc # "idle" => vms'[Self] \in seen'
  BY DEF Becomes
<1>3. vms'[Self] = vms[Self] \/ (vms'[Self] = vm /\ m = Self)
  BY InstancesAssumption DEF Becomes, Inv, TypeOK, InstancesAssumption
<1>4. AnswerWasTrue'
  <2>1. CASE call.pc = "idle"
    BY <1>1, <2>1 DEF Inv, AnswerWasTrue, IsNodes
  <2>2. CASE call.pc # "idle" /\ IDsNotReused
    BY <1>1, <2>2 DEF Inv, AnswerWasTrue, Watched, NoAnswer
  <2> QED
    BY <2>1, <2>2 DEF AnswerWasTrue
<1>5. ASSUME IDsNotReused
      PROVE  OwnIDs' /\ Watched'
  <2>1. OwnIDs'
    BY <1>1, <1>5 DEF Inv, OwnIDs
  <2>2. call.pc \in {"info", "config"} /\ call.pid \notin ProviderID =>
          NoVM \in seen' \/ (vms'[Self] # NoVM /\ vms'[Self].id = call.ref)
    BY <1>1, <1>2, <1>3, <1>5 DEF Inv, Watched
  <2> QED
    BY <1>1, <1>2, <1>5, <2>1, <2>2 DEF Inv, Watched
<1> QED
  BY <1>4, <1>5

(* Steps of a call that do not answer.                                     *)
LEMMA ContinueTrue ==
  ASSUME Inv, NEW c, Continue(c), call.pc # "idle"
  PROVE  AnswerWasTrue'
<1>1. IDsNotReused => answer' = NoAnswer
  BY DEF Inv, Watched, Continue
<1> QED
  BY <1>1 DEF AnswerWasTrue, NoAnswer

(* An answer is given: the call is over.                                   *)
LEMMA AnswerEnds ==
  ASSUME Inv, NEW value, NEW id, NEW m, NEW failed, Answer(value, id, m, failed), IDsNotReused,
         id \in ProviderID => id.id \in IDsOf[Self]
  PROVE  OwnIDs' /\ Watched'
<1>1. call' = Idle /\ UNCHANGED providerID /\ answer'.providerID = id
  BY DEF Answer
<1>2. Idle.pid \notin ProviderID /\ Idle.pc = "idle"
  BY InstancesAssumption DEF Idle, InstancesAssumption
<1> QED
  BY <1>1, <1>2 DEF Inv, OwnIDs, Watched

(* An error, and the "no" that InstanceExists makes of it, is true when    *)
(* the request failed or some state of the machine was not the node's.     *)
LEMMA ErrorTrue ==
  ASSUME Inv, NEW failed \in BOOLEAN, ReturnError(failed), IDsNotReused,
         failed \/ \E s \in seen : ~(s # NoVM /\ (call.pid \in ProviderID => s.id = call.pid.id))
  PROVE  AnswerWasTrue' /\ OwnIDs' /\ Watched'
<1>1. Answer(IF call.op = "exists" THEN "no" ELSE "error", NoID, NoID, failed)
  BY DEF ReturnError
<1>2. OwnIDs' /\ Watched'
  BY <1>1, AnswerEnds, InstancesAssumption DEF InstancesAssumption
<1>3. /\ answer'.op = call.op /\ answer'.pid = call.pid /\ answer'.failed = failed /\ seen' = seen
      /\ answer'.value = IF call.op = "exists" THEN "no" ELSE "error"
  BY <1>1 DEF Answer
<1> QED
  BY <1>2, <1>3 DEF AnswerWasTrue, IsNodes

(* The machine the reference finds is the node's.                          *)
LEMMA FoundIsNodes ==
  ASSUME Inv, IDsNotReused, call.pc \in {"info", "config"}, NEW m \in Machines, IsRef(m)
  PROVE  /\ m = Self /\ vms[m] \in seen /\ vms[m] # NoVM
         /\ vms[m].id = call.ref /\ (call.pid \in ProviderID => vms[m].id = call.pid.id)
<1>1. m = Self
  BY RefIsSelf DEF Inv, Watched
<1> QED
  BY <1>1 DEF Inv, Watched, IsRef

(* No machine is found: there was a moment without the node's machine.     *)
LEMMA NotFoundIsTrue ==
  ASSUME Inv, IDsNotReused, call.pc \in {"info", "config"}, ~(\E m \in Machines : IsRef(m))
  PROVE  \E s \in seen : ~(s # NoVM /\ (call.pid \in ProviderID => s.id = call.pid.id))
<1>1. vms[Self] \in seen /\ (vms[Self] = NoVM \/ vms[Self].id # call.ref)
  BY InstancesAssumption DEF Inv, Watched, IsRef, InstancesAssumption
<1> QED
  BY <1>1 DEF Inv, Watched

LEMMA TruthInductive ==
  ASSUME Inv, [Next]_vars
  PROVE  AnswerWasTrue' /\ (IDsNotReused => OwnIDs' /\ Watched')
<1> DEFINE Goal == AnswerWasTrue' /\ (IDsNotReused => OwnIDs' /\ Watched')
<1>0. IDsNotReused \/ AnswerWasTrue'
  BY DEF AnswerWasTrue
<1>1. ASSUME NEW m \in Machines, CreateVM(m) \/ DestroyVM(m)
      PROVE  Goal
  BY <1>1, BecomesTrue DEF CreateVM, DestroyVM
<1>2. ASSUME NEW m \in Machines, MigrateVM(m)
      PROVE  Goal
  <2>1. PICK h \in Hosts : vms[m] # NoVM /\ Becomes(m, [vms[m] EXCEPT !.host = h])
    BY <1>2 DEF MigrateVM
  <2>2. [vms[m] EXCEPT !.host = h].id = vms[m].id
    BY <2>1, VMFields DEF Inv, VM
  <2> QED
    BY <2>1, <2>2, BecomesTrue
<1>3. ASSUME NEW m \in Machines, PowerVM(m)
      PROVE  Goal
  <2>1. vms[m] # NoVM /\ Becomes(m, [vms[m] EXCEPT !.running = ~@])
    BY <1>3 DEF PowerVM
  <2>2. [vms[m] EXCEPT !.running = ~@].id = vms[m].id
    BY <2>1, VMFields DEF Inv, VM
  <2> QED
    BY <2>1, <2>2, BecomesTrue
<1>4. ASSUME NEW op \in Ops, Begin(op), IDsNotReused
      PROVE  Goal
  <2>1. /\ answer' = NoAnswer /\ seen' = {vms[Self]} /\ vms' = vms /\ providerID' = providerID
        /\ call'.pc = "ref" /\ call'.pid = providerID
    BY <1>4 DEF Begin, Idle
  <2>2. AnswerWasTrue'
    BY <2>1 DEF AnswerWasTrue, NoAnswer
  <2>3. OwnIDs'
    BY <1>4, <2>1, InstancesAssumption DEF Inv, OwnIDs, NoAnswer, InstancesAssumption
  <2>4. Watched'
    BY <2>1 DEF Watched
  <2> QED
    BY <2>2, <2>3, <2>4
<1>5. ASSUME RefByProviderID, IDsNotReused
      PROVE  Goal
  <2>1. /\ call' = [call EXCEPT !.pc = "info", !.ref = call.pid.id] /\ call.pc = "ref"
        /\ UNCHANGED <<vms, providerID, answer, seen>>
    BY <1>5 DEF RefByProviderID, Continue
  <2>2. call.pid \in ProviderID
    BY <1>5 DEF RefByProviderID, Inv, TypeOK
  <2>3. call'.pc = "info" /\ call'.ref = call.pid.id /\ call'.pid = call.pid
    BY <2>1 DEF Inv, TypeOK
  <2>4. AnswerWasTrue'
    BY <1>5, <2>1, ContinueTrue DEF RefByProviderID
  <2> QED
    BY <1>5, <2>1, <2>2, <2>3, <2>4 DEF Inv, OwnIDs, Watched
<1>6. ASSUME RefByName, IDsNotReused
      PROVE  Goal
  <2>1. CASE vms[Self] = NoVM /\ ReturnError(FALSE)
    <3>1. NoVM \in seen
      BY <1>6, <2>1 DEF RefByName, Inv, Watched
    <3> QED
      BY <1>6, <2>1, <3>1, ErrorTrue
  <2>2. CASE vms[Self] # NoVM /\ Continue([call EXCEPT !.pc = "info", !.ref = vms[Self].id])
    <3>1. /\ call'.pc = "info" /\ call'.ref = vms[Self].id /\ call'.pid = call.pid /\ call.pc = "ref"
          /\ UNCHANGED <<vms, providerID, answer, seen>>
      BY <1>6, <2>2 DEF RefByName, Continue, Inv, TypeOK
    <3>2. vms[Self].id \in IDsOf[Self] /\ call.pid \notin ProviderID
      BY <1>6, <2>2, VMFields, InstancesAssumption DEF RefByName, Inv, InstancesAssumption
    <3>3. AnswerWasTrue'
      BY <2>2, <3>1, ContinueTrue
    <3> QED
      BY <1>6, <2>2, <3>1, <3>2, <3>3 DEF Inv, OwnIDs, Watched
  <2> QED
    BY <1>6, <2>1, <2>2 DEF RefByName
<1>7. ASSUME Info, IDsNotReused
      PROVE  Goal
  <2>1. CASE ~(\E m \in Machines : IsRef(m)) /\ ReturnError(FALSE)
    BY <1>7, <2>1, NotFoundIsTrue, ErrorTrue DEF Info
  <2>2. ASSUME NEW m \in Machines, IsRef(m), call.op = "exists", Answer("yes", NoID, m, FALSE)
        PROVE  Goal
    <3>1. OwnIDs' /\ Watched'
      BY <1>7, <2>2, AnswerEnds, InstancesAssumption DEF InstancesAssumption
    <3>2. /\ answer'.op = "exists" /\ answer'.pid = call.pid /\ answer'.machine = m
          /\ answer'.value = "yes" /\ seen' = seen
      BY <2>2 DEF Answer
    <3> QED
      BY <1>7, <2>2, <3>1, <3>2, FoundIsNodes DEF Info, AnswerWasTrue, IsNodes
  <2>3. ASSUME NEW m \in Machines, IsRef(m), call.op = "shutdown",
               Answer(IF vms[m].running THEN "no" ELSE "yes", NoID, m, FALSE)
        PROVE  Goal
    <3>1. OwnIDs' /\ Watched'
      BY <1>7, <2>3, AnswerEnds, InstancesAssumption DEF InstancesAssumption
    <3>2. /\ answer'.op = "shutdown" /\ answer'.pid = call.pid /\ seen' = seen
          /\ answer'.value = IF vms[m].running THEN "no" ELSE "yes"
      BY <2>3 DEF Answer
    <3>3. vms[m].running <=> answer'.value = "no"
      BY <3>2
    <3> QED
      BY <1>7, <2>3, <3>1, <3>2, <3>3, FoundIsNodes DEF Info, AnswerWasTrue, IsNodes
  <2>4. ASSUME NEW m \in Machines, IsRef(m), Continue([call EXCEPT !.pc = "config", !.host = vms[m].host])
        PROVE  Goal
    <3>1. /\ call'.pc = "config" /\ call'.ref = call.ref /\ call'.pid = call.pid /\ call.pc = "info"
          /\ call'.host = vms[m].host /\ UNCHANGED <<vms, providerID, answer, seen>>
      BY <1>7, <2>4 DEF Info, Continue, Inv, TypeOK
    <3>2. AnswerWasTrue'
      BY <2>4, <3>1, ContinueTrue
    <3> QED
      BY <1>7, <2>4, <3>1, <3>2, FoundIsNodes DEF Inv, OwnIDs, Watched
  <2> QED
    BY <1>7, <2>1, <2>2, <2>3, <2>4 DEF Info
<1>8. ASSUME Config, IDsNotReused
      PROVE  Goal
  <2>1. CASE ~(\E m \in Machines : IsRef(m)) /\ ReturnError(FALSE)
    BY <1>8, <2>1, NotFoundIsTrue, ErrorTrue DEF Config
  <2>2. ASSUME NEW m \in Machines, IsRef(m), Answer("metadata", getProviderID(call.host, call.ref), m, FALSE)
        PROVE  Goal
    <3>1. getProviderID(call.host, call.ref).id \in IDsOf[Self]
      BY <1>8 DEF Config, Inv, Watched, getProviderID
    <3>2. OwnIDs' /\ Watched'
      BY <1>8, <2>2, <3>1, AnswerEnds
    <3>3. /\ answer'.op = "metadata" /\ answer'.pid = call.pid /\ answer'.machine = m /\ seen' = seen
          /\ answer'.value = "metadata" /\ answer'.providerID = getProviderID(call.host, call.ref)
      BY <1>8, <2>2 DEF Answer, Config, Inv, Looked
    <3>4. PICK s \in seen : s # NoVM /\ s.id = call.ref /\ s.host = call.host
      BY <1>8 DEF Config, Inv, Watched
    <3>5. call.pid \in ProviderID => s.id = call.pid.id
      BY <1>8, <3>4 DEF Config, Inv, Watched
    <3>6. m = Self
      BY <1>8, <2>2, FoundIsNodes DEF Config
    <3> QED
      BY <3>2, <3>3, <3>4, <3>5, <3>6 DEF AnswerWasTrue, IsNodes
  <2> QED
    BY <1>8, <2>1, <2>2 DEF Config
<1>9. ASSUME ApiFails, IDsNotReused
      PROVE  Goal
  BY <1>9, ErrorTrue DEF ApiFails
<1>10. CASE Adopt
  BY <1>10 DEF Adopt, Inv, OwnIDs, Watched, AnswerWasTrue, IsNodes
<1>11. CASE UNCHANGED vars
  BY <1>11 DEF vars, Inv, OwnIDs, Watched, AnswerWasTrue, IsNodes
<1> QED
  BY <1>0, <1>1, <1>2, <1>3, <1>4, <1>5, <1>6, <1>7, <1>8, <1>9, <1>10, <1>11 DEF Next

(* Unless VM IDs are given to other machines, every answer of              *)
(* InstanceExists, InstanceShutdown and InstanceMetadata was true of the   *)
(* node's machine at some moment of the call, however the machines change  *)
(* between the requests.                                                   *)
THEOREM AnswersTrue == Spec => []AnswerWasTrue
<1>1. Init => Inv
  <2> SUFFICES ASSUME Init PROVE Inv
    OBVIOUS
  <2>1. TypeOK /\ Looked
    BY DEF Init, TypeOK, Looked, Idle, NoAnswer, VM
  <2>2. OwnIDs /\ Watched
    BY InstancesAssumption DEF Init, OwnIDs, Watched, Idle, NoAnswer, InstancesAssumption
  <2>3. AnswerWasTrue
    BY DEF Init, AnswerWasTrue, NoAnswer
  <2> QED
    BY <2>1, <2>2, <2>3 DEF Inv
<1>2. Inv /\ [Next]_vars => Inv'
  <2> SUFFICES ASSUME Inv, [Next]_vars PROVE Inv'
    OBVIOUS
  <2>1. TypeOK' /\ Looked'
    BY TypeInductive, LookedInductive DEF Inv
  <2> QED
    BY <2>1, TruthInductive DEF Inv
<1>3. Inv => AnswerWasTrue
  BY DEF Inv
<1> QED
  BY <1>1, <1>2, <1>3, PTL DEF Spec
=============================================================================
