------------------------ MODULE CloudProviderProofs ------------------------
(***************************************************************************)
(* Proofs about CloudProvider, for any number of nodes, addresses, ports   *)
(* and goroutines of lbmanager, any changes of the cluster and any         *)
(* failures.                                                               *)
(***************************************************************************)
EXTENDS CloudProvider, LBServerStepsProofs

(* The local variables of a call.                                          *)
CpRecord ==
  [pc : Phases, spec : Specs \cup {<<>>}, nodes : SUBSET Nodes,
   addr : [Nodes -> Addresses \cup {NoAddress}] \cup {<<>>},
   current : SUBSET Mapping, i : Nat, left : SUBSET Mapping, remove : SUBSET Mapping,
   rpc : SUBSET Workers, failed : BOOLEAN, disturbed : BOOLEAN]

(* A call is untouched by lbmanager until it handles mappings or waits.    *)
CpOK(c) ==
  /\ c \in CpRecord
  /\ c.i <= Len(c.spec)
  /\ c.pc = "idle" => c = NoCall
  /\ c.pc # "idle" => c.addr \in [Nodes -> Addresses \cup {NoAddress}]
  /\ c.pc # "mappings" => c.i = 0 /\ c.left = {} /\ c.remove = {} /\ ~c.failed
  /\ c.pc \in {"get", "updateGet"} => c.rpc = {}

Calls == cp \in [Callers -> CpRecord] /\ \A w \in Callers : CpOK(cp[w])

WorldOK ==
  /\ spec \in Specs \cup {<<>>}
  /\ nodes \in SUBSET Nodes
  /\ addr \in [Nodes -> Addresses \cup {NoAddress}]
  /\ owed \subseteq {"ensure", "update", "delete"}
  /\ stale \in BOOLEAN

ProviderTypeInv == WorldOK /\ Calls /\ TypeInv

-----------------------------------------------------------------------------
(* Type correctness *)

LEMMA SpecLength == \A s \in Specs \cup {<<>>} : s \in Seq(ServicePort) /\ Len(s) \in Nat
<1>1. <<>> \in Seq(ServicePort) /\ Specs \subseteq Seq(ServicePort)
  BY ProviderAssumption DEF ProviderAssumption
<1>2. \A s \in Seq(ServicePort) : Len(s) \in Nat
  OBVIOUS
<1> QED
  BY <1>1, <1>2

LEMMA NoCallOK == CpOK(NoCall)
BY SpecLength DEF NoCall, CpOK, CpRecord, Phases

LEMMA TypedCps ==
  ASSUME Calls
  PROVE  \A w \in Callers : /\ cp[w].pc \in Phases
                            /\ cp[w].i \in 0..Len(cp[w].spec)
                            /\ cp[w].rpc \subseteq Workers
BY SpecLength DEF Calls, CpOK, CpRecord

LEMMA BecomesOK ==
  ASSUME Calls, NEW w \in Callers, NEW d, CpOK(d), Becomes(w, d)
  PROVE  Calls' /\ cp'[w] = d /\ \A v \in Callers \ {w} : cp'[v] = cp[v]
BY DEF Calls, CpOK, Becomes

(* What a port needs is what mappings lbmanager may be asked for.          *)
LEMMA PortTargets ==
  ASSUME NEW c, CpOK(c), c.pc # "idle", NEW j \in PortsLeft(c)
  PROVE  /\ WantedAt(c, j) \subseteq Mapping
         /\ j \in DOMAIN c.spec /\ j \in Nat /\ j <= Len(c.spec) /\ j > c.i
         /\ SupportedProtocol(c.spec[j])
         /\ c.spec \in Specs
<1>1. c.spec \in Seq(ServicePort) /\ j \in DOMAIN c.spec /\ j > c.i /\ SupportedProtocol(c.spec[j])
  BY SpecLength DEF CpOK, CpRecord, PortsLeft
<1>2. j \in 1..Len(c.spec) /\ Len(c.spec) \in Nat
  BY <1>1
<1>3. c.spec \in Specs
  BY <1>2 DEF CpOK, CpRecord
<1>4. c.spec[j] \in ServicePorts
  BY <1>1, <1>3 DEF ServicePorts
<1>5. ASSUME NEW n \in c.nodes, c.addr[n] # NoAddress
      PROVE  TargetKey(c.spec[j], n, c.addr[n]) \in AllTargets
  <2>1. n \in Nodes /\ c.addr[n] \in Addresses
    BY <1>5 DEF CpOK, CpRecord
  <2> QED
    BY <1>1, <1>4, <2>1 DEF AllTargets
<1>6. WantedAt(c, j) \subseteq Mapping
  BY <1>5, ProviderAssumption DEF WantedAt, ProviderAssumption
<1> QED
  BY <1>1, <1>2, <1>3, <1>6

(* Disturbing a call changes nothing else of it.                           *)
LEMMA DisturbedFields ==
  ASSUME Calls
  PROVE  /\ Disturbed(Callers) \in [Callers -> CpRecord]
         /\ \A v \in Callers :
              /\ CpOK(Disturbed(Callers)[v])
              /\ cp[v].pc = "idle" => Disturbed(Callers)[v] = cp[v]
              /\ cp[v].pc # "idle" => /\ Disturbed(Callers)[v] = [cp[v] EXCEPT !.disturbed = TRUE]
                                      /\ Disturbed(Callers)[v].disturbed
                                      /\ Disturbed(Callers)[v].pc = cp[v].pc
                                      /\ Disturbed(Callers)[v].spec = cp[v].spec
                                      /\ Disturbed(Callers)[v].rpc = cp[v].rpc
<1> SUFFICES ASSUME NEW v \in Callers
             PROVE  /\ CpOK(Disturbed(Callers)[v])
                    /\ cp[v].pc = "idle" => Disturbed(Callers)[v] = cp[v]
                    /\ cp[v].pc # "idle" => /\ Disturbed(Callers)[v] = [cp[v] EXCEPT !.disturbed = TRUE]
                                            /\ Disturbed(Callers)[v].disturbed
                                            /\ Disturbed(Callers)[v].pc = cp[v].pc
                                            /\ Disturbed(Callers)[v].spec = cp[v].spec
                                            /\ Disturbed(Callers)[v].rpc = cp[v].rpc
  BY DEF Disturbed, CpOK
<1> DEFINE d == [cp[v] EXCEPT !.disturbed = TRUE]
<1>1. CpOK(cp[v])
  BY DEF Calls
<1>2. cp[v].pc # "idle" => CpOK(d) /\ d.disturbed /\ d.pc = cp[v].pc /\ d.spec = cp[v].spec /\ d.rpc = cp[v].rpc
  BY <1>1 DEF CpOK, CpRecord
<1>3. Disturbed(Callers)[v] = IF cp[v].pc # "idle" THEN d ELSE cp[v]
  BY DEF Disturbed, Calling
<1> QED
  BY <1>1, <1>2, <1>3

(* A call that begins: the record of the new call, and who is disturbed.   *)
LEMMA CallBegins ==
  ASSUME Calls, WorldOK, NEW w \in Callers, NEW what, NEW pc \in {"get", "updateGet", "delete"},
         Call(w, what, pc)
  PROVE  /\ Calls'
         /\ cp'[w].pc = pc /\ cp'[w].spec = spec
         /\ ~cp'[w].disturbed => Calling = {} /\ Running = {}
         /\ cp'[w].rpc = {}
         /\ \A v \in Callers \ {w} : cp'[v] = Disturbed(Callers)[v]
<1> DEFINE d == [NoCall EXCEPT !.pc = pc, !.spec = spec, !.nodes = nodes, !.addr = addr,
                               !.disturbed = Calling # {} \/ Running # {}]
<1>1. /\ d.pc = pc /\ d.spec = spec /\ d.nodes = nodes /\ d.addr = addr /\ d.i = 0 /\ d.left = {}
      /\ d.remove = {} /\ d.rpc = {} /\ d.failed = FALSE /\ d.disturbed = (Calling # {} \/ Running # {})
  BY DEF NoCall
<1>2. d \in CpRecord
  BY DEF NoCall, CpRecord, WorldOK, Phases
<1>3. CpOK(d)
  BY <1>1, <1>2, SpecLength DEF CpOK, WorldOK
<1>4. cp' = [Disturbed(Callers) EXCEPT ![w] = d]
  BY DEF Call
<1> HIDE DEF d
<1>5. Calls' /\ cp'[w] = d /\ \A v \in Callers \ {w} : cp'[v] = Disturbed(Callers)[v]
  BY <1>2, <1>3, <1>4, DisturbedFields DEF Calls
<1> QED
  BY <1>1, <1>5

LEMMA CallTyped ==
  ASSUME Calls, WorldOK, NEW w \in Callers, CallEnsure(w) \/ CallUpdate(w) \/ CallDelete(w)
  PROVE  Calls' /\ WorldOK' /\ UNCHANGED vars
<1>1. PICK what \in {"ensure", "update", "delete"}, pc \in {"get", "updateGet", "delete"} : Call(w, what, pc)
  BY DEF CallEnsure, CallUpdate, CallDelete
<1>2. owed' = owed \ {what} /\ UNCHANGED <<spec, nodes, addr, stale>> /\ UNCHANGED vars
  BY <1>1 DEF Call, world
<1> QED
  BY <1>1, <1>2, CallBegins DEF WorldOK

(* What becomes of the fields of a call.                                   *)
LEMMA HandlesMappings ==
  ASSUME Calls, NEW w \in Callers, cp[w].pc \in {"get", "create", "updateGet"},
         NEW ts \in SUBSET Mapping, HandleMappings(w, ts)
  PROVE  /\ Calls'
         /\ cp'[w].pc = "mappings" /\ cp'[w].current = ts /\ cp'[w].rpc = {} /\ cp'[w].i = 0
         /\ cp'[w].left = {} /\ cp'[w].remove = {} /\ cp'[w].spec = cp[w].spec
         /\ cp'[w].disturbed = cp[w].disturbed
         /\ \A v \in Callers \ {w} : cp'[v] = cp[v]
<1> DEFINE c == cp[w]
           d == [c EXCEPT !.pc = "mappings", !.current = ts, !.rpc = {}]
<1>1. c \in CpRecord /\ CpOK(c)
  BY DEF Calls
<1>2. d \in CpRecord
  BY <1>1 DEF CpRecord, Phases
<1>3. /\ d.pc = "mappings" /\ d.current = ts /\ d.rpc = {} /\ d.i = c.i /\ d.left = c.left
      /\ d.remove = c.remove /\ d.spec = c.spec /\ d.nodes = c.nodes /\ d.addr = c.addr
      /\ d.failed = c.failed /\ d.disturbed = c.disturbed
  BY <1>1 DEF CpRecord
<1>4. Becomes(w, d)
  BY DEF HandleMappings
<1> HIDE DEF d
<1>5. CpOK(d)
  BY <1>1, <1>2, <1>3 DEF CpOK
<1>6. Calls' /\ cp'[w] = d /\ \A v \in Callers \ {w} : cp'[v] = cp[v]
  BY <1>4, <1>5, BecomesOK
<1> QED
  BY <1>1, <1>3, <1>6 DEF CpOK

LEMMA AnsweredOK ==
  ASSUME NEW c, CpOK(c), c.pc = "mappings", NEW code
  PROVE  LET d == [c EXCEPT !.rpc = {}, !.failed = @ \/ code # {}] IN
           /\ CpOK(d)
           /\ d.pc = "mappings" /\ d.current = c.current /\ d.rpc = {} /\ d.i = c.i /\ d.left = c.left
           /\ d.remove = c.remove /\ d.spec = c.spec /\ d.nodes = c.nodes /\ d.addr = c.addr
           /\ d.failed = (c.failed \/ code # {}) /\ d.disturbed = c.disturbed
<1> DEFINE f == c.failed \/ code # {}
           d == [c EXCEPT !.rpc = {}, !.failed = f]
<1>1. f \in BOOLEAN
  BY DEF CpOK, CpRecord
<1> HIDE DEF f
<1>2. d \in CpRecord
  BY <1>1 DEF CpOK, CpRecord
<1>3. /\ d.pc = "mappings" /\ d.current = c.current /\ d.rpc = {} /\ d.i = c.i /\ d.left = c.left
      /\ d.remove = c.remove /\ d.spec = c.spec /\ d.nodes = c.nodes /\ d.addr = c.addr
      /\ d.failed = f /\ d.disturbed = c.disturbed
  BY DEF CpOK, CpRecord
<1> HIDE DEF d
<1>4. CpOK(d)
  BY <1>2, <1>3 DEF CpOK
<1> QED
  BY <1>3, <1>4 DEF d, f

LEMMA WaitsOK ==
  ASSUME NEW c, CpOK(c), c.pc \in {"create", "mappings", "delete"}, NEW g \in Workers
  PROVE  LET d == [c EXCEPT !.rpc = {g}] IN
           /\ CpOK(d)
           /\ d.pc = c.pc /\ d.current = c.current /\ d.rpc = {g} /\ d.i = c.i /\ d.left = c.left
           /\ d.remove = c.remove /\ d.spec = c.spec /\ d.nodes = c.nodes /\ d.addr = c.addr
           /\ d.failed = c.failed /\ d.disturbed = c.disturbed
<1> DEFINE d == [c EXCEPT !.rpc = {g}]
<1>1. d \in CpRecord
  BY DEF CpOK, CpRecord
<1>2. /\ d.pc = c.pc /\ d.current = c.current /\ d.rpc = {g} /\ d.i = c.i /\ d.left = c.left
      /\ d.remove = c.remove /\ d.spec = c.spec /\ d.nodes = c.nodes /\ d.addr = c.addr
      /\ d.failed = c.failed /\ d.disturbed = c.disturbed
  BY DEF CpOK, CpRecord
<1> HIDE DEF d
<1>3. CpOK(d)
  BY <1>1, <1>2 DEF CpOK
<1> QED
  BY <1>2, <1>3 DEF d

(* An answer ends the call, or it goes on with its mappings.               *)
LEMMA AnswerTyped ==
  ASSUME Calls, WorldOK, NEW w \in Callers, NEW c, CpOK(c), c.pc # "idle", cp[w].pc = c.pc,
         NEW code, Answer(w, c, code), UNCHANGED world
  PROVE  Calls' /\ WorldOK'
<1>1. Calls'
  <2>1. CASE c.pc = "mappings"
    BY <2>1, AnsweredOK, BecomesOK DEF Answer
  <2>2. CASE c.pc = "create" /\ HandleMappings(w, {})
    <3>1. {} \in SUBSET Mapping /\ cp[w].pc \in {"get", "create", "updateGet"}
      BY <2>2
    <3> QED
      BY <2>2, <3>1, HandlesMappings
  <2>3. CASE Becomes(w, NoCall)
    BY <2>3, NoCallOK, BecomesOK
  <2> QED
    BY <2>1, <2>2, <2>3 DEF Answer, ReturnError, ReturnNothing
<1>2. owed' \in {owed, Again} /\ (stale' = stale \/ stale' = (Calling # {w} \/ Running' # {}))
  BY DEF Answer, ReturnError, ReturnNothing
<1>3. Again \subseteq {"ensure", "update", "delete"}
  BY DEF Again, WorldOK
<1> QED
  BY <1>1, <1>2, <1>3 DEF WorldOK, world

LEMMA SentTyped ==
  ASSUME Calls, WorldOK, NEW w \in Callers, NEW c, CpOK(c),
         c.pc \in {"create", "mappings", "delete"}, cp[w].pc = c.pc, NEW g \in Workers, Sent(w, c, g)
  PROVE  Calls' /\ WorldOK'
<1>1. UNCHANGED world
  BY DEF Sent
<1>2. CASE Becomes(w, [c EXCEPT !.rpc = {g}]) /\ UNCHANGED <<owed, stale>>
  BY <1>1, <1>2, WaitsOK, BecomesOK DEF WorldOK, world
<1>3. CASE Answer(w, c, reply'.code)
  BY <1>1, <1>3, AnswerTyped
<1> QED
  BY <1>2, <1>3 DEF Sent

(* The goroutine of a new RPC is not serving one.                          *)
LEMMA FreeIsIdle == \A g \in FreeWorker : g \in Workers /\ call[g].pc = "idle"
<1>1. \A g \in Workers \ Running : call[g].pc = "idle"
  BY DEF Running
<1>2. Workers \ Running # {} => (CHOOSE g \in Workers \ Running : TRUE) \in Workers \ Running
  OBVIOUS
<1> DEFINE free == Workers \ Running
<1>3. FreeWorker = IF free = {} THEN {} ELSE {CHOOSE g \in free : TRUE}
  BY DEF FreeWorker
<1>4. \A g \in FreeWorker : g \in free
  BY <1>2, <1>3
<1> QED
  BY <1>1, <1>4

(* The requests of the provider and of lbctl are requests of LBServerSteps.*)
LEMMA IsRequest ==
  ASSUME NEW g
  PROVE  /\ CreateGet(g, Name, LoadBalancerIP) => Request(g)
         /\ DeleteGet(g, Name) => Request(g)
         /\ \A k \in Mapping : AddGet(g, Name, k) \/ DelGet(g, Name, k) => Request(g)
<1>1. Name \in Names /\ <<Name, LoadBalancerIP>> \in Requests
  BY ProviderAssumption DEF ProviderAssumption
<1>2. CreateGet(g, Name, LoadBalancerIP) => \E r \in Requests : CreateGet(g, r[1], r[2])
  <2> DEFINE r == <<Name, LoadBalancerIP>>
  <2>1. r[1] = Name /\ r[2] = LoadBalancerIP
    OBVIOUS
  <2> QED
    BY <1>1, <2>1
<1> QED
  BY <1>1, <1>2 DEF Request

(* The steps of MapNode and Remove: the call that waits for its RPC.       *)
LEMMA PopOK ==
  ASSUME NEW c, CpOK(c), c.pc = "mappings", NEW k
  PROVE  /\ CpOK([c EXCEPT !.left = @ \ {k}])
         /\ CpOK([c EXCEPT !.remove = @ \ {k}])
         /\ LET d == [c EXCEPT !.left = @ \ {k}] IN
              /\ d.pc = c.pc /\ d.current = c.current /\ d.rpc = c.rpc /\ d.i = c.i /\ d.left = c.left \ {k}
              /\ d.remove = c.remove /\ d.spec = c.spec /\ d.nodes = c.nodes /\ d.addr = c.addr
              /\ d.failed = c.failed /\ d.disturbed = c.disturbed
         /\ LET d == [c EXCEPT !.remove = @ \ {k}] IN
              /\ d.pc = c.pc /\ d.current = c.current /\ d.rpc = c.rpc /\ d.i = c.i /\ d.left = c.left
              /\ d.remove = c.remove \ {k} /\ d.spec = c.spec /\ d.nodes = c.nodes /\ d.addr = c.addr
              /\ d.failed = c.failed /\ d.disturbed = c.disturbed
<1> DEFINE d == [c EXCEPT !.left = @ \ {k}]
           e == [c EXCEPT !.remove = @ \ {k}]
<1>1. d \in CpRecord /\ e \in CpRecord
  BY DEF CpOK, CpRecord
<1>2. /\ d.pc = c.pc /\ d.current = c.current /\ d.rpc = c.rpc /\ d.i = c.i /\ d.left = c.left \ {k}
      /\ d.remove = c.remove /\ d.spec = c.spec /\ d.nodes = c.nodes /\ d.addr = c.addr
      /\ d.failed = c.failed /\ d.disturbed = c.disturbed
  BY DEF CpOK, CpRecord
<1>3. /\ e.pc = c.pc /\ e.current = c.current /\ e.rpc = c.rpc /\ e.i = c.i /\ e.left = c.left
      /\ e.remove = c.remove \ {k} /\ e.spec = c.spec /\ e.nodes = c.nodes /\ e.addr = c.addr
      /\ e.failed = c.failed /\ e.disturbed = c.disturbed
  BY DEF CpOK, CpRecord
<1> HIDE DEF d, e
<1>4. CpOK(d) /\ CpOK(e)
  BY <1>1, <1>2, <1>3 DEF CpOK
<1> QED
  BY <1>2, <1>3, <1>4 DEF d, e

LEMMA ClusterTyped ==
  ASSUME WorldOK, Calls, SetService \/ DropService \/ SetNodes \/ Readdress
  PROVE  WorldOK' /\ UNCHANGED <<cp, vars>>
BY DEF SetService, DropService, SetNodes, Readdress, WorldOK

LEMMA LbctlTyped ==
  ASSUME WorldOK, Calls, Lbctl
  PROVE  /\ WorldOK' /\ Calls' /\ (\E g \in Workers : Request(g))
         /\ cp' = Disturbed(Callers)
<1>1. cp' = Disturbed(Callers) /\ UNCHANGED <<spec, nodes, addr, owed>> /\ stale' = TRUE
  BY DEF Lbctl
<1>2. \E g \in Workers : Request(g)
  <2>1. PICK g \in FreeWorker :
          \/ CreateGet(g, Name, LoadBalancerIP)
          \/ DeleteGet(g, Name)
          \/ \E k \in LbctlTargets : AddGet(g, Name, k) \/ DelGet(g, Name, k)
    BY DEF Lbctl
  <2>2. LbctlTargets \subseteq Mapping
    BY ProviderAssumption DEF ProviderAssumption
  <2> QED
    BY <2>1, <2>2, FreeIsIdle, IsRequest
<1> QED
  BY <1>1, <1>2, DisturbedFields DEF WorldOK, Calls

LEMMA GiveUpTyped ==
  ASSUME WorldOK, Calls, NEW w \in Callers, GiveUp(w)
  PROVE  WorldOK' /\ Calls' /\ UNCHANGED vars
<1> DEFINE c == [cp[w] EXCEPT !.disturbed = TRUE]
<1>1. CpOK(cp[w]) /\ cp[w] \in CpRecord
  BY DEF Calls
<1>2. cp[w].pc # "idle"
  <2>1. NoCall.rpc = {}
    BY DEF NoCall
  <2> QED
    BY <1>1, <2>1 DEF GiveUp, CpOK
<1>3. CpOK(c) /\ c.pc = cp[w].pc
  BY <1>1, <1>2 DEF CpOK, CpRecord
<1>4. Answer(w, c, {"CallFailed"}) /\ UNCHANGED world /\ UNCHANGED vars
  BY DEF GiveUp
<1> HIDE DEF c
<1> QED
  BY <1>2, <1>3, <1>4, AnswerTyped

LEMMA AnswersTyped ==
  ASSUME WorldOK, Calls, NEW g \in Workers, Answers(g), UNCHANGED world
  PROVE  WorldOK' /\ Calls'
<1>1. CASE UNCHANGED <<cp, owed, stale>>
  BY <1>1 DEF WorldOK, Calls, world
<1>2. ASSUME NEW w \in Callers, g \in cp[w].rpc, Answer(w, cp[w], reply'.code)
      PROVE  WorldOK' /\ Calls'
  <2>1. CpOK(cp[w]) /\ NoCall.rpc = {}
    BY DEF Calls, NoCall
  <2>2. cp[w].pc # "idle"
    BY <1>2, <2>1 DEF CpOK
  <2> QED
    BY <1>2, <2>1, <2>2, AnswerTyped
<1> QED
  BY <1>1, <1>2 DEF Answers

(* The calls that the provider makes in lbmanager.                         *)
LEMMA RpcTyped ==
  ASSUME WorldOK, Calls, NEW w \in Callers,
         EnsureCreate(w) \/ MapNode(w) \/ Remove(w) \/ EnsureDeleted(w)
  PROVE  WorldOK' /\ Calls' /\ (UNCHANGED vars \/ \E g \in Workers : Request(g))
<1> DEFINE Goal == WorldOK' /\ Calls' /\ (UNCHANGED vars \/ \E g \in Workers : Request(g))
<1>1. CpOK(cp[w]) /\ cp[w] \in CpRecord
  BY DEF Calls
<1>2. ASSUME NEW c, CpOK(c), c.pc \in {"create", "mappings", "delete"}, cp[w].pc = c.pc, Lost(w, c)
      PROVE  Goal
  <2>1. Answer(w, c, {"CallFailed"}) /\ UNCHANGED world /\ UNCHANGED vars
    BY <1>2 DEF Lost
  <2> QED
    BY <1>2, <2>1, AnswerTyped
<1>3. ASSUME NEW c, CpOK(c), c.pc \in {"create", "mappings", "delete"}, cp[w].pc = c.pc,
             NEW g \in FreeWorker, Request(g), Sent(w, c, g)
      PROVE  Goal
  BY <1>3, SentTyped, FreeIsIdle
<1>4. CASE EnsureCreate(w)
  <2>1. cp[w].pc = "create"
    BY <1>4 DEF EnsureCreate, Ready
  <2>2. \/ Lost(w, cp[w])
        \/ \E g \in FreeWorker : Request(g) /\ Sent(w, cp[w], g)
    BY <1>4, IsRequest DEF EnsureCreate
  <2> QED
    BY <1>1, <1>2, <1>3, <2>1, <2>2
<1>5. CASE EnsureDeleted(w)
  <2>1. cp[w].pc = "delete"
    BY <1>5 DEF EnsureDeleted, Ready
  <2>2. \/ Lost(w, cp[w])
        \/ \E g \in FreeWorker : Request(g) /\ Sent(w, cp[w], g)
    BY <1>5, IsRequest DEF EnsureDeleted
  <2> QED
    BY <1>1, <1>2, <1>3, <2>1, <2>2
<1>6. CASE MapNode(w)
  <2>1. cp[w].pc = "mappings"
    BY <1>6 DEF MapNode, Ready
  <2>2. PICK k \in cp[w].left :
          \/ \E g \in FreeWorker : AddGet(g, Name, k) /\ Sent(w, [cp[w] EXCEPT !.left = @ \ {k}], g)
          \/ Lost(w, [cp[w] EXCEPT !.left = @ \ {k}])
    BY <1>6 DEF MapNode
  <2> DEFINE c == [cp[w] EXCEPT !.left = @ \ {k}]
  <2>3. k \in Mapping /\ CpOK(c) /\ c.pc = cp[w].pc
    BY <1>1, <2>1, PopOK DEF CpRecord
  <2>4. \/ Lost(w, c)
        \/ \E g \in FreeWorker : Request(g) /\ Sent(w, c, g)
    BY <2>2, <2>3, IsRequest
  <2> HIDE DEF c
  <2> QED
    BY <1>2, <1>3, <2>1, <2>3, <2>4
<1>7. CASE Remove(w)
  <2>1. cp[w].pc = "mappings"
    BY <1>7 DEF Remove, Ready
  <2>2. PICK k \in cp[w].remove :
          \/ \E g \in FreeWorker : DelGet(g, Name, k) /\ Sent(w, [cp[w] EXCEPT !.remove = @ \ {k}], g)
          \/ Lost(w, [cp[w] EXCEPT !.remove = @ \ {k}])
    BY <1>7 DEF Remove
  <2> DEFINE c == [cp[w] EXCEPT !.remove = @ \ {k}]
  <2>3. k \in Mapping /\ CpOK(c) /\ c.pc = cp[w].pc
    BY <1>1, <2>1, PopOK DEF CpRecord
  <2>4. \/ Lost(w, c)
        \/ \E g \in FreeWorker : Request(g) /\ Sent(w, c, g)
    BY <2>2, <2>3, IsRequest
  <2> HIDE DEF c
  <2> QED
    BY <1>2, <1>3, <2>1, <2>3, <2>4
<1> QED
  BY <1>4, <1>5, <1>6, <1>7

(* The steps of the provider that make no call, or one that only reads.    *)
LEMMA LocalTyped ==
  ASSUME WorldOK, Calls, TypeInv, NEW w \in Callers,
         EnsureGet(w) \/ UpdateGet(w) \/ NextPort(w) \/ Finish(w)
  PROVE  WorldOK' /\ Calls' /\ UNCHANGED vars
<1> DEFINE c == cp[w]
<1>1. CpOK(c) /\ c \in CpRecord
  BY DEF Calls
<1>2. targets \in SUBSET Mapping
  BY ProviderAssumption DEF TypeInv, TypeOK, LBInfo, targets, ProviderAssumption
<1>3. CASE EnsureGet(w)
  <2>1. c.pc = "get" /\ UNCHANGED <<spec, nodes, addr, owed, stale>> /\ UNCHANGED vars
    BY <1>3 DEF EnsureGet, Ready, world
  <2>2. CpOK([c EXCEPT !.pc = "create"])
    BY <1>1, <2>1 DEF CpOK, CpRecord, Phases
  <2>3. HandleMappings(w, targets) \/ Becomes(w, [c EXCEPT !.pc = "create"])
    BY <1>3 DEF EnsureGet
  <2>4. Calls'
    BY <1>2, <2>1, <2>2, <2>3, HandlesMappings, BecomesOK
  <2> QED
    BY <2>1, <2>4 DEF WorldOK
<1>4. CASE UpdateGet(w)
  <2>1. c.pc = "updateGet" /\ UNCHANGED <<spec, nodes, addr, stale>> /\ UNCHANGED vars
    BY <1>4 DEF UpdateGet, Ready, world
  <2>2. CASE HandleMappings(w, targets) /\ UNCHANGED owed
    BY <1>2, <2>1, <2>2, HandlesMappings DEF WorldOK
  <2>3. CASE cp' = [v \in Callers |-> NoCall] /\ owed' = Again
    <3>1. Again \subseteq {"ensure", "update", "delete"}
      BY DEF Again, WorldOK
    <3>2. NoCall \in CpRecord
      BY NoCallOK DEF CpOK
    <3> QED
      BY <2>1, <2>3, <3>1, <3>2, NoCallOK DEF WorldOK, Calls
  <2> QED
    BY <1>4, <2>2, <2>3 DEF UpdateGet
<1>5. CASE NextPort(w)
  <2>1. c.pc = "mappings" /\ UNCHANGED <<spec, nodes, addr, owed, stale>> /\ UNCHANGED vars
    BY <1>5 DEF NextPort, Between, world
  <2>2. PICK j \in PortsLeft(c) :
          Becomes(w, [c EXCEPT !.i = j, !.left = WantedAt(c, j) \ c.current,
                               !.current = @ \ WantedAt(c, j), !.remove = c.current \ WantedAt(c, j)])
    BY <1>5 DEF NextPort
  <2> DEFINE K == WantedAt(c, j)
             d == [c EXCEPT !.i = j, !.left = K \ c.current, !.current = @ \ K, !.remove = c.current \ K]
  <2>3. K \subseteq Mapping /\ j \in Nat /\ j <= Len(c.spec)
    BY <1>1, <2>1, PortTargets
  <2> HIDE DEF K
  <2>4. d \in CpRecord /\ d.i = j /\ d.spec = c.spec /\ d.pc = c.pc /\ d.addr = c.addr /\ d.rpc = c.rpc
    BY <1>1, <2>3 DEF CpRecord
  <2>5. CpOK(d)
    BY <1>1, <2>1, <2>3, <2>4 DEF CpOK
  <2>6. Becomes(w, d)
    BY <2>2 DEF K
  <2> HIDE DEF d
  <2>7. Calls'
    BY <2>5, <2>6, BecomesOK
  <2> QED
    BY <2>1, <2>7 DEF WorldOK
<1>6. CASE Finish(w)
  <2>1. Becomes(w, NoCall) /\ UNCHANGED <<spec, nodes, addr, owed>> /\ UNCHANGED vars
        /\ stale' = (c.failed \/ c.disturbed \/ c.addr # addr)
    BY <1>6 DEF Finish, world
  <2>2. Calls'
    BY <2>1, NoCallOK, BecomesOK
  <2>3. stale' \in BOOLEAN
    BY <2>1
  <2> QED
    BY <2>1, <2>2, <2>3 DEF WorldOK
<1> QED
  BY <1>3, <1>4, <1>5, <1>6

LEMMA ProviderInitTyped == ProviderInit => ProviderTypeInv
<1> SUFFICES ASSUME ProviderInit PROVE ProviderTypeInv
  OBVIOUS
<1>1. WorldOK
  BY ProviderAssumption DEF ProviderInit, WorldOK, ProviderAssumption
<1>2. Calls
  <2>1. NoCall \in CpRecord
    BY NoCallOK DEF CpOK
  <2> QED
    BY <2>1, NoCallOK DEF ProviderInit, Calls
<1>3. /\ call = [w \in Workers |-> Idle] /\ db = [n \in Names |-> NoLB] /\ addrs = BaseAddrs
      /\ svcs = {} /\ dests = {} /\ up = TRUE /\ reply = [name |-> NoIP, code |-> {}]
      /\ flaws = {} /\ apart = TRUE
  BY DEF ProviderInit
<1>4. Idle \in CallRecord
  BY IdleOK DEF CallOK
<1>5. call \in [Workers -> CallRecord] /\ \A w \in Workers : CallOK(call[w])
  BY <1>3, <1>4, IdleOK
<1>6. db \in [Names -> LBInfo] /\ addrs \in SUBSET Nat /\ svcs \in SUBSET Service
      /\ dests \in SUBSET (Service \X Destination)
      /\ up \in BOOLEAN /\ apart \in BOOLEAN /\ flaws \subseteq Flaws
      /\ reply \in [name : Names \cup {NoIP}, code : SUBSET Errors]
  BY <1>3, NoLBIsInfo, ConfigAssumption
<1>7. TypeOK
  BY <1>5, <1>6, TypedCalls DEF TypeOK
<1> QED
  BY <1>1, <1>2, <1>5, <1>7 DEF ProviderTypeInv, TypeInv

(* What a step is for the provider's state and for lbmanager: one step of  *)
(* LBServerSteps, or none.                                                 *)
LEMMA ServerStep ==
  ASSUME WorldOK, Calls, TypeInv, ProviderNext
  PROVE  WorldOK' /\ Calls' /\ [Next]_vars
<1>1. ASSUME NEW w \in Callers, Provider(w)
      PROVE  WorldOK' /\ Calls' /\ [Next]_vars
  <2>1. CASE CallEnsure(w) \/ CallUpdate(w) \/ CallDelete(w)
    BY <2>1, CallTyped
  <2>2. CASE EnsureGet(w) \/ UpdateGet(w) \/ NextPort(w) \/ Finish(w)
    BY <2>2, LocalTyped
  <2>3. CASE EnsureCreate(w) \/ MapNode(w) \/ Remove(w) \/ EnsureDeleted(w)
    BY <2>3, RpcTyped DEF Next
  <2> QED
    BY <1>1, <2>1, <2>2, <2>3 DEF Provider
<1>2. ASSUME NEW w \in Callers, GiveUp(w)
      PROVE  WorldOK' /\ Calls' /\ [Next]_vars
  BY <1>2, GiveUpTyped
<1>3. ASSUME NEW g \in Workers, Server(g) \/ ServerCallFails(g)
      PROVE  WorldOK' /\ Calls' /\ [Next]_vars
  <2>1. Answers(g) /\ UNCHANGED world /\ (Handler(g) \/ CallFails(g))
    BY <1>3 DEF Server, ServerCallFails
  <2> QED
    BY <2>1, AnswersTyped DEF Next
<1>4. CASE SetService \/ DropService \/ SetNodes \/ Readdress
  BY <1>4, ClusterTyped DEF Calls
<1>5. CASE Lbctl
  BY <1>5, LbctlTyped DEF Next
<1> QED
  BY <1>1, <1>2, <1>3, <1>4, <1>5 DEF ProviderNext

LEMMA ProviderTypeInductive == ProviderTypeInv /\ [ProviderNext]_allVars => ProviderTypeInv'
<1>1. ASSUME ProviderTypeInv, ProviderNext
      PROVE  ProviderTypeInv'
  BY <1>1, ServerStep, TypeInductive DEF ProviderTypeInv
<1>2. ASSUME ProviderTypeInv, UNCHANGED allVars
      PROVE  ProviderTypeInv'
  <2>1. UNCHANGED <<spec, nodes, addr, owed, stale, cp>> /\ UNCHANGED vars
    BY <1>2 DEF allVars, world
  <2>2. TypeInv'
    BY <1>2, <2>1, TypeInductive DEF ProviderTypeInv
  <2> QED
    BY <1>2, <2>1, <2>2 DEF ProviderTypeInv, WorldOK, Calls
<1> QED
  BY <1>1, <1>2

(* Whatever overlaps, fails or changes, the calls of the provider keep to  *)
(* their ports and their RPCs, and lbmanager to its types.                 *)
THEOREM ProviderTypeCorrect == ProviderSpec => []ProviderTypeOK
<1>1. ProviderTypeInv => ProviderTypeOK
  BY TypedCps DEF ProviderTypeInv, ProviderTypeOK, WorldOK, TypeInv
<1> QED
  BY <1>1, ProviderInitTyped, ProviderTypeInductive, PTL DEF ProviderSpec

-----------------------------------------------------------------------------
(* What the RPCs of a call do *)

(* A request is refused, or its handler begins with what it read.          *)
LEMMA RpcBegins ==
  ASSUME TypeInv, NEW g \in Workers, NEW k \in Mapping, NEW pc,
         (AddGet(g, Name, k) /\ pc = "isPresent") \/ (DelGet(g, Name, k) /\ pc = "delDest")
  PROVE  /\ UNCHANGED <<db, addrs, svcs, dests>>
         /\ \/ call' = [call EXCEPT ![g] = Idle] /\ reply'.code # {}
            \/ /\ Exists(Name)
               /\ \E d : /\ call' = [call EXCEPT ![g] = d]
                         /\ d.pc = pc /\ d.n = Name /\ d.m = k /\ d.info = db[Name]
<1>1. ASSUME NEW err, Refuse(g, Name, err)
      PROVE  UNCHANGED <<db, addrs, svcs, dests>> /\ call' = [call EXCEPT ![g] = Idle] /\ reply'.code # {}
  BY <1>1 DEF Refuse, Return, kernel
<1>2. ASSUME NEW d, Begin(g, d), Exists(Name),
             d = [Idle EXCEPT !.pc = pc, !.n = Name, !.ip = db[Name].ip, !.m = k, !.info = db[Name]]
      PROVE  /\ UNCHANGED <<db, addrs, svcs, dests>> /\ call' = [call EXCEPT ![g] = d]
             /\ d.pc = pc /\ d.n = Name /\ d.m = k /\ d.info = db[Name]
  BY <1>2 DEF Begin, kernel, Idle
<1>3. CASE AddGet(g, Name, k) /\ pc = "isPresent"
  <2> DEFINE d == [Idle EXCEPT !.pc = pc, !.n = Name, !.ip = db[Name].ip, !.m = k, !.info = db[Name]]
  <2>1. (\E err : Refuse(g, Name, err)) \/ (Exists(Name) /\ Begin(g, d))
    BY <1>3 DEF AddGet
  <2>2. CASE \E err : Refuse(g, Name, err)
    BY <1>1, <2>2
  <2>3. CASE Exists(Name) /\ Begin(g, d)
    <3>1. /\ UNCHANGED <<db, addrs, svcs, dests>> /\ call' = [call EXCEPT ![g] = d]
          /\ d.pc = pc /\ d.n = Name /\ d.m = k /\ d.info = db[Name]
      BY <1>2, <2>3
    <3> HIDE DEF d
    <3> QED
      BY <1>3, <2>3, <3>1
  <2> QED
    BY <2>1, <2>2, <2>3
<1>4. CASE DelGet(g, Name, k) /\ pc = "delDest"
  <2> DEFINE d == [Idle EXCEPT !.pc = pc, !.n = Name, !.ip = db[Name].ip, !.m = k, !.info = db[Name]]
  <2>1. (\E err : Refuse(g, Name, err)) \/ (Exists(Name) /\ Begin(g, d))
    BY <1>4 DEF DelGet
  <2>2. CASE \E err : Refuse(g, Name, err)
    BY <1>1, <2>2
  <2>3. CASE Exists(Name) /\ Begin(g, d)
    <3>1. /\ UNCHANGED <<db, addrs, svcs, dests>> /\ call' = [call EXCEPT ![g] = d]
          /\ d.pc = pc /\ d.n = Name /\ d.m = k /\ d.info = db[Name]
      BY <1>2, <2>3
    <3> HIDE DEF d
    <3> QED
      BY <1>4, <2>3, <3>1
  <2> QED
    BY <2>1, <2>2, <2>3
<1> QED
  BY <1>3, <1>4

LEMMA CreateBegins ==
  ASSUME TypeInv, NEW g \in Workers, CreateGet(g, Name, LoadBalancerIP)
  PROVE  /\ UNCHANGED <<db, addrs, svcs, dests>>
         /\ \/ call' = [call EXCEPT ![g] = Idle] /\ reply'.code # {}
            \/ \E d : /\ call' = [call EXCEPT ![g] = d]
                      /\ d.pc \in {"allocate", "addrList"} /\ d.n = Name
<1>1. ASSUME NEW err, Refuse(g, Name, err)
      PROVE  UNCHANGED <<db, addrs, svcs, dests>> /\ call' = [call EXCEPT ![g] = Idle] /\ reply'.code # {}
  BY <1>1 DEF Refuse, Return, kernel
<1>2. ASSUME NEW d, Begin(g, d),
             d = [Idle EXCEPT !.pc = IF LoadBalancerIP = NoIP THEN "allocate" ELSE "addrList",
                              !.n = Name, !.ip = LoadBalancerIP]
      PROVE  /\ UNCHANGED <<db, addrs, svcs, dests>> /\ call' = [call EXCEPT ![g] = d]
             /\ d.pc \in {"allocate", "addrList"} /\ d.n = Name
  BY <1>2 DEF Begin, kernel, Idle
<1> QED
  BY <1>1, <1>2 DEF CreateGet

LEMMA DeleteBegins ==
  ASSUME TypeInv, NEW g \in Workers, DeleteGet(g, Name)
  PROVE  \E d : call' = [call EXCEPT ![g] = d]
BY DEF DeleteGet, Refuse, Return, Begin

(* A handler that adds a target: it fails, goes on, or records it.         *)
LEMMA AddingStep ==
  ASSUME TypeInv, NEW g \in Workers, Handler(g) \/ CallFails(g), call[g].pc \in Adding
  PROVE  LET c == call[g] IN
           /\ dests \subseteq dests'
           /\ \/ db' = db /\ call' = [call EXCEPT ![g] = Idle] /\ reply'.code # {}
              \/ /\ db' = [db EXCEPT ![c.n] = [c.info EXCEPT !.targets = @ \cup {c.m}]]
                 /\ call' = [call EXCEPT ![g] = Idle]
              \/ db' = db /\ \E pc \in Adding : call' = [call EXCEPT ![g].pc = pc]
<1> DEFINE c == call[g]
<1>1. CASE CallFails(g)
  BY <1>1 DEF CallFails, Adding, kernel, At
<1>2. CASE Handler(g)
  <2>1. AddIsServicePresent(g) \/ AddNewService(g) \/ AddNewDestination(g) \/ AddPut(g)
    BY <1>2 DEF Handler, Adding, At, CreateAllocate, CreateAddrList, CreateAddrAdd, CreatePut,
                DeleteService, DeleteAddr, DeleteRecord, DelDestination, DelService, DelPut
  <2>2. ASSUME NEW n, NEW err, Refuse(g, n, err)
        PROVE  dests' = dests /\ db' = db /\ call' = [call EXCEPT ![g] = Idle] /\ reply'.code # {}
    BY <2>2 DEF Refuse, Return, kernel
  <2>3. CASE AddIsServicePresent(g)
    BY <2>3 DEF AddIsServicePresent, Goto, kernel, Adding
  <2>4. CASE AddNewService(g)
    BY <2>2, <2>4 DEF AddNewService, Goto, Adding
  <2>5. CASE AddNewDestination(g)
    BY <2>2, <2>5 DEF AddNewDestination, Goto, Adding
  <2>6. CASE AddPut(g)
    BY <2>6 DEF AddPut, Return, kernel
  <2> QED
    BY <2>1, <2>3, <2>4, <2>5, <2>6
<1> QED
  BY <1>1, <1>2

(* A handler that removes one leaves the destinations of the others: the   *)
(* service goes with its last target only.                                 *)
LEMMA RemovingStep ==
  ASSUME TypeInv, NEW g \in Workers, Handler(g) \/ CallFails(g), call[g].pc \in Removing,
         call[g].pc = "delService" => LastOnPort(call[g].info, call[g].m)
  PROVE  LET c == call[g] IN
           /\ PortsFit => \A k \in c.info.targets \ {c.m} :
                            EntryOf(c.info, k) \in dests => EntryOf(c.info, k) \in dests'
           /\ \/ db' = db /\ call' = [call EXCEPT ![g] = Idle] /\ reply'.code # {}
              \/ /\ db' = [db EXCEPT ![c.n] = [c.info EXCEPT !.targets = @ \ {c.m}]]
                 /\ call' = [call EXCEPT ![g] = Idle]
              \/ /\ db' = db
                 /\ \E pc \in Removing : /\ call' = [call EXCEPT ![g].pc = pc]
                                         /\ pc = "delService" => LastOnPort(c.info, c.m)
<1> DEFINE c == call[g]
           Others == PortsFit => \A k \in c.info.targets \ {c.m} :
                                   EntryOf(c.info, k) \in dests => EntryOf(c.info, k) \in dests'
<1>1. CASE CallFails(g)
  BY <1>1 DEF CallFails, Removing, kernel, At
<1>2. CASE Handler(g)
  <2>1. DelDestination(g) \/ DelService(g) \/ DelPut(g)
    BY <1>2 DEF Handler, Removing, At, CreateAllocate, CreateAddrList, CreateAddrAdd, CreatePut,
                DeleteService, DeleteAddr, DeleteRecord, AddIsServicePresent, AddNewService, AddNewDestination, AddPut
  <2>2. ASSUME NEW n, NEW err, Refuse(g, n, err)
        PROVE  dests' = dests /\ db' = db /\ call' = [call EXCEPT ![g] = Idle] /\ reply'.code # {}
    BY <2>2 DEF Refuse, Return, kernel
  <2>3. c.m \in Mapping /\ c.info \in LBInfo /\ c.info.targets \subseteq Mapping
    BY DEF TypeInv, CallOK, CallRecord, LBInfo
  <2>4. CASE DelDestination(g)
    <3>1. CASE Refuse(g, c.n, "DelDestinationFailed")
      BY <2>2, <3>1
    <3>2. CASE /\ dests' = dests \ {EntryOf(c.info, c.m)} /\ db' = db
               /\ Goto(g, IF LastOnPort(c.info, c.m) THEN "delService" ELSE "delPut")
      <4>1. Others
        BY <2>3, <3>2, EntryInjective
      <4>2. \E pc \in Removing : call' = [call EXCEPT ![g].pc = pc] /\ (pc = "delService" => LastOnPort(c.info, c.m))
        BY <3>2 DEF Goto, Removing
      <4> QED
        BY <3>2, <4>1, <4>2
    <3> QED
      BY <2>4, <3>1, <3>2 DEF DelDestination
  <2>5. CASE DelService(g)
    <3>1. CASE Refuse(g, c.n, "DelDestinationFailed")
      BY <2>2, <3>1
    <3>2. CASE /\ dests' = WithoutServices(dests, {ServiceOf(c.info, c.m)}) /\ db' = db
               /\ Goto(g, "delPut")
      <4>1. LastOnPort(c.info, c.m)
        BY <2>5 DEF DelService, At
      <4>2. ASSUME PortsFit, NEW k \in c.info.targets \ {c.m}
            PROVE  ServiceOf(c.info, k) # ServiceOf(c.info, c.m)
        BY <2>3, <4>1, <4>2, SamePort DEF LastOnPort
      <4>3. Others
        BY <3>2, <4>2 DEF WithoutServices, EntryOf
      <4>4. \E pc \in Removing : call' = [call EXCEPT ![g].pc = pc] /\ (pc = "delService" => LastOnPort(c.info, c.m))
        BY <3>2 DEF Goto, Removing
      <4> QED
        BY <3>2, <4>3, <4>4
    <3> QED
      BY <2>5, <3>1, <3>2 DEF DelService
  <2>6. CASE DelPut(g)
    BY <2>6 DEF DelPut, Return, kernel
  <2> QED
    BY <2>1, <2>4, <2>5, <2>6
<1> QED
  BY <1>1, <1>2

(* A handler that creates the load balancer leaves it without targets.     *)
LEMMA CreatingStep ==
  ASSUME TypeInv, NEW g \in Workers, Handler(g) \/ CallFails(g), call[g].pc \in {"allocate"} \cup Storing
  PROVE  LET c == call[g] IN
           \/ call' = [call EXCEPT ![g] = Idle] /\ reply'.code # {}
           \/ /\ call' = [call EXCEPT ![g] = Idle]
              /\ db' = [db EXCEPT ![c.n] = [ip |-> c.ip, targets |-> {}]] /\ c.ip # NoIP
           \/ \E d : call' = [call EXCEPT ![g] = d] /\ d.pc \in Storing /\ d.n = c.n
<1> DEFINE c == call[g]
<1>1. CpOK(NoCall) /\ CallOK(c)
  BY NoCallOK DEF TypeInv
<1>2. ASSUME NEW n, NEW err, Refuse(g, n, err)
      PROVE  call' = [call EXCEPT ![g] = Idle] /\ reply'.code # {}
  BY <1>2 DEF Refuse, Return
<1>3. CASE CreatePut(g)
  <2>1. c.ip # NoIP
    BY <1>1, <1>3, ConfigAssumption DEF CreatePut, At, CallOK
  <2> QED
    BY <1>3, <2>1 DEF CreatePut, Return
<1>4. PICK d : call' = [call EXCEPT ![g] = d] /\ Continues(c, d)
  BY HandlerContinues
<1>5. CASE d # Idle
  BY <1>4, <1>5 DEF Continues, Storing, Deleting, Adding, Removing
<1>6. CASE d = Idle /\ ~CreatePut(g) /\ Handler(g)
  <2>1. CreateAllocate(g) \/ CreateAddrList(g) \/ CreateAddrAdd(g)
    BY <1>6 DEF Handler, Storing, At, DelDestination, DelService, DelPut,
                DeleteService, DeleteAddr, DeleteRecord, AddIsServicePresent, AddNewService, AddNewDestination, AddPut
  <2>2. call'[g].pc = "idle"
    BY <1>4, <1>6 DEF TypeInv, Idle
  <2>3. ASSUME NEW pc \in {"addrAdd", "createPut"}, Goto(g, pc)
        PROVE  FALSE
    BY <1>1, <2>2, <2>3 DEF Goto, TypeInv, CallRecord
  <2>4. ASSUME NEW e, Begin(g, e), e.pc = "addrList"
        PROVE  FALSE
    BY <2>2, <2>4 DEF Begin, TypeInv
  <2>5. CASE CreateAllocate(g)
    <3>1. \A ip : [c EXCEPT !.pc = "addrList", !.ip = ip].pc = "addrList"
      BY <1>1 DEF CallOK, CallRecord
    <3> QED
      BY <1>2, <2>4, <2>5, <3>1 DEF CreateAllocate
  <2>6. CASE CreateAddrList(g)
    BY <1>2, <2>3, <2>6 DEF CreateAddrList
  <2>7. CASE CreateAddrAdd(g)
    BY <1>2, <2>3, <2>7 DEF CreateAddrAdd
  <2> QED
    BY <2>1, <2>5, <2>6, <2>7
<1>7. CASE d = Idle /\ CallFails(g)
  <2>1. call'[g].pc = "idle"
    BY <1>4, <1>7 DEF TypeInv, Idle
  <2>2. c.pc # "addrList"
    <3>1. ASSUME c.pc = "addrList" PROVE call' = [call EXCEPT ![g].pc = "addrAdd"]
      BY <1>7, <3>1 DEF CallFails, At
    <3> QED
      BY <1>1, <2>1, <3>1 DEF TypeInv, CallRecord
  <2> QED
    BY <1>7, <2>2 DEF CallFails, At, Storing
<1> QED
  BY <1>3, <1>5, <1>6, <1>7

-----------------------------------------------------------------------------
(* Calls that nobody disturbs *)

Undisturbed(w) == cp[w].pc # "idle" /\ ~cp[w].disturbed

(* What lbmanager does for the call: with it, and with nobody else.        *)
Serves(g, pc) ==
  /\ pc = "create" => call[g].pc \in {"allocate"} \cup Storing /\ call[g].n = Name
  /\ pc = "mappings" =>
       /\ call[g].pc \in Adding \cup Removing /\ call[g].n = Name
       /\ Exists(Name) /\ call[g].info = db[Name]
       /\ call[g].pc = "delService" => LastOnPort(call[g].info, call[g].m)

(* There is no other call, and no handler but the one it waits for.        *)
OnItsOwn(w) ==
  Undisturbed(w) =>
    /\ \A v \in Callers \ {w} : cp[v].pc = "idle"
    /\ Running \subseteq cp[w].rpc
    /\ \A g, h \in cp[w].rpc : g = h
    /\ \A g \in cp[w].rpc : Serves(g, cp[w].pc)

LEMMA AnswerCases ==
  ASSUME Calls, NEW w \in Callers, NEW c, CpOK(c), c.pc # "idle", cp[w].pc = c.pc, NEW code,
         Answer(w, c, code)
  PROVE  /\ \A v \in Callers \ {w} : cp'[v] = cp[v]
         /\ \/ cp'[w] = NoCall
            \/ c.pc = "mappings" /\ cp'[w] = [c EXCEPT !.rpc = {}, !.failed = @ \/ code # {}]
            \/ c.pc = "create" /\ code = {} /\ HandleMappings(w, {})
<1>1. CASE c.pc = "mappings"
  <2> DEFINE d == [c EXCEPT !.rpc = {}, !.failed = @ \/ code # {}]
  <2>1. CpOK(d)
    BY <1>1, AnsweredOK
  <2>2. Becomes(w, d)
    BY <1>1 DEF Answer
  <2>3. cp'[w] = d /\ \A v \in Callers \ {w} : cp'[v] = cp[v]
    <3> HIDE DEF d
    <3> QED
      BY <2>1, <2>2, BecomesOK
  <2> QED
    BY <1>1, <2>3
<1>2. CASE c.pc = "create" /\ code = {} /\ HandleMappings(w, {})
  <2>1. {} \in SUBSET Mapping /\ cp[w].pc \in {"get", "create", "updateGet"}
    BY <1>2
  <2> QED
    BY <1>2, <2>1, HandlesMappings
<1>3. CASE Becomes(w, NoCall)
  BY <1>3, NoCallOK, BecomesOK
<1> QED
  BY <1>1, <1>2, <1>3 DEF Answer, ReturnError, ReturnNothing

(* An answer does not disturb the call.                                    *)
LEMMA AnswerKeepsDisturbed ==
  ASSUME Calls, NEW w \in Callers, NEW c, CpOK(c), c.pc # "idle", cp[w].pc = c.pc, NEW code,
         Answer(w, c, code), c.pc = "create" => c.disturbed = cp[w].disturbed
  PROVE  cp'[w] = NoCall \/ cp'[w].disturbed = c.disturbed
<1>1. CASE c.pc = "mappings" /\ cp'[w] = [c EXCEPT !.rpc = {}, !.failed = @ \/ code # {}]
  <2> DEFINE f == c.failed \/ code # {}
             d == [c EXCEPT !.rpc = {}, !.failed = f]
  <2>1. d.disturbed = c.disturbed
    <3> HIDE DEF f
    <3> QED
      BY DEF CpOK, CpRecord
  <2>2. cp'[w] = d
    BY <1>1
  <2> HIDE DEF d
  <2> QED
    BY <2>1, <2>2
<1>2. CASE c.pc = "create" /\ HandleMappings(w, {})
  <2>1. {} \in SUBSET Mapping /\ cp[w].pc \in {"get", "create", "updateGet"}
    BY <1>2
  <2> QED
    BY <1>2, <2>1, HandlesMappings
<1> QED
  BY <1>1, <1>2, AnswerCases

(* The steps of a call that make an RPC, and the call as it sends it.      *)
Rpc(w) == EnsureCreate(w) \/ MapNode(w) \/ Remove(w) \/ EnsureDeleted(w)

LEMMA RpcForm ==
  ASSUME Calls, NEW w \in Callers, Rpc(w)
  PROVE  /\ cp[w].pc \in {"create", "mappings", "delete"} /\ cp[w].rpc = {}
         /\ \E c : /\ CpOK(c) /\ c.pc = cp[w].pc /\ c.disturbed = cp[w].disturbed
                   /\ Lost(w, c) \/ \E g \in FreeWorker : Sent(w, c, g)
<1>1. CpOK(cp[w])
  BY DEF Calls
<1>2. CASE EnsureCreate(w) \/ EnsureDeleted(w)
  BY <1>1, <1>2 DEF EnsureCreate, EnsureDeleted, Ready
<1>3. CASE MapNode(w)
  <2>1. cp[w].pc = "mappings" /\ cp[w].rpc = {}
    BY <1>3 DEF MapNode, Ready
  <2>2. PICK k \in cp[w].left :
          LET c == [cp[w] EXCEPT !.left = @ \ {k}] IN
            Lost(w, c) \/ \E g \in FreeWorker : Sent(w, c, g)
    BY <1>3 DEF MapNode
  <2> DEFINE c == [cp[w] EXCEPT !.left = @ \ {k}]
  <2>3. CpOK(c) /\ c.pc = cp[w].pc /\ c.disturbed = cp[w].disturbed
    BY <1>1, <2>1, PopOK
  <2>4. Lost(w, c) \/ \E g \in FreeWorker : Sent(w, c, g)
    BY <2>2
  <2> HIDE DEF c
  <2> QED
    BY <2>1, <2>3, <2>4
<1>4. CASE Remove(w)
  <2>1. cp[w].pc = "mappings" /\ cp[w].rpc = {}
    BY <1>4 DEF Remove, Ready
  <2>2. PICK k \in cp[w].remove :
          LET c == [cp[w] EXCEPT !.remove = @ \ {k}] IN
            Lost(w, c) \/ \E g \in FreeWorker : Sent(w, c, g)
    BY <1>4 DEF Remove
  <2> DEFINE c == [cp[w] EXCEPT !.remove = @ \ {k}]
  <2>3. CpOK(c) /\ c.pc = cp[w].pc /\ c.disturbed = cp[w].disturbed
    BY <1>1, <2>1, PopOK
  <2>4. Lost(w, c) \/ \E g \in FreeWorker : Sent(w, c, g)
    BY <2>2
  <2> HIDE DEF c
  <2> QED
    BY <2>1, <2>3, <2>4
<1> QED
  BY <1>2, <1>3, <1>4 DEF Rpc

LEMMA RpcElsewhere ==
  ASSUME Calls, NEW w \in Callers, Rpc(w)
  PROVE  /\ cp[w].pc # "idle"
         /\ \A v \in Callers \ {w} : cp'[v] = cp[v]
         /\ cp'[w] = NoCall \/ cp'[w].disturbed = cp[w].disturbed
<1>1. /\ cp[w].pc \in {"create", "mappings", "delete"}
      /\ \E c : /\ CpOK(c) /\ c.pc = cp[w].pc /\ c.disturbed = cp[w].disturbed
                /\ Lost(w, c) \/ \E g \in FreeWorker : Sent(w, c, g)
  BY RpcForm
<1>2. PICK c : /\ CpOK(c) /\ c.pc = cp[w].pc /\ c.disturbed = cp[w].disturbed
               /\ Lost(w, c) \/ \E g \in FreeWorker : Sent(w, c, g)
  BY <1>1
<1>3. (\E code : Answer(w, c, code)) \/ \E g \in Workers : Becomes(w, [c EXCEPT !.rpc = {g}])
  BY <1>2, FreeIsIdle DEF Lost, Sent
<1>4. ASSUME NEW code, Answer(w, c, code)
      PROVE  /\ \A v \in Callers \ {w} : cp'[v] = cp[v]
             /\ cp'[w] = NoCall \/ cp'[w].disturbed = cp[w].disturbed
  BY <1>1, <1>2, <1>4, AnswerCases, AnswerKeepsDisturbed
<1>5. ASSUME NEW g \in Workers, Becomes(w, [c EXCEPT !.rpc = {g}])
      PROVE  /\ \A v \in Callers \ {w} : cp'[v] = cp[v]
             /\ cp'[w] = NoCall \/ cp'[w].disturbed = cp[w].disturbed
  <2> DEFINE d == [c EXCEPT !.rpc = {g}]
  <2>1. CpOK(d) /\ d.disturbed = c.disturbed
    BY <1>1, <1>2, WaitsOK
  <2> HIDE DEF d
  <2>2. Becomes(w, d)
    BY <1>5 DEF d
  <2> QED
    BY <1>2, <2>1, <2>2, BecomesOK
<1> QED
  BY <1>1, <1>3, <1>4, <1>5

(* The steps of a call within the provider.                                *)
Local(w) == EnsureGet(w) \/ UpdateGet(w) \/ NextPort(w) \/ Finish(w)

LEMMA LocalElsewhere ==
  ASSUME Calls, TypeInv, NEW w \in Callers, Local(w)
  PROVE  /\ cp[w].pc # "idle"
         /\ \A v \in Callers \ {w} : cp'[v] \in {cp[v], NoCall}
         /\ cp'[w] = NoCall \/ (cp'[w].disturbed = cp[w].disturbed /\ cp'[w].rpc = {})
         /\ UNCHANGED vars
<1> DEFINE c == cp[w]
<1>1. CpOK(c) /\ c \in CpRecord /\ cp \in [Callers -> CpRecord]
  BY DEF Calls
<1>2. targets \in SUBSET Mapping
  BY ProviderAssumption DEF TypeInv, TypeOK, LBInfo, targets, ProviderAssumption
<1>3. CASE EnsureGet(w)
  <2>1. c.pc = "get" /\ c.rpc = {} /\ UNCHANGED vars
    BY <1>3 DEF EnsureGet, Ready
  <2>2. HandleMappings(w, targets) \/ Becomes(w, [c EXCEPT !.pc = "create"])
    BY <1>3 DEF EnsureGet
  <2>3. CASE HandleMappings(w, targets)
    BY <1>2, <2>1, <2>3, HandlesMappings
  <2>4. CASE Becomes(w, [c EXCEPT !.pc = "create"])
    BY <1>1, <2>1, <2>4 DEF Becomes, CpRecord
  <2> QED
    BY <2>2, <2>3, <2>4
<1>4. CASE UpdateGet(w)
  <2>1. c.pc = "updateGet" /\ UNCHANGED vars
    BY <1>4 DEF UpdateGet, Ready
  <2>2. CASE HandleMappings(w, targets)
    BY <1>2, <2>1, <2>2, HandlesMappings
  <2>3. CASE cp' = [v \in Callers |-> NoCall]
    BY <2>1, <2>3
  <2> QED
    BY <1>4, <2>2, <2>3 DEF UpdateGet
<1>5. CASE NextPort(w)
  <2>1. c.pc = "mappings" /\ c.rpc = {} /\ UNCHANGED vars
    BY <1>5 DEF NextPort, Between
  <2>2. PICK j, l, u, r : Becomes(w, [c EXCEPT !.i = j, !.left = l, !.current = u, !.remove = r])
    BY <1>5 DEF NextPort
  <2> QED
    BY <1>1, <2>1, <2>2 DEF Becomes, CpRecord
<1>6. CASE Finish(w)
  BY <1>1, <1>6 DEF Finish, Finished, Between, Becomes
<1> QED
  BY <1>3, <1>4, <1>5, <1>6 DEF Local

(* What may happen to a call that nobody has disturbed after the step: it  *)
(* begins, it goes on itself, its handler goes on, or nothing is done for  *)
(* or against it.                                                          *)
LEMMA OwnSteps ==
  ASSUME ProviderTypeInv, ProviderNext, NEW w \in Callers, OnItsOwn(w), Undisturbed(w)'
  PROVE  \/ CallEnsure(w) \/ CallUpdate(w) \/ CallDelete(w)
         \/ /\ Undisturbed(w)
            /\ \/ UNCHANGED <<cp, vars>>
               \/ (EnsureGet(w) \/ UpdateGet(w) \/ NextPort(w)) /\ cp'[w].rpc = {}
               \/ Rpc(w)
               \/ \E g \in cp[w].rpc : (Handler(g) \/ CallFails(g)) /\ Answers(g)
<1> USE DEF ProviderTypeInv
<1>1. NoCall.pc = "idle" /\ NoCall.rpc = {}
  BY DEF NoCall
<1>2. cp'[w].pc # "idle" /\ ~cp'[w].disturbed /\ cp'[w] # NoCall
  BY <1>1 DEF Undisturbed
<1>3. \A v \in Callers : CpOK(cp[v])
  BY DEF Calls
<1>4. ASSUME cp'[w] = cp[w]
      PROVE  Undisturbed(w) /\ (\A v \in Callers \ {w} : cp[v].pc = "idle") /\ Running \subseteq cp[w].rpc
  BY <1>2, <1>4 DEF Undisturbed, OnItsOwn
<1>5. ASSUME cp' = Disturbed(Callers)
      PROVE  FALSE
  BY <1>2, <1>5, DisturbedFields
<1>6. ASSUME NEW v \in Callers \ {w}, CallEnsure(v) \/ CallUpdate(v) \/ CallDelete(v)
      PROVE  FALSE
  <2>1. PICK what \in {"ensure", "update", "delete"}, pc \in {"get", "updateGet", "delete"} : Call(v, what, pc)
    BY <1>6 DEF CallEnsure, CallUpdate, CallDelete
  <2>2. cp'[w] = Disturbed(Callers)[w]
    BY <1>6, <2>1, CallBegins
  <2> QED
    BY <1>2, <2>2, DisturbedFields
<1>7. ASSUME NEW v \in Callers \ {w}, Local(v) \/ Rpc(v)
      PROVE  FALSE
  <2>1. cp[v].pc # "idle" /\ cp'[w] \in {cp[w], NoCall}
    BY <1>7, LocalElsewhere, RpcElsewhere
  <2> QED
    BY <1>2, <1>4, <1>7, <2>1
<1>8. CASE Local(w)
  <2>1. ~Finish(w)
    BY <1>2 DEF Finish, Becomes, Calls
  <2>2. cp[w].pc # "idle" /\ cp'[w].disturbed = cp[w].disturbed /\ cp'[w].rpc = {}
    BY <1>2, <1>8, LocalElsewhere
  <2> QED
    BY <1>2, <1>8, <2>1, <2>2 DEF Local, Undisturbed
<1>9. CASE Rpc(w)
  BY <1>2, <1>9, RpcElsewhere DEF Undisturbed
<1>10. ASSUME NEW v \in Callers, GiveUp(v)
       PROVE  FALSE
  <2> DEFINE c == [cp[v] EXCEPT !.disturbed = TRUE]
  <2>1. cp[v].rpc # {} /\ Answer(v, c, {"CallFailed"})
    BY <1>10 DEF GiveUp
  <2>2. cp[v].pc # "idle"
    BY <1>1, <1>3, <2>1 DEF CpOK
  <2>3. CpOK(c) /\ c.pc = cp[v].pc /\ c.disturbed
    BY <1>3, <2>2 DEF CpOK, CpRecord
  <2> HIDE DEF c
  <2>4. CASE v # w
    BY <1>4, <2>1, <2>2, <2>3, <2>4, AnswerCases
  <2>5. CASE v = w
    <3>1. CASE c.pc = "mappings"
      BY <1>2, <2>1, <2>2, <2>3, <2>5, <3>1, AnswerKeepsDisturbed
    <3>2. CASE c.pc # "mappings"
      BY <1>2, <2>1, <2>2, <2>3, <2>5, <3>2, AnswerCases
    <3> QED
      BY <3>1, <3>2
  <2> QED
    BY <2>4, <2>5
<1>11. ASSUME NEW g \in Workers, Server(g) \/ ServerCallFails(g)
       PROVE  Undisturbed(w) /\ g \in cp[w].rpc /\ (Handler(g) \/ CallFails(g)) /\ Answers(g)
  <2>1. (Handler(g) \/ CallFails(g)) /\ Answers(g)
    BY <1>11 DEF Server, ServerCallFails
  <2>2. g \in Running
    BY <2>1, HandlerBusy DEF Running
  <2>3. CASE UNCHANGED cp
    BY <1>4, <2>1, <2>2, <2>3
  <2>4. ASSUME NEW v \in Callers, g \in cp[v].rpc, Answer(v, cp[v], reply'.code)
        PROVE  Undisturbed(w) /\ g \in cp[w].rpc
    <3>1. cp[v].pc # "idle"
      BY <1>1, <1>3, <2>4 DEF CpOK
    <3>2. CASE v # w
      <4>1. cp'[w] = cp[w]
        BY <1>3, <2>4, <3>1, <3>2, AnswerCases
      <4> QED
        BY <1>4, <3>1, <3>2, <4>1
    <3>3. CASE v = w
      <4>1. cp'[w].disturbed = cp[w].disturbed
        BY <1>2, <1>3, <2>4, <3>1, <3>3, AnswerKeepsDisturbed
      <4> QED
        BY <1>2, <2>4, <3>1, <3>3, <4>1 DEF Undisturbed
    <3> QED
      BY <3>2, <3>3
  <2> QED
    BY <2>1, <2>3, <2>4 DEF Answers
<1>12. CASE SetService \/ DropService \/ SetNodes \/ Readdress
  <2>1. UNCHANGED <<cp, vars>>
    BY <1>12, ClusterTyped
  <2> QED
    BY <1>4, <2>1
<1>13. CASE Lbctl
  BY <1>5, <1>13, LbctlTyped
<1>14. ASSUME NEW v \in Callers, Provider(v)
       PROVE  CallEnsure(v) \/ CallUpdate(v) \/ CallDelete(v) \/ Local(v) \/ Rpc(v)
  BY <1>14 DEF Provider, Local, Rpc
<1>15. ASSUME NEW v \in Callers, Provider(v), v # w
       PROVE  FALSE
  BY <1>6, <1>7, <1>14, <1>15
<1>16. CASE Provider(w)
  BY <1>8, <1>9, <1>14, <1>16
<1> QED
  BY <1>10, <1>11, <1>12, <1>13, <1>15, <1>16 DEF ProviderNext

-----------------------------------------------------------------------------
(* What a call maps and unmaps *)

AtMostOneSupported(s) ==
  \A i, j \in DOMAIN s : SupportedProtocol(s[i]) /\ SupportedProtocol(s[j]) => i = j
SomeSupported(s) == \E i \in DOMAIN s : SupportedProtocol(s[i])

AtMostOnePort == \A s \in Specs : AtMostOneSupported(s)
ExactlyOnePort == \A s \in Specs : AtMostOneSupported(s) /\ SomeSupported(s)

(* What is to be removed, or being removed, is not wanted.                 *)
KeepSafe(w) ==
  Undisturbed(w) /\ cp[w].pc = "mappings" =>
    /\ cp[w].remove \cap Aim(cp[w]) = {}
    /\ \A g \in cp[w].rpc : call[g].pc \in Removing => call[g].m \notin Aim(cp[w])

(* What is recorded and still to be done is what is wanted.                *)
ExactSafe(w) ==
  Undisturbed(w) /\ cp[w].pc = "mappings" /\ ~cp[w].failed =>
    LET c == cp[w] IN
      /\ Exists(Name)
      /\ PortsLeft(c) # {} => c.rpc = {} /\ c.left = {} /\ c.remove = {} /\ targets = c.current
      /\ PortsLeft(c) = {} =>
           /\ c.rpc = {} => (targets \cup c.left) \ c.remove = Aim(c)
           /\ \A g \in c.rpc :
                /\ call[g].pc \in Adding =>
                     ((targets \cup {call[g].m}) \cup c.left) \ c.remove = Aim(c)
                /\ call[g].pc \in Removing =>
                     ((targets \ {call[g].m}) \cup c.left) \ c.remove = Aim(c)

HasSpec(w) == Undisturbed(w) /\ cp[w].pc # "delete" => cp[w].spec # <<>>

Good(w) ==
  /\ OnItsOwn(w)
  /\ AtMostOnePort => KeepSafe(w)
  /\ ExactlyOnePort => HasSpec(w) /\ ExactSafe(w)

(* Nothing but the deletion is owed to a service that is gone.             *)
OwedFits == spec = <<>> => owed \subseteq {"delete"}

LEMMA OneTarget ==
  ASSUME AtMostOnePort, NEW c, CpOK(c), c.pc # "idle", NEW j \in PortsLeft(c)
  PROVE  /\ WantedAt(c, j) = Aim(c)
         /\ \A d : d.spec = c.spec /\ d.i = j => PortsLeft(d) = {}
<1>1. /\ c.spec \in Specs /\ j \in DOMAIN c.spec /\ j \in Nat /\ SupportedProtocol(c.spec[j])
  BY PortTargets
<1>2. \A k \in DOMAIN c.spec : SupportedProtocol(c.spec[k]) => k = j
  BY <1>1 DEF AtMostOnePort, AtMostOneSupported
<1>3. Aim(c) \subseteq WantedAt(c, j)
  BY <1>2 DEF Aim, Wanted, WantedAt
<1>4. WantedAt(c, j) \subseteq Aim(c)
  BY <1>1 DEF Aim, Wanted, WantedAt
<1>5. \A d : d.spec = c.spec /\ d.i = j => PortsLeft(d) = {}
  BY <1>1, <1>2 DEF PortsLeft
<1> QED
  BY <1>3, <1>4, <1>5

LEMMA SameAim ==
  ASSUME NEW c, NEW d, d.spec = c.spec, d.nodes = c.nodes, d.addr = c.addr
  PROVE  Aim(d) = Aim(c) /\ (d.i = c.i => PortsLeft(d) = PortsLeft(c))
BY DEF Aim, PortsLeft

LEMMA NoneRunning ==
  ASSUME NEW w \in Callers, OnItsOwn(w), Undisturbed(w), cp[w].rpc = {}
  PROVE  Running = {} /\ \A v \in Callers \ {w} : cp[v].pc = "idle"
BY DEF OnItsOwn

(* The call begins.                                                        *)
LEMMA GoodBegins ==
  ASSUME ProviderTypeInv, OwedFits, NEW w \in Callers, CallEnsure(w) \/ CallUpdate(w) \/ CallDelete(w)
  PROVE  Good(w)'
<1> USE DEF ProviderTypeInv
<1>1. PICK what \in {"ensure", "update", "delete"}, pc \in {"get", "updateGet", "delete"} :
        Call(w, what, pc) /\ (what = "delete" <=> pc = "delete")
  BY DEF CallEnsure, CallUpdate, CallDelete
<1>2. /\ cp'[w].pc = pc /\ cp'[w].spec = spec /\ cp'[w].rpc = {}
      /\ ~cp'[w].disturbed => Calling = {} /\ Running = {}
      /\ \A v \in Callers \ {w} : cp'[v] = Disturbed(Callers)[v]
  BY <1>1, CallBegins
<1>3. UNCHANGED vars /\ what \in owed
  BY <1>1 DEF Call
<1>4. Running' = Running
  BY <1>3 DEF Running, vars
<1>5. ASSUME Calling = {}
      PROVE  \A v \in Callers \ {w} : cp'[v].pc = "idle"
  BY <1>2, <1>5, DisturbedFields DEF Calling
<1>6. OnItsOwn(w)'
  BY <1>2, <1>4, <1>5 DEF OnItsOwn, Undisturbed
<1>7. pc # "delete" => spec # <<>>
  BY <1>1, <1>3 DEF OwedFits
<1> QED
  BY <1>2, <1>6, <1>7 DEF Good, KeepSafe, ExactSafe, HasSpec

(* Nothing happens to the call.                                            *)
LEMMA GoodStays ==
  ASSUME NEW w \in Callers, Good(w), UNCHANGED <<cp, vars>>
  PROVE  Good(w)'
<1>1. UNCHANGED <<cp, call, db>>
  BY DEF vars
<1>2. UNCHANGED <<Running, targets>> /\ (Undisturbed(w)' = Undisturbed(w)) /\ (Exists(Name)' = Exists(Name))
      /\ \A g, pc : Serves(g, pc)' = Serves(g, pc)
  BY <1>1 DEF Running, targets, Undisturbed, Exists, Serves
<1>3. OnItsOwn(w)'
  BY <1>1, <1>2 DEF Good, OnItsOwn
<1>4. KeepSafe(w) => KeepSafe(w)'
  BY <1>1, <1>2 DEF KeepSafe
<1>5. ExactSafe(w) => ExactSafe(w)'
  BY <1>1, <1>2 DEF ExactSafe
<1>6. HasSpec(w) => HasSpec(w)'
  BY <1>1, <1>2 DEF HasSpec
<1> QED
  BY <1>3, <1>4, <1>5, <1>6 DEF Good

(* The call goes on within the provider.                                   *)
LEMMA GoodLocally ==
  ASSUME ProviderTypeInv, NEW w \in Callers, Good(w), Undisturbed(w), Undisturbed(w)',
         EnsureGet(w) \/ UpdateGet(w) \/ NextPort(w)
  PROVE  Good(w)'
<1> USE DEF ProviderTypeInv
<1> DEFINE c == cp[w]
           d == cp'[w]
<1>1. CpOK(c) /\ c \in CpRecord /\ c.pc # "idle" /\ d.pc # "idle" /\ cp \in [Callers -> CpRecord]
  BY DEF Calls, Undisturbed
<1>2. /\ d # NoCall /\ NoCall.pc = "idle"
      /\ \A v \in Callers \ {w} : cp'[v] \in {cp[v], NoCall}
      /\ d.rpc = {} /\ UNCHANGED vars
  <2>1. Local(w) /\ NoCall.pc = "idle"
    BY DEF Local, NoCall
  <2> QED
    BY <1>1, <2>1, LocalElsewhere
<1>3. c.rpc = {}
  BY DEF EnsureGet, UpdateGet, NextPort, Between, Ready
<1>4. Running = {} /\ (\A v \in Callers \ {w} : cp[v].pc = "idle") /\ OnItsOwn(w)
  BY <1>3, NoneRunning DEF Good
<1>5. UNCHANGED <<call, db, Running, targets>> /\ Exists(Name)' = Exists(Name)
  BY <1>2 DEF vars, Running, targets, Exists
<1>6. OnItsOwn(w)'
  BY <1>2, <1>4, <1>5 DEF OnItsOwn
<1>7. targets \in SUBSET Mapping
  BY ProviderAssumption DEF TypeInv, TypeOK, LBInfo, targets, ProviderAssumption
<1>8. CASE HandleMappings(w, targets) /\ Exists(Name) /\ c.pc \in {"get", "updateGet"}
  <2>1. /\ d.pc = "mappings" /\ d.current = targets /\ d.i = 0
        /\ d.left = {} /\ d.remove = {} /\ d.spec = c.spec
    BY <1>7, <1>8, HandlesMappings
  <2>2. KeepSafe(w)'
    BY <1>2, <2>1 DEF KeepSafe
  <2>3. ASSUME ExactlyOnePort
        PROVE  HasSpec(w)' /\ PortsLeft(d) # {}
    <3>1. c.spec # <<>> /\ c.spec \in Specs
      BY <1>1, <1>8, <2>3 DEF Good, HasSpec, CpRecord
    <3>2. PICK j \in DOMAIN c.spec : SupportedProtocol(c.spec[j])
      BY <2>3, <3>1 DEF ExactlyOnePort, SomeSupported
    <3>3. c.spec \in Seq(ServicePort)
      BY <3>1, SpecLength
    <3>4. j \in PortsLeft(d)
      BY <2>1, <3>2, <3>3 DEF PortsLeft
    <3> QED
      BY <2>1, <3>1, <3>4 DEF HasSpec
  <2>4. ExactlyOnePort => ExactSafe(w)'
    BY <1>2, <1>5, <1>8, <2>1, <2>3 DEF ExactSafe
  <2> QED
    BY <1>6, <2>2, <2>3, <2>4 DEF Good
<1>9. CASE c.pc = "get" /\ Becomes(w, [c EXCEPT !.pc = "create"])
  <2>1. d.pc = "create" /\ d.spec = c.spec
    BY <1>1, <1>9 DEF Becomes, CpRecord
  <2> QED
    BY <1>6, <1>9, <2>1 DEF Good, KeepSafe, ExactSafe, HasSpec
<1>10. CASE NextPort(w)
  <2>1. c.pc = "mappings" /\ c.left = {} /\ c.remove = {}
    BY <1>10 DEF NextPort, Between
  <2>2. PICK j \in PortsLeft(c) :
          Becomes(w, [c EXCEPT !.i = j, !.left = WantedAt(c, j) \ c.current,
                               !.current = @ \ WantedAt(c, j), !.remove = c.current \ WantedAt(c, j)])
    BY <1>10 DEF NextPort
  <2> DEFINE K == WantedAt(c, j)
  <2> HIDE DEF K
  <2>3. /\ d.pc = c.pc /\ d.i = j /\ d.left = K \ c.current /\ d.remove = c.current \ K
        /\ d.spec = c.spec /\ d.nodes = c.nodes /\ d.addr = c.addr /\ d.failed = c.failed
    BY <1>1, <2>2 DEF Becomes, CpRecord, K
  <2>4. Aim(d) = Aim(c)
    BY <2>3, SameAim
  <2>5. AtMostOnePort => K = Aim(c) /\ PortsLeft(d) = {}
    BY <1>1, <2>3, OneTarget DEF K
  <2>6. AtMostOnePort => KeepSafe(w)'
    BY <1>2, <2>3, <2>4, <2>5 DEF KeepSafe
  <2>7. ExactlyOnePort => AtMostOnePort /\ HasSpec(w)'
    BY <2>1, <2>3 DEF ExactlyOnePort, AtMostOnePort, Good, HasSpec
  <2>8. ASSUME ExactlyOnePort PROVE ExactSafe(w)'
    <3>1. ASSUME ~d.failed
          PROVE  Exists(Name) /\ targets = c.current
      BY <2>1, <2>2, <2>3, <2>8, <3>1 DEF Good, ExactSafe
    <3>2. ASSUME ~d.failed
          PROVE  (targets \cup d.left) \ d.remove = Aim(d)
      BY <2>3, <2>4, <2>5, <2>7, <2>8, <3>1, <3>2
    <3> QED
      BY <1>2, <1>5, <2>5, <2>7, <2>8, <3>1, <3>2 DEF ExactSafe
  <2> QED
    BY <1>6, <2>6, <2>7, <2>8 DEF Good
<1> QED
  <2>1. CASE EnsureGet(w)
    BY <1>8, <1>9, <2>1 DEF EnsureGet, Ready
  <2>2. CASE UpdateGet(w)
    <3>1. cp' # [v \in Callers |-> NoCall]
      BY <1>2
    <3> QED
      BY <1>8, <2>2, <3>1 DEF UpdateGet, Ready
  <2> QED
    BY <1>10, <2>1, <2>2

(* The call asks lbmanager for a mapping k: lbmanager refuses, or works on *)
(* it with what is recorded.                                               *)
LEMMA SendsMapping ==
  ASSUME ProviderTypeInv, NEW w \in Callers, OnItsOwn(w), Undisturbed(w), Undisturbed(w)',
         cp[w].pc = "mappings", cp[w].rpc = {},
         NEW c, CpOK(c), c.pc = "mappings", NEW k \in Mapping, NEW pc,
         \/ Lost(w, c)
         \/ \E g \in FreeWorker :
              /\ (AddGet(g, Name, k) /\ pc = "isPresent") \/ (DelGet(g, Name, k) /\ pc = "delDest")
              /\ Sent(w, c, g)
  PROVE  LET d == cp'[w] IN
           /\ UNCHANGED <<db, dests>>
           /\ \A v \in Callers \ {w} : cp'[v].pc = "idle"
           /\ d.pc = "mappings" /\ d.i = c.i /\ d.left = c.left /\ d.remove = c.remove
           /\ d.spec = c.spec /\ d.nodes = c.nodes /\ d.addr = c.addr /\ (c.failed => d.failed)
           /\ \/ d.failed /\ d.rpc = {} /\ Running' = {}
              \/ \E g \in Workers :
                   /\ d.rpc = {g} /\ Running' \subseteq {g}
                   /\ call'[g].pc = pc /\ call'[g].n = Name /\ call'[g].m = k
                   /\ call'[g].info = db[Name] /\ Exists(Name)
<1> USE DEF ProviderTypeInv
<1> DEFINE d == cp'[w]
<1>1. Running = {} /\ \A v \in Callers \ {w} : cp[v].pc = "idle"
  BY NoneRunning
<1>2. NoCall.pc = "idle" /\ d # NoCall /\ call \in [Workers -> CallRecord]
  BY DEF NoCall, Undisturbed, TypeInv
<1>3. ASSUME NEW code, code # {}, Answer(w, c, code)
      PROVE  /\ \A v \in Callers \ {w} : cp'[v].pc = "idle"
             /\ d.pc = "mappings" /\ d.i = c.i /\ d.left = c.left /\ d.remove = c.remove
             /\ d.spec = c.spec /\ d.nodes = c.nodes /\ d.addr = c.addr
             /\ d.failed /\ d.rpc = {}
  <2>1. (\A v \in Callers \ {w} : cp'[v] = cp[v]) /\ d = [c EXCEPT !.rpc = {}, !.failed = @ \/ code # {}]
    BY <1>2, <1>3, AnswerCases
  <2> DEFINE f == c.failed \/ code # {}
  <2>2. d = [c EXCEPT !.rpc = {}, !.failed = f] /\ f = TRUE
    BY <1>3, <2>1
  <2> HIDE DEF f
  <2>3. /\ d.pc = "mappings" /\ d.i = c.i /\ d.left = c.left /\ d.remove = c.remove
        /\ d.spec = c.spec /\ d.nodes = c.nodes /\ d.addr = c.addr
        /\ d.failed = f /\ d.rpc = {}
    BY <2>2 DEF CpOK, CpRecord
  <2> QED
    BY <1>1, <2>1, <2>2, <2>3
<1>4. CASE Lost(w, c)
  <2>1. Answer(w, c, {"CallFailed"}) /\ UNCHANGED vars /\ {"CallFailed"} # {}
    BY <1>4 DEF Lost
  <2>2. UNCHANGED <<db, dests, Running>>
    BY <2>1 DEF vars, Running
  <2> QED
    BY <1>1, <1>3, <2>1, <2>2
<1>5. ASSUME NEW g \in FreeWorker,
             (AddGet(g, Name, k) /\ pc = "isPresent") \/ (DelGet(g, Name, k) /\ pc = "delDest"),
             Sent(w, c, g)
      PROVE  /\ UNCHANGED <<db, dests>>
             /\ \A v \in Callers \ {w} : cp'[v].pc = "idle"
             /\ d.pc = "mappings" /\ d.i = c.i /\ d.left = c.left /\ d.remove = c.remove
             /\ d.spec = c.spec /\ d.nodes = c.nodes /\ d.addr = c.addr /\ (c.failed => d.failed)
             /\ \/ d.failed /\ d.rpc = {} /\ Running' = {}
                \/ \E h \in Workers :
                     /\ d.rpc = {h} /\ Running' \subseteq {h}
                     /\ call'[h].pc = pc /\ call'[h].n = Name /\ call'[h].m = k
                     /\ call'[h].info = db[Name] /\ Exists(Name)
  <2>1. g \in Workers
    BY FreeIsIdle
  <2>2. /\ UNCHANGED <<db, addrs, svcs, dests>>
        /\ \/ call' = [call EXCEPT ![g] = Idle] /\ reply'.code # {}
           \/ /\ Exists(Name)
              /\ \E e : /\ call' = [call EXCEPT ![g] = e]
                        /\ e.pc = pc /\ e.n = Name /\ e.m = k /\ e.info = db[Name]
    BY <1>5, <2>1, RpcBegins
  <2>3. CASE call' = [call EXCEPT ![g] = Idle] /\ reply'.code # {}
    <3>1. call'[g].pc = "idle" /\ Running' = {}
      BY <1>1, <1>2, <2>1, <2>3 DEF Running, Idle
    <3>2. Answer(w, c, reply'.code)
      BY <1>5, <3>1 DEF Sent
    <3> QED
      BY <1>3, <2>2, <2>3, <3>1, <3>2
  <2>4. ASSUME NEW e, Exists(Name), call' = [call EXCEPT ![g] = e],
               e.pc = pc, e.n = Name, e.m = k, e.info = db[Name]
        PROVE  /\ \A v \in Callers \ {w} : cp'[v].pc = "idle"
               /\ d.pc = "mappings" /\ d.i = c.i /\ d.left = c.left /\ d.remove = c.remove
               /\ d.spec = c.spec /\ d.nodes = c.nodes /\ d.addr = c.addr /\ (c.failed => d.failed)
               /\ d.rpc = {g} /\ Running' \subseteq {g}
               /\ call'[g].pc = pc /\ call'[g].n = Name /\ call'[g].m = k
               /\ call'[g].info = db[Name]
    <3>1. call'[g] = e /\ Running' \subseteq {g} /\ call'[g].pc # "idle"
      BY <1>1, <1>2, <1>5, <2>1, <2>4 DEF Running
    <3> DEFINE s == [c EXCEPT !.rpc = {g}]
    <3>2. Becomes(w, s)
      BY <1>5, <3>1 DEF Sent
    <3>3. /\ CpOK(s) /\ s.pc = c.pc /\ s.rpc = {g} /\ s.i = c.i /\ s.left = c.left
          /\ s.remove = c.remove /\ s.spec = c.spec /\ s.nodes = c.nodes /\ s.addr = c.addr
          /\ s.failed = c.failed
      BY <2>1, WaitsOK
    <3> HIDE DEF s
    <3>4. d = s /\ \A v \in Callers \ {w} : cp'[v] = cp[v]
      BY <3>2, <3>3, BecomesOK
    <3> QED
      BY <1>1, <2>4, <3>1, <3>3, <3>4
  <2> QED
    BY <2>1, <2>2, <2>3, <2>4
<1> QED
  BY <1>4, <1>5

(* The call asks lbmanager to map a node, or to remove a mapping.          *)
LEMMA GoodSendsMapping ==
  ASSUME ProviderTypeInv, NEW w \in Callers, Good(w), Undisturbed(w), Undisturbed(w)',
         MapNode(w) \/ Remove(w)
  PROVE  Good(w)'
<1> USE DEF ProviderTypeInv
<1> DEFINE c == cp[w]
           d == cp'[w]
<1>1. CpOK(c) /\ c \in CpRecord /\ c.pc = "mappings" /\ c.rpc = {} /\ OnItsOwn(w)
  BY DEF Calls, MapNode, Remove, Ready, Good
<1>2. ASSUME NEW k \in Mapping, NEW pc \in {"isPresent", "delDest"}, NEW L, NEW R,
             /\ UNCHANGED <<db, dests>>
             /\ \A v \in Callers \ {w} : cp'[v].pc = "idle"
             /\ d.pc = "mappings" /\ d.i = c.i /\ d.left = L /\ d.remove = R
             /\ d.spec = c.spec /\ d.nodes = c.nodes /\ d.addr = c.addr /\ (c.failed => d.failed)
             /\ \/ d.failed /\ d.rpc = {} /\ Running' = {}
                \/ \E g \in Workers :
                     /\ d.rpc = {g} /\ Running' \subseteq {g}
                     /\ call'[g].pc = pc /\ call'[g].n = Name /\ call'[g].m = k
                     /\ call'[g].info = db[Name] /\ Exists(Name),
             \/ pc = "isPresent" /\ k \in c.left /\ L = c.left \ {k} /\ R = c.remove
             \/ pc = "delDest" /\ k \in c.remove /\ c.left = {} /\ L = {} /\ R = c.remove \ {k}
      PROVE  Good(w)'
  <2>1. targets' = targets /\ Exists(Name)' = Exists(Name) /\ db' = db
    BY <1>2 DEF targets, Exists
  <2>2. OnItsOwn(w)'
    <3>1. ASSUME NEW g \in d.rpc PROVE Serves(g, "mappings")'
      BY <1>2, <2>1, <3>1 DEF Serves, Adding, Removing
    <3> QED
      BY <1>2, <3>1 DEF OnItsOwn
  <2>3. Aim(d) = Aim(c) /\ PortsLeft(d) = PortsLeft(c)
    BY <1>2, SameAim
  <2>4. AtMostOnePort => KeepSafe(w)'
    <3>1. AtMostOnePort => c.remove \cap Aim(c) = {}
      BY <1>1 DEF Good, KeepSafe
    <3>2. AtMostOnePort => R \cap Aim(d) = {} /\ (pc = "delDest" => k \notin Aim(d))
      BY <1>2, <2>3, <3>1
    <3> QED
      BY <1>2, <3>2 DEF KeepSafe, Adding, Removing
  <2>5. ASSUME ExactlyOnePort
        PROVE  HasSpec(w)' /\ ExactSafe(w)'
    <3>1. HasSpec(w)'
      BY <1>1, <1>2, <2>5 DEF Good, HasSpec
    <3>2. ASSUME ~d.failed
          PROVE  Exists(Name) /\ PortsLeft(c) = {} /\ (targets \cup c.left) \ c.remove = Aim(c)
      BY <1>1, <1>2, <2>5, <3>2 DEF Good, ExactSafe
    <3>3. ASSUME ~d.failed, pc = "isPresent"
          PROVE  ((targets \cup {k}) \cup L) \ R = Aim(c)
      BY <1>2, <3>2, <3>3
    <3>4. ASSUME ~d.failed, pc = "delDest"
          PROVE  ((targets \ {k}) \cup L) \ R = Aim(c)
      BY <1>2, <3>2, <3>4
    <3>5. ASSUME ~d.failed
          PROVE  \E g \in Workers : /\ d.rpc = {g} /\ call'[g].pc = pc /\ call'[g].m = k
      BY <1>2, <3>5
    <3>6. "isPresent" \in Adding /\ "isPresent" \notin Removing /\ "delDest" \in Removing /\ "delDest" \notin Adding
      BY DEF Adding, Removing
    <3>7. ASSUME ~d.failed
          PROVE  \A g \in d.rpc :
                   /\ call'[g].pc \in Adding =>
                        ((targets \cup {call'[g].m}) \cup d.left) \ d.remove = Aim(d)
                   /\ call'[g].pc \in Removing =>
                        ((targets \ {call'[g].m}) \cup d.left) \ d.remove = Aim(d)
      <4>1. PICK g \in Workers : d.rpc = {g} /\ call'[g].pc = pc /\ call'[g].m = k
        BY <3>5, <3>7
      <4>2. d.left = L /\ d.remove = R
        BY <1>2
      <4>3. CASE pc = "isPresent"
        BY <2>3, <3>3, <3>6, <3>7, <4>1, <4>2, <4>3
      <4>4. CASE pc = "delDest"
        BY <2>3, <3>4, <3>6, <3>7, <4>1, <4>2, <4>4
      <4> QED
        BY <1>2, <4>3, <4>4
    <3> QED
      BY <2>1, <2>3, <3>1, <3>2, <3>5, <3>7 DEF ExactSafe
  <2> QED
    BY <2>2, <2>4, <2>5 DEF Good
<1>3. CASE MapNode(w)
  <2>1. PICK k \in c.left :
          LET e == [c EXCEPT !.left = @ \ {k}] IN
            Lost(w, e) \/ \E g \in FreeWorker : AddGet(g, Name, k) /\ Sent(w, e, g)
    BY <1>3 DEF MapNode
  <2> DEFINE e == [c EXCEPT !.left = @ \ {k}]
  <2>2. /\ CpOK(e) /\ e.pc = c.pc /\ e.i = c.i /\ e.left = c.left \ {k}
        /\ e.remove = c.remove /\ e.spec = c.spec /\ e.nodes = c.nodes /\ e.addr = c.addr
        /\ e.failed = c.failed /\ k \in Mapping
    BY <1>1, PopOK DEF CpRecord
  <2>3. \/ Lost(w, e)
        \/ \E g \in FreeWorker :
             /\ (AddGet(g, Name, k) /\ "isPresent" = "isPresent") \/ (DelGet(g, Name, k) /\ "isPresent" = "delDest")
             /\ Sent(w, e, g)
    BY <2>1
  <2> HIDE DEF e
  <2> QED
    BY <1>1, <1>2, <2>2, <2>3, SendsMapping
<1>4. CASE Remove(w)
  <2>1. PICK k \in c.remove :
          LET e == [c EXCEPT !.remove = @ \ {k}] IN
            Lost(w, e) \/ \E g \in FreeWorker : DelGet(g, Name, k) /\ Sent(w, e, g)
    BY <1>4 DEF Remove
  <2> DEFINE e == [c EXCEPT !.remove = @ \ {k}]
  <2>2. /\ CpOK(e) /\ e.pc = c.pc /\ e.i = c.i /\ e.left = c.left /\ c.left = {}
        /\ e.remove = c.remove \ {k} /\ e.spec = c.spec /\ e.nodes = c.nodes /\ e.addr = c.addr
        /\ e.failed = c.failed /\ k \in Mapping
    BY <1>1, <1>4, PopOK DEF CpRecord, Remove
  <2>3. \/ Lost(w, e)
        \/ \E g \in FreeWorker :
             /\ (AddGet(g, Name, k) /\ "delDest" = "isPresent") \/ (DelGet(g, Name, k) /\ "delDest" = "delDest")
             /\ Sent(w, e, g)
    BY <2>1
  <2> HIDE DEF e
  <2> DEFINE R == c.remove \ {k}
  <2>4. e.left = {} /\ e.remove = R /\ e.pc = "mappings" /\ CpOK(e) /\ k \in Mapping
    BY <1>1, <2>2
  <2> HIDE DEF R
  <2>5. /\ UNCHANGED <<db, dests>>
        /\ \A v \in Callers \ {w} : cp'[v].pc = "idle"
        /\ d.pc = "mappings" /\ d.i = e.i /\ d.left = e.left /\ d.remove = e.remove
        /\ d.spec = e.spec /\ d.nodes = e.nodes /\ d.addr = e.addr /\ (e.failed => d.failed)
        /\ \/ d.failed /\ d.rpc = {} /\ Running' = {}
           \/ \E g \in Workers :
                /\ d.rpc = {g} /\ Running' \subseteq {g}
                /\ call'[g].pc = "delDest" /\ call'[g].n = Name /\ call'[g].m = k
                /\ call'[g].info = db[Name] /\ Exists(Name)
    BY <1>1, <2>3, <2>4, SendsMapping
  <2>6. /\ d.i = c.i /\ d.left = {} /\ d.remove = R
        /\ d.spec = c.spec /\ d.nodes = c.nodes /\ d.addr = c.addr /\ (c.failed => d.failed)
    BY <2>2, <2>4, <2>5
  <2>7. k \in c.remove /\ c.left = {} /\ R = c.remove \ {k}
    BY <2>2 DEF R
  <2> HIDE DEF c, d
  <2> QED
    BY <1>2, <2>4, <2>5, <2>6, <2>7
<1> QED
  BY <1>3, <1>4

(* The call asks lbmanager for the load balancer itself.                   *)
LEMMA GoodSendsOther ==
  ASSUME ProviderTypeInv, NEW w \in Callers, Good(w), Undisturbed(w), Undisturbed(w)',
         EnsureCreate(w) \/ EnsureDeleted(w)
  PROVE  Good(w)'
<1> USE DEF ProviderTypeInv
<1> DEFINE c == cp[w]
           d == cp'[w]
<1>1. CpOK(c) /\ c \in CpRecord /\ c.pc \in {"create", "delete"} /\ c.rpc = {} /\ OnItsOwn(w)
  BY DEF Calls, EnsureCreate, EnsureDeleted, Ready, Good
<1>2. Running = {} /\ (\A v \in Callers \ {w} : cp[v].pc = "idle") /\ call \in [Workers -> CallRecord]
  BY <1>1, NoneRunning DEF TypeInv
<1>3. NoCall.pc = "idle" /\ d # NoCall
  BY DEF NoCall, Undisturbed
<1>4. ASSUME NEW code, Answer(w, c, code), code # {} \/ c.pc = "delete"
      PROVE  FALSE
  BY <1>1, <1>3, <1>4, AnswerCases
<1>5. ~Lost(w, c)
  BY <1>4 DEF Lost
<1>6. PICK g \in FreeWorker :
        /\ (c.pc = "create" /\ CreateGet(g, Name, LoadBalancerIP)) \/ (c.pc = "delete" /\ DeleteGet(g, Name))
        /\ Sent(w, c, g)
  BY <1>5 DEF EnsureCreate, EnsureDeleted, Ready
<1>7. g \in Workers
  BY FreeIsIdle
<1>8. PICK e : /\ call' = [call EXCEPT ![g] = e]
               /\ c.pc = "create" => \/ e = Idle /\ reply'.code # {}
                                     \/ e.pc \in {"allocate", "addrList"} /\ e.n = Name
  BY <1>1, <1>6, <1>7, CreateBegins, DeleteBegins
<1>9. call'[g] = e /\ Running' \subseteq {g}
  BY <1>2, <1>7, <1>8 DEF Running
<1>10. e.pc # "idle"
  BY <1>1, <1>4, <1>6, <1>8, <1>9 DEF Sent, Idle
<1> DEFINE s == [c EXCEPT !.rpc = {g}]
<1>11. Becomes(w, s)
  BY <1>6, <1>9, <1>10 DEF Sent
<1>12. CpOK(s) /\ s.pc = c.pc /\ s.rpc = {g} /\ s.spec = c.spec
  BY <1>1, <1>7, WaitsOK
<1> HIDE DEF s
<1>13. d = s /\ \A v \in Callers \ {w} : cp'[v] = cp[v]
  BY <1>11, <1>12, BecomesOK
<1>14. \A pc : pc = c.pc => Serves(g, pc)'
  <2>1. c.pc = "create" => e.pc \in {"allocate", "addrList"} /\ e.n = Name
    BY <1>8, <1>10 DEF Idle
  <2>2. "delete" # "create" /\ "delete" # "mappings" /\ "create" # "mappings"
    OBVIOUS
  <2> QED
    BY <1>1, <1>9, <2>1, <2>2 DEF Serves, Storing
<1>15. OnItsOwn(w)'
  BY <1>2, <1>9, <1>12, <1>13, <1>14 DEF OnItsOwn
<1> QED
  BY <1>1, <1>12, <1>13, <1>15 DEF Good, KeepSafe, ExactSafe, HasSpec

(* lbmanager goes on with the handler that the call waits for: the call    *)
(* learns of it when the handler ends.                                     *)
LEMMA HandlerAlone ==
  ASSUME ProviderTypeInv, NEW w \in Callers, OnItsOwn(w), Undisturbed(w), NEW g \in cp[w].rpc,
         Handler(g) \/ CallFails(g), Answers(g)
  PROVE  /\ g \in Workers /\ cp[w].rpc = {g} /\ Serves(g, cp[w].pc)
         /\ cp[w].pc \in {"create", "mappings", "delete"}
         /\ \A v \in Callers \ {w} : cp[v].pc = "idle"
         /\ Running' \subseteq {g}
         /\ call'[g].pc # "idle" => UNCHANGED cp
         /\ call'[g].pc = "idle" => Running' = {} /\ Answer(w, cp[w], reply'.code)
<1> USE DEF ProviderTypeInv
<1>1. CpOK(cp[w]) /\ cp[w].pc # "idle" /\ \A v \in Callers \ {w} : CpOK(cp[v]) /\ cp[v].pc = "idle"
  BY DEF Calls, OnItsOwn, Undisturbed
<1>2. g \in Workers /\ cp[w].rpc = {g} /\ Serves(g, cp[w].pc) /\ Running \subseteq {g}
  BY <1>1 DEF OnItsOwn, CpOK, CpRecord
<1>3. cp[w].pc \in {"create", "mappings", "delete"}
  BY <1>1, <1>2 DEF CpOK, CpRecord, Phases
<1>4. \A v \in Callers \ {w} : cp[v].rpc = {}
  BY <1>1 DEF CpOK, NoCall
<1>5. PICK d : call' = [call EXCEPT ![g] = d]
  BY <1>2, HandlerContinues
<1>6. call \in [Workers -> CallRecord] /\ call'[g] = d /\ \A h \in Workers \ {g} : call'[h] = call[h]
  BY <1>2, <1>5 DEF TypeInv
<1>7. Running' \subseteq {g} /\ (call'[g].pc = "idle" => Running' = {})
  BY <1>2, <1>6 DEF Running
<1>8. call'[g].pc # "idle" => UNCHANGED cp
  BY DEF Answers
<1>9. call'[g].pc = "idle" => Answer(w, cp[w], reply'.code)
  BY <1>2, <1>4 DEF Answers
<1> QED
  BY <1>1, <1>2, <1>3, <1>7, <1>8, <1>9

(* The handler adds or removes a mapping.                                  *)
LEMMA GoodMappingHandler ==
  ASSUME ProviderTypeInv, NEW w \in Callers, Good(w), Undisturbed(w), Undisturbed(w)',
         NEW g \in cp[w].rpc, Handler(g) \/ CallFails(g), Answers(g), cp[w].pc = "mappings"
  PROVE  Good(w)'
<1> USE DEF ProviderTypeInv
<1> DEFINE c == cp[w]
           d == cp'[w]
           k == call[g].m
           T == IF call[g].pc \in Adding THEN targets \cup {k} ELSE targets \ {k}
<1>1. /\ g \in Workers /\ c.rpc = {g} /\ Serves(g, "mappings")
      /\ \A v \in Callers \ {w} : cp[v].pc = "idle"
      /\ Running' \subseteq {g}
      /\ call'[g].pc # "idle" => UNCHANGED cp
      /\ call'[g].pc = "idle" => Running' = {} /\ Answer(w, c, reply'.code)
  BY HandlerAlone DEF Good
<1>2. /\ call[g].pc \in Adding \cup Removing /\ call[g].n = Name /\ Exists(Name)
      /\ call[g].info = db[Name] /\ (call[g].pc = "delService" => LastOnPort(call[g].info, k))
  BY <1>1 DEF Serves
<1>3. /\ CpOK(c) /\ c.pc = "mappings" /\ call \in [Workers -> CallRecord] /\ CallOK(call[g])
      /\ db \in [Names -> LBInfo] /\ Name \in Names
  BY <1>1, ProviderAssumption DEF Calls, TypeInv, TypeOK, ProviderAssumption
<1>4. "idle" \notin Adding \cup Removing /\ Adding \cap Removing = {} /\ Idle.pc = "idle"
  BY DEF Adding, Removing, Idle
<1>5. AtMostOnePort => KeepSafe(w)
  BY DEF Good
<1>6. ExactlyOnePort => HasSpec(w) /\ ExactSafe(w)
  BY DEF Good
<1>7. ASSUME ExactlyOnePort, ~c.failed
      PROVE  PortsLeft(c) = {} /\ (T \cup c.left) \ c.remove = Aim(c)
  BY <1>1, <1>2, <1>4, <1>6, <1>7 DEF ExactSafe
<1> HIDE DEF T
<1>8. ASSUME call'[g].pc = "idle", Exists(Name)', reply'.code # {} \/ targets' = T
      PROVE  Good(w)'
  <2>0. PICK code : code = reply'.code
    OBVIOUS
  <2>1. Running' = {} /\ Answer(w, c, code)
    BY <1>1, <1>8, <2>0
  <2> DEFINE f == c.failed \/ code # {}
             a == [c EXCEPT !.rpc = {}, !.failed = f]
  <2>2. /\ a.pc = "mappings" /\ a.rpc = {} /\ a.i = c.i /\ a.left = c.left
        /\ a.remove = c.remove /\ a.spec = c.spec /\ a.nodes = c.nodes /\ a.addr = c.addr
        /\ a.failed = f
    <3> HIDE DEF f
    <3> QED
      BY <1>3 DEF CpOK, CpRecord
  <2>3. d = a /\ \A v \in Callers \ {w} : cp'[v] = cp[v]
    <3>1. d # NoCall
      BY DEF Undisturbed, NoCall
    <3> QED
      BY <1>3, <2>1, <3>1, AnswerCases
  <2> HIDE DEF a
  <2>4. Aim(d) = Aim(c) /\ PortsLeft(d) = PortsLeft(c)
    BY <2>2, <2>3, SameAim
  <2>5. OnItsOwn(w)'
    BY <1>1, <2>1, <2>2, <2>3 DEF OnItsOwn
  <2>6. AtMostOnePort => KeepSafe(w)'
    BY <1>3, <1>5, <2>2, <2>3, <2>4 DEF KeepSafe
  <2>7. ASSUME ExactlyOnePort PROVE HasSpec(w)' /\ ExactSafe(w)'
    <3>1. HasSpec(w)'
      BY <1>3, <1>6, <2>2, <2>3, <2>7 DEF HasSpec
    <3>2. ASSUME ~d.failed
          PROVE  PortsLeft(d) = {} /\ (targets' \cup d.left) \ d.remove = Aim(d)
      BY <1>7, <1>8, <2>0, <2>2, <2>3, <2>4, <2>7, <3>2
    <3> QED
      BY <1>8, <2>2, <2>3, <3>1, <3>2 DEF ExactSafe
  <2> QED
    BY <2>5, <2>6, <2>7 DEF Good
<1>9. ASSUME db' = db, NEW pc, call' = [call EXCEPT ![g].pc = pc],
             \/ pc \in Adding /\ call[g].pc \in Adding
             \/ /\ pc \in Removing /\ call[g].pc \in Removing
                /\ pc = "delService" => LastOnPort(call[g].info, k)
      PROVE  Good(w)'
  <2>1. call'[g].pc = pc /\ call'[g].m = k /\ call'[g].n = Name /\ call'[g].info = db[Name]
    BY <1>1, <1>2, <1>3, <1>9 DEF CallRecord
  <2>2. UNCHANGED cp /\ UNCHANGED targets /\ Exists(Name)'
    BY <1>1, <1>2, <1>4, <1>9, <2>1 DEF targets, Exists
  <2>3. Serves(g, "mappings")'
    BY <1>2, <1>9, <2>1, <2>2 DEF Serves, Adding
  <2>4. OnItsOwn(w)'
    BY <1>1, <1>3, <2>2, <2>3 DEF OnItsOwn
  <2>5. AtMostOnePort => KeepSafe(w)'
    BY <1>1, <1>3, <1>4, <1>5, <1>9, <2>1, <2>2 DEF KeepSafe
  <2>6. ASSUME ExactlyOnePort PROVE HasSpec(w)' /\ ExactSafe(w)'
    <3>1. HasSpec(w)'
      BY <1>3, <1>6, <2>2, <2>6 DEF HasSpec
    <3>2. ExactSafe(w)'
      BY <1>1, <1>2, <1>3, <1>4, <1>7, <1>9, <2>1, <2>2, <2>6 DEF ExactSafe, T
    <3> QED
      BY <3>1, <3>2
  <2> QED
    BY <2>4, <2>5, <2>6 DEF Good
<1>10. ASSUME call' = [call EXCEPT ![g] = Idle]
       PROVE  call'[g].pc = "idle"
  BY <1>1, <1>3, <1>4, <1>10
<1>11. ASSUME db' = db
       PROVE  Exists(Name)'
  BY <1>2, <1>11 DEF Exists
<1>12. ASSUME NEW S, db' = [db EXCEPT ![Name] = [db[Name] EXCEPT !.targets = S]]
       PROVE  Exists(Name)' /\ targets' = S
  BY <1>2, <1>3, <1>12 DEF Exists, targets, LBInfo
<1>13. CASE call[g].pc \in Adding
  <2>1. \/ db' = db /\ call' = [call EXCEPT ![g] = Idle] /\ reply'.code # {}
        \/ /\ db' = [db EXCEPT ![Name] = [db[Name] EXCEPT !.targets = @ \cup {k}]]
           /\ call' = [call EXCEPT ![g] = Idle]
        \/ db' = db /\ \E pc \in Adding : call' = [call EXCEPT ![g].pc = pc]
    BY <1>1, <1>2, <1>13, AddingStep
  <2>2. CASE db' = [db EXCEPT ![Name] = [db[Name] EXCEPT !.targets = @ \cup {k}]]
    <3>1. db' = [db EXCEPT ![Name] = [db[Name] EXCEPT !.targets = T]]
      BY <1>13, <2>2 DEF T, targets
    <3> QED
      BY <1>8, <1>9, <1>10, <1>12, <1>13, <2>1, <3>1
  <2> QED
    BY <1>8, <1>9, <1>10, <1>11, <1>13, <2>1, <2>2
<1>14. CASE call[g].pc \in Removing
  <2>1. \/ db' = db /\ call' = [call EXCEPT ![g] = Idle] /\ reply'.code # {}
        \/ /\ db' = [db EXCEPT ![Name] = [db[Name] EXCEPT !.targets = @ \ {k}]]
           /\ call' = [call EXCEPT ![g] = Idle]
        \/ /\ db' = db
           /\ \E pc \in Removing : /\ call' = [call EXCEPT ![g].pc = pc]
                                   /\ pc = "delService" => LastOnPort(call[g].info, k)
    BY <1>1, <1>2, <1>14, RemovingStep
  <2>2. CASE db' = [db EXCEPT ![Name] = [db[Name] EXCEPT !.targets = @ \ {k}]]
    <3>1. db' = [db EXCEPT ![Name] = [db[Name] EXCEPT !.targets = T]]
      BY <1>4, <1>14, <2>2 DEF T, targets
    <3> QED
      BY <1>8, <1>9, <1>10, <1>12, <1>14, <2>1, <3>1
  <2> QED
    BY <1>8, <1>9, <1>10, <1>11, <1>14, <2>1, <2>2
<1> QED
  BY <1>2, <1>13, <1>14

(* The handler creates or deletes the load balancer.                       *)
LEMMA GoodOtherHandler ==
  ASSUME ProviderTypeInv, NEW w \in Callers, Good(w), Undisturbed(w), Undisturbed(w)',
         NEW g \in cp[w].rpc, Handler(g) \/ CallFails(g), Answers(g), cp[w].pc # "mappings"
  PROVE  Good(w)'
<1> USE DEF ProviderTypeInv
<1> DEFINE c == cp[w]
           d == cp'[w]
<1>1. /\ g \in Workers /\ c.rpc = {g} /\ Serves(g, c.pc) /\ c.pc \in {"create", "delete"}
      /\ \A v \in Callers \ {w} : cp[v].pc = "idle"
      /\ Running' \subseteq {g}
      /\ call'[g].pc # "idle" => UNCHANGED cp
      /\ call'[g].pc = "idle" => Running' = {} /\ Answer(w, c, reply'.code)
  BY HandlerAlone DEF Good
<1>2. /\ CpOK(c) /\ c \in CpRecord /\ call \in [Workers -> CallRecord]
      /\ db \in [Names -> LBInfo] /\ Name \in Names
  BY ProviderAssumption DEF Calls, TypeInv, TypeOK, ProviderAssumption
<1>3. d # NoCall
  BY DEF Undisturbed, NoCall
<1>4. ASSUME UNCHANGED cp, c.pc = "create" => call'[g].pc \in {"allocate"} \cup Storing /\ call'[g].n = Name
      PROVE  Good(w)'
  <2>1. \A pc : pc = c.pc => Serves(g, pc)'
    <3>1. "delete" # "mappings" /\ "create" # "mappings"
      OBVIOUS
    <3> QED
      BY <1>1, <1>4, <3>1 DEF Serves
  <2>2. OnItsOwn(w)'
    BY <1>1, <1>4, <2>1 DEF OnItsOwn
  <2> QED
    BY <1>1, <1>4, <2>2 DEF Good, KeepSafe, ExactSafe, HasSpec
<1>5. CASE c.pc = "delete"
  <2>1. ~Answer(w, c, reply'.code)
    BY <1>2, <1>3, <1>5, AnswerCases
  <2> QED
    BY <1>1, <1>4, <1>5, <2>1
<1>6. CASE c.pc = "create"
  <2>1. call[g].pc \in {"allocate"} \cup Storing /\ call[g].n = Name
    BY <1>1, <1>6 DEF Serves
  <2>2. \/ call' = [call EXCEPT ![g] = Idle] /\ reply'.code # {}
        \/ /\ call' = [call EXCEPT ![g] = Idle]
           /\ db' = [db EXCEPT ![Name] = [ip |-> call[g].ip, targets |-> {}]] /\ call[g].ip # NoIP
        \/ \E e : call' = [call EXCEPT ![g] = e] /\ e.pc \in Storing /\ e.n = Name
    BY <1>1, <2>1, CreatingStep
  <2>3. ASSUME NEW e, call' = [call EXCEPT ![g] = e], e.pc \in Storing, e.n = Name
        PROVE  Good(w)'
    <3>1. call'[g] = e /\ e.pc # "idle"
      BY <1>1, <1>2, <2>3 DEF Storing
    <3> QED
      BY <1>1, <1>4, <1>6, <2>3, <3>1
  <2>4. ASSUME call' = [call EXCEPT ![g] = Idle]
        PROVE  Running' = {} /\ reply'.code = {} /\ HandleMappings(w, {})
    <3>1. call'[g].pc = "idle"
      BY <1>1, <1>2, <2>4 DEF Idle
    <3> QED
      BY <1>1, <1>2, <1>3, <1>6, <3>1, AnswerCases
  <2>5. CASE /\ call' = [call EXCEPT ![g] = Idle]
             /\ db' = [db EXCEPT ![Name] = [ip |-> call[g].ip, targets |-> {}]] /\ call[g].ip # NoIP
    <3>1. {} \in SUBSET Mapping /\ c.pc \in {"get", "create", "updateGet"}
      BY <1>6
    <3>2. /\ d.pc = "mappings" /\ d.current = {} /\ d.i = 0 /\ d.rpc = {}
          /\ d.left = {} /\ d.remove = {} /\ d.spec = c.spec
          /\ \A v \in Callers \ {w} : cp'[v] = cp[v]
      BY <2>4, <2>5, <3>1, HandlesMappings
    <3>3. targets' = {} /\ Exists(Name)'
      BY <1>2, <2>5 DEF targets, Exists
    <3>4. OnItsOwn(w)'
      BY <1>1, <2>4, <2>5, <3>2 DEF OnItsOwn
    <3>5. KeepSafe(w)'
      BY <3>2 DEF KeepSafe
    <3>6. ASSUME ExactlyOnePort
          PROVE  HasSpec(w)' /\ PortsLeft(d) # {}
      <4>1. c.spec # <<>> /\ c.spec \in Specs
        BY <1>2, <1>6, <3>6 DEF Good, HasSpec, CpRecord
      <4>2. PICK j \in DOMAIN c.spec : SupportedProtocol(c.spec[j])
        BY <3>6, <4>1 DEF ExactlyOnePort, SomeSupported
      <4>3. c.spec \in Seq(ServicePort)
        BY <4>1, SpecLength
      <4>4. j \in PortsLeft(d)
        BY <3>2, <4>2, <4>3 DEF PortsLeft
      <4> QED
        BY <3>2, <4>1, <4>4 DEF HasSpec
    <3>7. ExactlyOnePort => ExactSafe(w)'
      BY <3>2, <3>3, <3>6 DEF ExactSafe
    <3> QED
      BY <3>4, <3>5, <3>6, <3>7 DEF Good
  <2> QED
    BY <2>2, <2>3, <2>4, <2>5
<1> QED
  BY <1>1, <1>5, <1>6

-----------------------------------------------------------------------------
(* The inductive invariant *)

ProviderInv ==
  /\ ProviderTypeInv
  /\ \A w \in Callers : Good(w)
  /\ OwedFits

LEMMA InitGood == ProviderInit => ProviderInv
<1> SUFFICES ASSUME ProviderInit PROVE ProviderInv
  OBVIOUS
<1>1. ProviderTypeInv
  BY ProviderInitTyped
<1>2. \A w \in Callers : cp[w].pc = "idle"
  BY DEF ProviderInit, NoCall
<1>3. \A w \in Callers : Good(w)
  BY <1>2 DEF Good, OnItsOwn, Undisturbed, KeepSafe, ExactSafe, HasSpec
<1>4. OwedFits
  BY DEF ProviderInit, OwedFits
<1> QED
  BY <1>1, <1>3, <1>4 DEF ProviderInv

LEMMA GoodStep ==
  ASSUME ProviderTypeInv, ProviderTypeInv', ProviderNext, NEW w \in Callers, Good(w), OwedFits
  PROVE  Good(w)'
<1>1. CASE ~Undisturbed(w)'
  BY <1>1 DEF Good, OnItsOwn, KeepSafe, ExactSafe, HasSpec
<1>2. CASE CallEnsure(w) \/ CallUpdate(w) \/ CallDelete(w)
  BY <1>2, GoodBegins
<1>3. CASE Undisturbed(w)' /\ Undisturbed(w) /\ UNCHANGED <<cp, vars>>
  BY <1>3, GoodStays
<1>4. CASE Undisturbed(w)' /\ Undisturbed(w) /\ (EnsureGet(w) \/ UpdateGet(w) \/ NextPort(w))
  BY <1>4, GoodLocally
<1>5. CASE Undisturbed(w)' /\ Undisturbed(w) /\ Rpc(w)
  BY <1>5, GoodSendsMapping, GoodSendsOther DEF Rpc
<1>6. ASSUME Undisturbed(w)', Undisturbed(w), NEW g \in cp[w].rpc, Handler(g) \/ CallFails(g), Answers(g)
      PROVE  Good(w)'
  BY <1>6, GoodMappingHandler, GoodOtherHandler
<1>7. OnItsOwn(w)
  BY DEF Good
<1> QED
  BY <1>1, <1>2, <1>3, <1>4, <1>5, <1>6, <1>7, OwnSteps

LEMMA OwedFitsStep ==
  ASSUME OwedFits, ProviderNext
  PROVE  OwedFits'
<1>0. <<>> \notin Specs
  BY ProviderAssumption DEF ProviderAssumption
<1>1. CASE SetService
  BY <1>0, <1>1 DEF SetService, OwedFits
<1>2. CASE DropService
  BY <1>2 DEF DropService, OwedFits
<1>3. CASE SetNodes
  BY <1>3 DEF SetNodes, OwedFits
<1>4. CASE Readdress \/ Lbctl
  BY <1>4 DEF Readdress, Lbctl, OwedFits
<1>5. ASSUME UNCHANGED spec, owed' \subseteq owed \cup {"delete"} \/ owed' = Again
      PROVE  OwedFits'
  BY <1>5 DEF OwedFits, Again
<1>6. ASSUME NEW w, NEW c, NEW code, Answer(w, c, code)
      PROVE  owed' \in {owed, Again}
  BY <1>6 DEF Answer, ReturnNothing, ReturnError
<1>7. ASSUME NEW w, NEW c, UNCHANGED world, Lost(w, c) \/ \E g : Sent(w, c, g)
      PROVE  OwedFits'
  <2>1. owed' \in {owed, Again}
    BY <1>6, <1>7 DEF Lost, Sent
  <2> QED
    BY <1>5, <1>7, <2>1 DEF world
<1>8. ASSUME NEW w \in Callers, Provider(w)
      PROVE  OwedFits'
  <2>1. CASE CallEnsure(w) \/ CallUpdate(w) \/ CallDelete(w)
    BY <1>5, <2>1 DEF CallEnsure, CallUpdate, CallDelete, Call, world
  <2>2. CASE EnsureGet(w) \/ UpdateGet(w) \/ NextPort(w) \/ Finish(w)
    BY <1>5, <2>2 DEF EnsureGet, UpdateGet, NextPort, Finish, world
  <2>3. CASE EnsureCreate(w) \/ EnsureDeleted(w)
    <3>1. UNCHANGED world
      BY <2>3 DEF EnsureCreate, EnsureDeleted, Lost, Sent
    <3> QED
      BY <1>7, <2>3, <3>1 DEF EnsureCreate, EnsureDeleted
  <2>4. CASE MapNode(w) \/ Remove(w)
    <3>1. \E c : Lost(w, c) \/ \E g : Sent(w, c, g)
      BY <2>4 DEF MapNode, Remove
    <3>2. UNCHANGED world
      BY <3>1 DEF Lost, Sent
    <3> QED
      BY <1>7, <3>1, <3>2
  <2> QED
    BY <1>8, <2>1, <2>2, <2>3, <2>4 DEF Provider
<1>9. ASSUME NEW w \in Callers, GiveUp(w)
      PROVE  OwedFits'
  BY <1>5, <1>6, <1>9 DEF GiveUp, world
<1>10. ASSUME NEW g \in Workers, Server(g) \/ ServerCallFails(g)
       PROVE  OwedFits'
  BY <1>5, <1>6, <1>10 DEF Server, ServerCallFails, Answers, world
<1> QED
  BY <1>1, <1>2, <1>3, <1>4, <1>8, <1>9, <1>10 DEF ProviderNext

LEMMA ProviderInductive == ProviderInv /\ [ProviderNext]_allVars => ProviderInv'
<1> SUFFICES ASSUME ProviderInv, [ProviderNext]_allVars PROVE ProviderInv'
  OBVIOUS
<1>1. ProviderTypeInv'
  BY ProviderTypeInductive DEF ProviderInv
<1>2. CASE ProviderNext
  BY <1>1, <1>2, GoodStep, OwedFitsStep DEF ProviderInv
<1>3. CASE UNCHANGED allVars
  <2>1. UNCHANGED <<spec, owed, cp, vars>>
    BY <1>3 DEF allVars, world
  <2>2. OwedFits'
    BY <2>1 DEF OwedFits, ProviderInv
  <2> QED
    BY <1>1, <2>1, <2>2, GoodStays DEF ProviderInv
<1> QED
  BY <1>2, <1>3

LEMMA ProviderInvariant == ProviderSpec => []ProviderInv
BY InitGood, ProviderInductive, PTL DEF ProviderSpec

(* SyncedIsExact, whatever the cluster, lbctl, calls that overlapped and   *)
(* handlers that were cut short did before: a call of the service          *)
(* controller that met no failure and nobody else ends with exactly the    *)
(* mappings that it was called for, when every service has one port of a   *)
(* supported protocol.  With more, handleMappings loses mappings           *)
(* (loadbalancer.go:188), with none it removes nothing.                    *)
THEOREM FinishedIsExact == ExactlyOnePort => (ProviderSpec => []SyncedIsExact)
<1>1. ASSUME ExactlyOnePort, ProviderInv, NEW w \in Callers,
             Finished(cp[w]), ~cp[w].failed, ~cp[w].disturbed
      PROVE  Exists(Name) /\ targets = Aim(cp[w])
  <2>1. ExactSafe(w) /\ Undisturbed(w) /\ cp[w].pc = "mappings"
    BY <1>1 DEF ProviderInv, Good, Undisturbed, Finished, Between
  <2> QED
    BY <1>1, <2>1 DEF ExactSafe, Finished, Between
<1>2. ExactlyOnePort /\ ProviderInv => SyncedIsExact
  BY <1>1 DEF SyncedIsExact
<1>3. ASSUME ExactlyOnePort PROVE ProviderSpec => []SyncedIsExact
  <2>1. ProviderInv => SyncedIsExact
    BY <1>2, <1>3
  <2> QED
    BY <2>1, ProviderInvariant, PTL
<1> QED
  BY <1>3

(* Nothing but a handler of lbmanager changes a record or a destination.   *)
LEMMA OnlyHandlersChange ==
  ASSUME ProviderTypeInv, ProviderNext
  PROVE  \/ UNCHANGED <<db, dests>>
         \/ \E g \in Workers : (Handler(g) \/ CallFails(g)) /\ Answers(g)
<1> USE DEF ProviderTypeInv
<1>1. ASSUME NEW g, NEW n, NEW err, Refuse(g, n, err) PROVE UNCHANGED <<db, dests>>
  BY <1>1 DEF Refuse, kernel
<1>2. ASSUME NEW g, NEW c, Begin(g, c) PROVE UNCHANGED <<db, dests>>
  BY <1>2 DEF Begin, kernel
<1>3. ASSUME NEW g, \/ CreateGet(g, Name, LoadBalancerIP) \/ DeleteGet(g, Name)
                    \/ \E k : AddGet(g, Name, k) \/ DelGet(g, Name, k)
      PROVE  UNCHANGED <<db, dests>>
  BY <1>1, <1>2, <1>3 DEF CreateGet, DeleteGet, AddGet, DelGet
<1>4. ASSUME UNCHANGED vars PROVE UNCHANGED <<db, dests>>
  BY <1>4 DEF vars
<1>5. ASSUME NEW w \in Callers, Provider(w) PROVE UNCHANGED <<db, dests>>
  <2>1. CASE CallEnsure(w) \/ CallUpdate(w) \/ CallDelete(w)
    BY <1>4, <2>1 DEF CallEnsure, CallUpdate, CallDelete, Call
  <2>2. CASE Local(w)
    BY <1>4, <2>2, LocalElsewhere
  <2>3. CASE EnsureCreate(w) \/ EnsureDeleted(w)
    BY <1>3, <1>4, <2>3 DEF EnsureCreate, EnsureDeleted, Lost
  <2>4. CASE MapNode(w) \/ Remove(w)
    BY <1>3, <1>4, <2>4 DEF MapNode, Remove, Lost
  <2> QED
    BY <1>5, <2>1, <2>2, <2>3, <2>4 DEF Provider, Local
<1>6. ASSUME NEW w \in Callers, GiveUp(w) PROVE UNCHANGED <<db, dests>>
  BY <1>4, <1>6 DEF GiveUp
<1>7. CASE Lbctl
  BY <1>3, <1>7 DEF Lbctl
<1>8. CASE SetService \/ DropService \/ SetNodes \/ Readdress
  BY <1>4, <1>8, ClusterTyped
<1> QED
  BY <1>5, <1>6, <1>7, <1>8 DEF ProviderNext, Server, ServerCallFails

(* KeepsWanted: a call of the service controller that nobody disturbs      *)
(* loses none of the mappings it wants, in the record or in the IPVS       *)
(* table, while it adds and removes others, whatever fails, when no        *)
(* service has two ports of a supported protocol and port numbers fit      *)
(* their sixteen bits.                                                     *)
THEOREM WantedIsKept == AtMostOnePort /\ PortsFit => (ProviderSpec => KeepsWanted)
<1> DEFINE Kept(w, k) ==
             /\ k \in targets'
             /\ EntryOf(db[Name], k) \in dests => EntryOf(db[Name], k) \in dests'
<1>1. ASSUME AtMostOnePort, PortsFit, ProviderInv, [ProviderNext]_allVars,
             NEW w \in Callers, NEW k \in targets \cap Aim(cp[w]),
             cp[w].pc = "mappings", ~cp[w].disturbed
      PROVE  Kept(w, k)
  <2> USE DEF ProviderInv, ProviderTypeInv
  <2>1. Undisturbed(w) /\ OnItsOwn(w) /\ KeepSafe(w) /\ k \in db[Name].targets
    BY <1>1 DEF Undisturbed, Good, targets
  <2>2. CASE UNCHANGED <<db, dests>>
    BY <1>1, <2>2 DEF targets
  <2>3. ASSUME NEW g \in Workers, Handler(g) \/ CallFails(g), Answers(g)
        PROVE  Kept(w, k)
    <3>1. g \in cp[w].rpc
      BY <2>1, <2>3, HandlerBusy DEF Running, OnItsOwn
    <3>2. /\ call[g].pc \in Adding \cup Removing /\ call[g].n = Name /\ call[g].info = db[Name]
          /\ call[g].pc = "delService" => LastOnPort(call[g].info, call[g].m)
      BY <1>1, <2>1, <3>1 DEF OnItsOwn, Serves
    <3>3. db \in [Names -> LBInfo] /\ Name \in Names
      BY <1>1, ProviderAssumption DEF TypeInv, TypeOK, ProviderAssumption
    <3>4. ASSUME NEW S, db' = [db EXCEPT ![Name] = [db[Name] EXCEPT !.targets = S]]
          PROVE  targets' = S
      BY <3>3, <3>4 DEF targets, LBInfo
    <3>5. db' = db => k \in targets'
      BY <1>1 DEF targets
    <3>6. CASE call[g].pc \in Adding
      <4>1. dests \subseteq dests'
        BY <1>1, <2>3, <3>6, AddingStep
      <4>2. db' = db \/ db' = [db EXCEPT ![Name] = [db[Name] EXCEPT !.targets = db[Name].targets \cup {call[g].m}]]
        BY <1>1, <2>3, <3>2, <3>6, AddingStep
      <4> QED
        BY <2>1, <3>4, <3>5, <4>1, <4>2
    <3>7. CASE call[g].pc \in Removing
      <4>1. k # call[g].m
        BY <1>1, <2>1, <3>1, <3>7 DEF KeepSafe
      <4>2. EntryOf(db[Name], k) \in dests => EntryOf(db[Name], k) \in dests'
        BY <1>1, <2>1, <2>3, <3>2, <3>7, <4>1, RemovingStep
      <4>3. db' = db \/ db' = [db EXCEPT ![Name] = [db[Name] EXCEPT !.targets = db[Name].targets \ {call[g].m}]]
        BY <1>1, <2>3, <3>2, <3>7, RemovingStep
      <4> QED
        BY <2>1, <3>4, <3>5, <4>1, <4>2, <4>3
    <3> QED
      BY <3>2, <3>6, <3>7
  <2>4. CASE UNCHANGED allVars
    BY <2>2, <2>4 DEF allVars, vars
  <2> QED
    BY <1>1, <2>2, <2>3, <2>4, OnlyHandlersChange
<1> DEFINE Step == \A w \in Callers : \A k \in targets \cap Aim(cp[w]) :
                     cp[w].pc = "mappings" /\ ~cp[w].disturbed =>
                       /\ k \in targets'
                       /\ EntryOf(db[Name], k) \in dests => EntryOf(db[Name], k) \in dests'
<1>2. AtMostOnePort /\ PortsFit /\ ProviderInv /\ [ProviderNext]_allVars => Step
  BY <1>1
<1> HIDE DEF Step
<1>3. ASSUME AtMostOnePort, PortsFit PROVE ProviderSpec => [][Step]_allVars
  <2>1. ProviderInv /\ [ProviderNext]_allVars => [Step]_allVars
    BY <1>2, <1>3
  <2> QED
    BY <2>1, ProviderInvariant, PTL DEF ProviderSpec
<1> QED
  BY <1>3 DEF KeepsWanted, Step
=============================================================================
