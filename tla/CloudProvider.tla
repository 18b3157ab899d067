--------------------------- MODULE CloudProvider ---------------------------
(***************************************************************************)
(* The load-balancer side of the cloud provider                            *)
(* (internal/proxmox/loadbalancer.go), for one Kubernetes service:         *)
(* EnsureLoadBalancer, UpdateLoadBalancer, EnsureLoadBalancerDeleted and   *)
(* handleMappings, and an operator with lbctl, composed with lbmanager: an *)
(* RPC starts a handler of LBServerSteps, which goes on call by call in a  *)
(* goroutine of its own until it answers.                                  *)
(*                                                                         *)
(* The service controller of Kubernetes is external.  One of its workers   *)
(* calls EnsureLoadBalancer and EnsureLoadBalancerDeleted for the service, *)
(* one call at a time, and calls again after an error; another one calls   *)
(* UpdateLoadBalancer when the nodes have changed.  Neither the provider   *)
(* nor lbmanager has a lock, so a call of the one may overlap a call of    *)
(* the other, and their handlers lose updates of each other.               *)
(***************************************************************************)
EXTENDS LBServerSteps, Sequences

CONSTANTS
  Nodes,           \* nodes of the cluster
  Addresses,       \* the internal addresses a node may have
  NoAddress,       \* no address of type InternalIP
  FirstAddr,       \* node -> the address it has in the beginning
  Specs,           \* port lists the service may have: sequences of ServicePort
  Name,            \* GetLoadBalancerName of the service
  LoadBalancerIP,  \* the address the service asks for, or NoIP
  LbctlTargets,    \* the mappings that somebody with lbctl adds or removes
  MaxEvents        \* bound on what happens from outside: changes and failures together

ServicePort == [port : Nat, proto : {"TCP", "UDP", "SCTP"}, nodePort : Nat]
ServicePorts == UNION {{s[i] : i \in DOMAIN s} : s \in Specs}

(* newTargetKey: what handleMappings, like lbmanager, compares mappings by.*)
TargetKey(sp, n, a) == [port |-> sp.port, proto |-> sp.proto, dstIP |-> <<n, a>>, dstPort |-> sp.nodePort]

(* toLBProtocol is negative for the others.                                *)
SupportedProtocol(sp) == sp.proto \in {"TCP", "UDP"}

AllTargets ==
  {TargetKey(sp, n, a) : sp \in {x \in ServicePorts : SupportedProtocol(x)}, n \in Nodes, a \in Addresses}

(* lbmanager's side of it: what the provider and lbctl ask for is among    *)
(* the parameters of lbmanager, and its calls may fail.                    *)
ASSUME ProviderAssumption ==
  /\ NoAddress \notin Addresses /\ FirstAddr \in [Nodes -> Addresses \cup {NoAddress}]
  /\ Specs \subseteq Seq(ServicePort) \ {<<>>}
  /\ Name \in Names /\ <<Name, LoadBalancerIP>> \in Requests
  /\ AllTargets \subseteq Mapping /\ LbctlTargets \subseteq Mapping
  /\ ~OneCallPerName /\ CallsFail
  /\ MaxEvents \in Nat

VARIABLES
  spec,     \* the service's ports; <<>> when there is no service
  nodes,    \* the nodes that should receive traffic
  addr,     \* node -> the first internal address of its status
  owed,     \* calls the controller owes the service
  cp,       \* worker of the controller -> the call it is in and the call's local variables
  stale,    \* history: the record may be wrong and nobody is told, see below
  events    \* changes of the cluster and by lbctl, failed RPCs, failed calls of handlers

Callers == {"service", "node"}

world == <<spec, nodes, addr>>
allVars == <<world, vars, owed, cp, stale, events>>

(* The mappings in the record of the service's load balancer.              *)
targets == db[Name].targets

-----------------------------------------------------------------------------
(* The mappings that a service with these ports needs on these nodes, when *)
(* they have these addresses.                                              *)
Wanted(s, N, a) ==
  {TargetKey(s[i], n, a[n]) : i \in {k \in DOMAIN s : SupportedProtocol(s[k])},
                              n \in {x \in N : a[x] # NoAddress}}
Aim(c) == Wanted(c.spec, c.nodes, c.addr)

(* rpc holds the goroutine that serves the RPC the call waits for.         *)
NoCall == [pc |-> "idle", spec |-> <<>>, nodes |-> {}, addr |-> <<>>, current |-> {}, i |-> 0,
           left |-> {}, remove |-> {}, rpc |-> {}, failed |-> FALSE, disturbed |-> FALSE]

Phases == {"idle", "get", "create", "updateGet", "mappings", "delete"}

ProviderTypeOK ==
  /\ spec \in Specs \cup {<<>>}
  /\ nodes \in SUBSET Nodes
  /\ addr \in [Nodes -> Addresses \cup {NoAddress}]
  /\ owed \subseteq {"ensure", "update", "delete"}
  /\ stale \in BOOLEAN
  /\ \A w \in Callers : /\ cp[w].pc \in Phases
                        /\ cp[w].i \in 0..Len(cp[w].spec)
                        /\ cp[w].rpc \subseteq Workers
  /\ TypeOK

(* The controller starts: it owes every service that there is a call.      *)
(* lbmanager has restored an empty database.                               *)
ProviderInit ==
  /\ spec \in Specs \cup {<<>>}
  /\ nodes = Nodes
  /\ addr = FirstAddr
  /\ owed = {x \in {"ensure"} : spec # <<>>}
  /\ cp = [w \in Callers |-> NoCall]
  /\ stale = FALSE
  /\ events = 0
  /\ db = [n \in Names |-> NoLB]
  /\ addrs = BaseAddrs /\ svcs = {} /\ dests = {} /\ up = TRUE
  /\ call = [g \in Workers |-> Idle]
  /\ reply = [name |-> NoIP, code |-> {}]
  /\ flaws = {} /\ before = [g \in Workers |-> NoSlice] /\ apart = TRUE

-----------------------------------------------------------------------------
(* The cluster changes.  A deleted service stays until its load balancer   *)
(* is gone (the controller's finalizer).                                   *)

Event == events < MaxEvents /\ events' = events + 1

SetService ==
  /\ Event
  /\ spec # <<>> \/ ("delete" \notin owed /\ cp["service"].pc # "delete")
  /\ spec' \in Specs \ {spec}
  /\ owed' = owed \cup {"ensure"}
  /\ UNCHANGED <<nodes, addr, vars, cp, stale>>

DropService ==
  /\ Event
  /\ spec # <<>>
  /\ spec' = <<>>
  /\ owed' = {"delete"}
  /\ UNCHANGED <<nodes, addr, vars, cp, stale>>

SetNodes ==
  /\ Event
  /\ nodes' \in SUBSET Nodes \ {nodes}
  /\ owed' = IF spec = <<>> THEN owed ELSE owed \cup {"update"}
  /\ UNCHANGED <<spec, addr, vars, cp, stale>>

(* The addresses of a machine come in Go's map order, so another one may   *)
(* be the first when the node's status is written again.  No call is made  *)
(* for that.                                                               *)
Readdress ==
  /\ Event
  /\ \E n \in Nodes, a \in Addresses \cup {NoAddress} : addr' = [addr EXCEPT ![n] = a]
  /\ addr' # addr
  /\ stale' = TRUE
  /\ UNCHANGED <<spec, nodes, vars, owed, cp>>

-----------------------------------------------------------------------------
(* Handlers under way *)

Running == {g \in Workers : call[g].pc # "idle"}
Calling == {w \in Callers : cp[w].pc # "idle"}

(* gRPC gives an RPC a goroutine of its own, it does not matter which.     *)
FreeWorker == LET free == Workers \ Running IN IF free = {} THEN {} ELSE {CHOOSE g \in free : TRUE}

Disturbed(S) ==
  [w \in Callers |-> IF w \in S \cap Calling THEN [cp[w] EXCEPT !.disturbed = TRUE] ELSE cp[w]]

(* addSrv, delSrv, addTgt and delTgt of lbctl, on the name of the service. *)
(* Nobody tells the controller.                                            *)
Lbctl ==
  /\ Event
  /\ \E g \in FreeWorker :
       /\ \/ CreateGet(g, Name, LoadBalancerIP)
          \/ DeleteGet(g, Name)
          \/ \E k \in LbctlTargets : AddGet(g, Name, k) \/ DelGet(g, Name, k)
       /\ call'[g].pc # "idle"
  /\ cp' = Disturbed(Callers)
  /\ stale' = TRUE
  /\ UNCHANGED <<spec, nodes, addr, owed>>

-----------------------------------------------------------------------------
(* A call begins with the service and the nodes of that moment.  After the *)
(* deletion of the service nothing but the deletion is called for.  Calls  *)
(* that overlap disturb each other, and a handler that is still under way  *)
(* disturbs a new call.                                                    *)
Call(w, what, pc) ==
  /\ cp[w].pc = "idle"
  /\ what \in owed
  /\ owed' = owed \ {what}
  /\ cp' = [Disturbed(Callers) EXCEPT
              ![w] = [NoCall EXCEPT !.pc = pc, !.spec = spec, !.nodes = nodes, !.addr = addr,
                                  !.disturbed = Calling # {} \/ Running # {}]]
  /\ UNCHANGED <<world, vars, stale, events>>

CallEnsure(w) == w = "service" /\ "delete" \notin owed /\ Call(w, "ensure", "get")
CallUpdate(w) == w = "node" /\ "delete" \notin owed /\ Call(w, "update", "updateGet")
CallDelete(w) == w = "service" /\ Call(w, "delete", "delete")

Ready(w, pc) == cp[w].pc = pc /\ cp[w].rpc = {}
Becomes(w, c) == cp' = [cp EXCEPT ![w] = c]

(* The controller puts the service back into its queue.                    *)
Again == owed \cup {IF spec = <<>> THEN "delete" ELSE "ensure"}
ReturnNothing(w) == Becomes(w, NoCall) /\ UNCHANGED owed
ReturnError(w) == Becomes(w, NoCall) /\ owed' = Again

HandleMappings(w, ts) ==
  Becomes(w, [cp[w] EXCEPT !.pc = "mappings", !.current = ts, !.rpc = {}])

(* What the RPC answers, error flags or a gRPC error, and what the call c  *)
(* makes of it: handleMappings reports an error and goes on, Create's is   *)
(* returned, and a load balancer that is not there is deleted.             *)
Answer(w, c, code) ==
  \/ /\ c.pc = "mappings"
     /\ Becomes(w, [c EXCEPT !.rpc = {}, !.failed = @ \/ code # {}])
     /\ UNCHANGED <<owed, stale>>
  \/ /\ c.pc = "create" /\ code = {}
     /\ HandleMappings(w, {})
     /\ UNCHANGED <<owed, stale>>
  \/ /\ c.pc = "create" /\ code # {}
     /\ ReturnError(w)
     /\ UNCHANGED stale
  \/ /\ c.pc = "delete" /\ code \subseteq {"NoSuchLB"}
     /\ ReturnNothing(w)
     /\ stale' = (Calling # {w} \/ Running' # {})
  \/ /\ c.pc = "delete" /\ ~(code \subseteq {"NoSuchLB"})
     /\ ReturnError(w)
     /\ UNCHANGED stale

(* An RPC arrives and is answered at once, or its handler goes on.         *)
Sent(w, c, g) ==
  /\ \/ call'[g].pc = "idle" /\ Answer(w, c, reply'.code)
     \/ call'[g].pc # "idle" /\ Becomes(w, [c EXCEPT !.rpc = {g}]) /\ UNCHANGED <<owed, stale>>
  /\ UNCHANGED <<world, events>>

(* An RPC does not arrive.                                                 *)
Lost(w, c) == Event /\ Answer(w, c, {"CallFailed"}) /\ UNCHANGED <<world, vars>>

(* The answer does not arrive, or not in time; the handler goes on without *)
(* a client.                                                               *)
GiveUp(w) ==
  /\ cp[w].rpc # {}
  /\ Event
  /\ Answer(w, [cp[w] EXCEPT !.disturbed = TRUE], {"CallFailed"})
  /\ UNCHANGED <<world, vars>>

(* lbmanager makes the next call of a handler, which may fail; the last    *)
(* one answers.                                                            *)
Answers(g) ==
  \/ \E w \in Callers : g \in cp[w].rpc /\ call'[g].pc = "idle" /\ Answer(w, cp[w], reply'.code)
  \/ /\ call'[g].pc # "idle" \/ \A w \in Callers : g \notin cp[w].rpc
     /\ UNCHANGED <<cp, owed, stale>>

Server(g) == Handler(g) /\ Answers(g) /\ UNCHANGED <<world, events>>
ServerCallFails(g) == Event /\ CallFails(g) /\ Answers(g) /\ UNCHANGED world

-----------------------------------------------------------------------------
(* EnsureLoadBalancer: a failed Get counts as "no such load balancer".     *)
EnsureGet(w) ==
  /\ Ready(w, "get")
  /\ \/ Exists(Name) /\ HandleMappings(w, targets) /\ UNCHANGED events
     \/ ~Exists(Name) /\ Becomes(w, [cp[w] EXCEPT !.pc = "create"]) /\ UNCHANGED events
     \/ Event /\ Becomes(w, [cp[w] EXCEPT !.pc = "create"])
  /\ UNCHANGED <<world, vars, owed, stale>>

EnsureCreate(w) ==
  /\ Ready(w, "create")
  /\ \/ \E g \in FreeWorker : CreateGet(g, Name, LoadBalancerIP) /\ Sent(w, cp[w], g)
     \/ Lost(w, cp[w])

(* UpdateLoadBalancer: a failed Get leaves a nil pointer, and so does one  *)
(* for a load balancer that is not there, since lbmanager answers with     *)
(* nil, which gRPC cannot encode.  The provider dies on it with both       *)
(* workers, and the controller ensures every service again after the       *)
(* restart.                                                                *)
UpdateGet(w) ==
  /\ Ready(w, "updateGet")
  /\ \/ Exists(Name) /\ HandleMappings(w, targets) /\ UNCHANGED <<owed, events>>
     \/ /\ (~Exists(Name) /\ UNCHANGED events) \/ Event
        /\ cp' = [v \in Callers |-> NoCall]
        /\ owed' = Again
  /\ UNCHANGED <<world, vars, stale>>

-----------------------------------------------------------------------------
(* handleMappings *)

(* The ports that the loop has not come to and does not skip: one with an  *)
(* unsupported protocol is skipped together with its removals.             *)
PortsOfAnyProtocol(c) == {j \in DOMAIN c.spec : j > c.i}
PortsLeft(c) == {j \in DOMAIN c.spec : j > c.i /\ SupportedProtocol(c.spec[j])}
Between(c) == c.pc = "mappings" /\ c.rpc = {} /\ c.left = {} /\ c.remove = {}
Finished(c) == Between(c) /\ PortsLeft(c) = {}

(* What the port c.i needs: nodes without an internal address get nothing. *)
WantedAt(c, j) == {TargetKey(c.spec[j], n, c.addr[n]) : n \in {x \in c.nodes : c.addr[x] # NoAddress}}

(* The next port: mappings it needs that are there are struck off          *)
(* currentMappings, the others are to be added, and then whatever is left  *)
(* in currentMappings, for this or another port, is to be removed.  The    *)
(* removals themselves leave currentMappings as it is.                     *)
NextPortKeepsMarks(w) ==
  /\ Between(cp[w])
  /\ \E j \in PortsLeft(cp[w]) :
       /\ \A l \in PortsLeft(cp[w]) : j <= l
       /\ Becomes(w, [cp[w] EXCEPT !.i = j, !.left = WantedAt(cp[w], j) \ cp[w].current,
                               !.remove = cp[w].current])
  /\ UNCHANGED <<world, vars, owed, stale, events>>

NextPortRemovesNothing(w) ==
  /\ Between(cp[w])
  /\ \E j \in PortsLeft(cp[w]) :
       /\ \A l \in PortsLeft(cp[w]) : j <= l
       /\ Becomes(w, [cp[w] EXCEPT !.i = j, !.left = WantedAt(cp[w], j) \ cp[w].current])
  /\ UNCHANGED <<world, vars, owed, stale, events>>

NextPort(w) ==
  /\ Between(cp[w])
  /\ \E j \in PortsLeft(cp[w]) :
       LET K == WantedAt(cp[w], j) IN
         /\ \A l \in PortsLeft(cp[w]) : j <= l
         /\ Becomes(w, [cp[w] EXCEPT !.i = j, !.left = K \ cp[w].current,
                                 !.current = @ \ K, !.remove = cp[w].current \ K])
  /\ UNCHANGED <<world, vars, owed, stale, events>>

(* One AddTarget, the nodes in any order.                                  *)
MapNode(w) ==
  /\ Ready(w, "mappings")
  /\ \E k \in cp[w].left :
       LET c == [cp[w] EXCEPT !.left = @ \ {k}] IN
         \/ \E g \in FreeWorker : AddGet(g, Name, k) /\ Sent(w, c, g)
         \/ Lost(w, c)

(* One DelTarget, in the order of a Go map.                                *)
Remove(w) ==
  /\ Ready(w, "mappings") /\ cp[w].left = {}
  /\ \E k \in cp[w].remove :
       LET c == [cp[w] EXCEPT !.remove = @ \ {k}] IN
         \/ \E g \in FreeWorker : DelGet(g, Name, k) /\ Sent(w, c, g)
         \/ Lost(w, c)

(* Both callers of handleMappings return no error, whatever failed in it   *)
(* and whoever worked on the record at the same time.                      *)
Finish(w) ==
  /\ Finished(cp[w])
  /\ Becomes(w, NoCall)
  /\ stale' = (cp[w].failed \/ cp[w].disturbed \/ cp[w].addr # addr)
  /\ UNCHANGED <<world, vars, owed, events>>

-----------------------------------------------------------------------------
EnsureDeleted(w) ==
  /\ Ready(w, "delete")
  /\ \/ \E g \in FreeWorker : DeleteGet(g, Name) /\ Sent(w, cp[w], g)
     \/ Lost(w, cp[w])

Provider(w) ==
  \/ CallEnsure(w) \/ CallUpdate(w) \/ CallDelete(w)
  \/ EnsureGet(w) \/ EnsureCreate(w) \/ UpdateGet(w)
  \/ NextPort(w) \/ MapNode(w) \/ Remove(w) \/ Finish(w)
  \/ EnsureDeleted(w)

ProviderNext ==
  \/ SetService \/ DropService \/ SetNodes \/ Readdress \/ Lbctl
  \/ \E w \in Callers : Provider(w) \/ GiveUp(w)
  \/ \E g \in Workers : Server(g) \/ ServerCallFails(g)

ProviderSpec == ProviderInit /\ [][ProviderNext]_allVars

(* Each worker of the controller serves its queue, the provider goes on    *)
(* with a call, and lbmanager with a handler that is alone: two at a time  *)
(* may wait for ever for each other's answers on the shared socket, see    *)
(* IpvsSocket.                                                             *)
FairSpec ==
  /\ ProviderSpec
  /\ \A w \in Callers : WF_allVars(Provider(w))
  /\ WF_allVars(\E g \in Workers : Running = {g} /\ Server(g))

-----------------------------------------------------------------------------
(* Properties *)

(* A call that met no failure, no other call and no handler of somebody    *)
(* else leaves exactly the mappings that the service and the nodes it was  *)
(* called with need, whatever lbctl, calls that lost each other's updates  *)
(* and handlers that were cut short left behind.                           *)
SyncedIsExact ==
  \A w \in Callers :
    LET c == cp[w] IN
      Finished(c) /\ ~c.failed /\ ~c.disturbed => Exists(Name) /\ targets = Aim(c)

(* While such a call works, failing or not, none of the mappings it wants  *)
(* is lost that was there, in the record or in the kernel: nodes that stay *)
(* keep receiving traffic while others come and go.                        *)
KeepsWanted ==
  [][\A w \in Callers : \A k \in targets \cap Aim(cp[w]) :
       cp[w].pc = "mappings" /\ ~cp[w].disturbed =>
         /\ k \in targets'
         /\ EntryOf(db[Name], k) \in dests => EntryOf(db[Name], k) \in dests']_allVars

InSync == IF spec = <<>> THEN ~Exists(Name) ELSE Exists(Name) /\ targets = Wanted(spec, nodes, addr)

(* A call that may never end: its handler overlaps another one.            *)
Stuck == \E w \in Callers : cp[w].pc # "idle" /\ cp[w].disturbed

(* When the cluster and the network stop changing, the load balancer ends  *)
(* up as the service wants it, or gone with it, and stays so, whatever     *)
(* failed before, inside lbmanager too.  The exceptions are what nobody is *)
(* told of, so that nobody tries again: an AddTarget or DelTarget that     *)
(* failed in the last call, a call or a handler that overlapped it, an     *)
(* address that changed, and lbctl.                                        *)
Converges == <>[](InSync \/ stale \/ Stuck)
=============================================================================
