----------------------------- MODULE IpvsTable -----------------------------
(***************************************************************************)
(* What a Handle of internal/ipvs promises: a table of virtual services    *)
(* and of their real servers, and the timeouts.  A service is known by its *)
(* key, a real server of it by its endpoint; what callers put in is what   *)
(* the listings give back.  LBDefs and the models of lbmanager take this   *)
(* table for the kernel.                                                   *)
(***************************************************************************)
CONSTANTS
  Keys,       \* what identifies a service
  Endpoints,  \* key -> the real servers it may have
  Unusable,   \* endpoints that denote no host
  Scheds,     \* schedulers
  Weights,    \* weights
  Configs     \* what SetConfig may be asked for: timeout -> duration

VARIABLES
  services,  \* key -> scheduler, for the services there are
  servers,   \* <<key, endpoint>> -> weight, for the real servers there are
  config,    \* timeout -> duration
  last       \* the last call, whether it succeeded, and what it listed

vars == <<services, servers, config, last>>

None == [call |-> <<>>, ok |-> TRUE, list |-> {}]
Init == services = <<>> /\ servers = <<>> /\ last = None

With(f, x, v) == [y \in DOMAIN f \cup {x} |-> IF y = x THEN v ELSE f[y]]
Without(f, S) == [x \in DOMAIN f \ S |-> f[x]]
ServersOf(k) == {x \in DOMAIN servers : x[1] = k}

Answer(call, ok, list) == last'.call = call /\ last'.ok = ok /\ last'.list = list

(* A call that succeeds if `can` and then leaves these services and servers. *)
Change(call, can, newServices, newServers) ==
  /\ Answer(call, can, {})
  /\ services' = IF can THEN newServices ELSE services
  /\ servers' = IF can THEN newServers ELSE servers
  /\ UNCHANGED config

List(call, ok, list) == Answer(call, ok, list) /\ UNCHANGED <<services, servers, config>>

NewService(k, s) ==
  Change(<<"NewService", k, s>>, k \notin DOMAIN services, With(services, k, s), servers)

UpdateService(k, s) ==
  Change(<<"UpdateService", k, s>>, k \in DOMAIN services, With(services, k, s), servers)

DelService(k) ==
  Change(<<"DelService", k>>, k \in DOMAIN services,
         Without(services, {k}), Without(servers, ServersOf(k)))

Flush == Change(<<"Flush">>, TRUE, <<>>, <<>>)

NewDestination(k, e, w) ==
  Change(<<"NewDestination", k, e, w>>,
         k \in DOMAIN services /\ <<k, e>> \notin DOMAIN servers /\ e \notin Unusable,
         services, With(servers, <<k, e>>, w))

UpdateDestination(k, e, w) ==
  Change(<<"UpdateDestination", k, e, w>>, <<k, e>> \in DOMAIN servers,
         services, With(servers, <<k, e>>, w))

DelDestination(k, e) ==
  Change(<<"DelDestination", k, e>>, <<k, e>> \in DOMAIN servers,
         services, Without(servers, {<<k, e>>}))

ServiceIn(K) == {[key |-> k, sched |-> services[k]] : k \in K}
IsServicePresent(k) == List(<<"IsServicePresent", k>>, k \in DOMAIN services, {})
GetServices == List(<<"GetServices">>, TRUE, ServiceIn(DOMAIN services))
GetService(k) ==
  List(<<"GetService", k>>, k \in DOMAIN services, ServiceIn({k} \cap DOMAIN services))
GetDestinations(k) ==
  List(<<"GetDestinations", k>>, TRUE,
       {[endpoint |-> x[2], weight |-> servers[x]] : x \in ServersOf(k)})

(* A timeout of 0 leaves the one that is set.                              *)
SetConfig(c) ==
  /\ Answer(<<"SetConfig", c>>, TRUE, {})
  /\ config' = [t \in DOMAIN config |-> IF c[t] = 0 THEN config[t] ELSE c[t]]
  /\ UNCHANGED <<services, servers>>
GetConfig == List(<<"GetConfig">>, TRUE, {config})

Next ==
  \/ \E k \in Keys, s \in Scheds : NewService(k, s) \/ UpdateService(k, s)
  \/ \E k \in Keys : DelService(k) \/ IsServicePresent(k) \/ GetService(k) \/ GetDestinations(k)
  \/ \E k \in Keys : \E e \in Endpoints[k] :
       \/ \E w \in Weights : NewDestination(k, e, w) \/ UpdateDestination(k, e, w)
       \/ DelDestination(k, e)
  \/ Flush
  \/ GetServices
  \/ \E c \in Configs : SetConfig(c)
  \/ GetConfig

Spec == Init /\ [][Next]_vars
=============================================================================
