-------------------------- MODULE MCCloudProvider --------------------------
(* Small instances of CloudProvider.                                       *)
EXTENDS CloudProvider

CONSTANTS n1, n2

http == [port |-> 80, proto |-> "TCP", nodePort |-> 1]
httpMoved == [port |-> 80, proto |-> "TCP", nodePort |-> 2]
https == [port |-> 443, proto |-> "TCP", nodePort |-> 3]
stream == [port |-> 90, proto |-> "SCTP", nodePort |-> 4]

(* What the provider may ask of lbmanager.                                 *)
MCRequests == {<<Name, LoadBalancerIP>>}
MCDstIPs == Nodes \X Addresses

MCOnePort == {<<http>>, <<stream, httpMoved>>}
MCAddressed == [n \in Nodes |-> "x"]
MCLbctl == {TargetKey(httpMoved, n2, "x")}
MCTwoPorts == {<<http, https>>}

(* The history variables of LBServerSteps, up and the last answer decide   *)
(* nothing here: states that differ in them only are one.                  *)
MCView == <<spec, nodes, addr, owed, cp, stale, events, db, addrs, svcs, dests, call>>
=============================================================================
