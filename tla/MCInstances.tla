--------------------------- MODULE MCInstances ---------------------------
(* Instances with VM IDs 1 and 2 for the node's machine and 3 for another. *)
EXTENDS Instances

MCIDsOf == [m \in Machines |-> IF m = Self THEN {1, 2} ELSE {3}]
=============================================================================
