------------------------------ MODULE IpamDefs ------------------------------
(* What SimpleIpam.Allocate computes (internal/ipam/simple.go): the least  *)
(* address of from..to that is not in use, as a set with at most one       *)
(* element.  IpamProofs proves that the code computes it; LBDefs           *)
(* uses it as one step.                                                    *)
EXTENDS Integers

LeastFree(from, to, used) ==
  {a \in from..to : a \notin used /\ \A b \in from..to : b < a => b \in used}
=============================================================================
