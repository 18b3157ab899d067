-------------------------- MODULE MCLBServerSteps --------------------------
(* Small instances of LBServerSteps.                                       *)
EXTENDS LBServerSteps, TLC

CONSTANTS a, b

MCCidr == 1..4
MCOneAuto == {<<a, 4>>, <<b, NoIP>>, <<b, 9>>}
MCBothAuto == {<<a, NoIP>>, <<b, NoIP>>}
WorkerSymmetry == Permutations(Workers)
=============================================================================
