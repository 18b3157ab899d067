----------------------------- MODULE MCLBServer -----------------------------
(* Small instances of LBServer.                                            *)
EXTENDS LBServer, TLC

CONSTANTS a, b

MCCidr == 1..5
MCExclusive == {<<a, 4>>, <<a, NoIP>>, <<b, 5>>, <<b, NoIP>>, <<b, 9>>}
TargetSymmetry == Permutations(Protocols) \cup Permutations(DstIPs)
MCShared == {<<a, 4>>, <<a, NoIP>>, <<b, 4>>, <<b, 1>>}
=============================================================================
