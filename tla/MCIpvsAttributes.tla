-------------------------- MODULE MCIpvsAttributes --------------------------
(* A small instance of IpvsAttributes: addresses of 2 and of 4 bytes.      *)
EXTENDS IpvsAttributes, TLC

MCV4Prefix == <<0, 2>>

MCFour == [family |-> "INET", mark |-> 0, proto |-> "TCP", addr |-> <<0, 2, 1, 0>>, port |-> 5]
MCSix == [family |-> "INET6", mark |-> 0, proto |-> "TCP", addr |-> <<1, 0, 0, 0>>, port |-> 5]
MCMarked == [family |-> "INET", mark |-> 7, proto |-> "none", addr |-> <<>>, port |-> 0]
MCServices == {MCFour, MCSix, MCMarked}

(* Equal first bytes, trailing zeros, an address that is no host and one   *)
(* that is none.                                                           *)
MCTargets ==
  (MCFour :> {[addr |-> <<0, 2, 1, 1>>, port |-> 1], [addr |-> <<0, 2, 1, 0>>, port |-> 1],
              [addr |-> <<0, 2, 0, 1>>, port |-> 1]})
  @@ (MCSix :> {[addr |-> <<1, 1, 0, 0>>, port |-> 1], [addr |-> <<1, 1, 0, 1>>, port |-> 1],
                [addr |-> <<>>, port |-> 1]})
  @@ (MCMarked :> {})

(* What the last call was asked and answered decides nothing later, and    *)
(* properties of steps are checked on every step, also to a state whose    *)
(* view was seen before.                                                   *)
KernelView == <<old, kernel>>

ASSUME FamiliesAgree
=============================================================================
