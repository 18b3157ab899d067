-------------------------------- MODULE Ipam --------------------------------
(***************************************************************************)
(* SimpleIpam of internal/ipam/simple.go, on addresses as numbers: the     *)
(* checks of New and the loop of Allocate.  The addresses on the link are  *)
(* read once, before the loop.  IpamBytes has the code's bytes and trie,   *)
(* and implements this.                                                    *)
(***************************************************************************)
EXTENDS IpamDefs

CONSTANTS
  AddrSpace,  \* number of addresses: getNextIP wraps to 0 after the last one
  Blocks      \* address blocks a CIDR may denote

Addr == 0..AddrSpace - 1

(* What addresses and CIDR blocks are.  IpamBytes instantiates the module  *)
(* with byte strings; IpamProofs proves that they have these properties.   *)
AddrAssumption == AddrSpace \in Nat \ {0} /\ Blocks \subseteq SUBSET Addr
Interval(S) == \A a, b \in S : a..b \subseteq S
BlocksAreIntervals == \A c \in Blocks : Interval(c)

VARIABLES
  pc,     \* "new", "rejected", "ready", "loop" or "done"
  cidr, from, to,  \* the configuration
  used,   \* the addresses AddrList returned
  cand,   \* currCandidate
  ret     \* the result of the last Allocate, as a set with at most one element

vars == <<pc, cidr, from, to, used, cand, ret>>

TypeOK ==
  /\ pc \in {"new", "rejected", "ready", "loop", "done"}
  /\ cidr \in Blocks
  /\ from \in Addr /\ to \in Addr /\ cand \in Addr
  /\ used \in SUBSET Addr
  /\ ret \in SUBSET Addr

Init ==
  /\ pc = "new"
  /\ cidr \in Blocks /\ from \in Addr /\ to \in Addr
  /\ used = {}
  /\ cand = from
  /\ ret = {}

(* New accepts a range that is in order, not a single address, and whose   *)
(* ends lie in the CIDR.                                                   *)
New ==
  /\ pc = "new"
  /\ pc' = IF from < to /\ from \in cidr /\ to \in cidr THEN "ready" ELSE "rejected"
  /\ UNCHANGED <<cidr, from, to, used, cand, ret>>

(* Allocate up to its loop: the addresses of the link go into the trie.    *)
Start ==
  /\ pc = "ready"
  /\ used' \in SUBSET Addr
  /\ cand' = from
  /\ ret' = {}
  /\ pc' = "loop"
  /\ UNCHANGED <<cidr, from, to>>

(* The candidate is on the link: getNextIP.                                *)
Taken ==
  /\ pc = "loop" /\ cand <= to /\ cand \in used
  /\ cand' = (cand + 1) % AddrSpace
  /\ UNCHANGED <<pc, cidr, from, to, used, ret>>

Found ==
  /\ pc = "loop" /\ cand <= to /\ cand \notin used
  /\ ret' = {cand}
  /\ pc' = "done"
  /\ UNCHANGED <<cidr, from, to, used, cand>>

Exhausted ==
  /\ pc = "loop" /\ cand > to
  /\ pc' = "done"
  /\ UNCHANGED <<cidr, from, to, used, cand, ret>>

(* The caller has the answer; the next Allocate starts from scratch.       *)
Return ==
  /\ pc = "done"
  /\ pc' = "ready"
  /\ used' = {}
  /\ cand' = from
  /\ ret' = {}
  /\ UNCHANGED <<cidr, from, to>>

Step == Taken \/ Found \/ Exhausted

Next == New \/ Start \/ Step \/ Return

Spec == Init /\ [][Next]_vars

-----------------------------------------------------------------------------
(* Properties *)

(* The range ends below the last address there is.  (Only an IPv6 range    *)
(* that ends in the all-ones address does not: the code then wraps to      *)
(* address zero and goes on.)                                              *)
NoWrap == to < AddrSpace - 1

(* Allocate returns the least free address of the range, and fails only    *)
(* when every address of the range is on the link.                         *)
ReturnsLeastFree == pc = "done" /\ NoWrap => ret = LeastFree(from, to, used)

(* What is handed out lies in the CIDR, so that addAddrAlias accepts it.   *)
(* Only the ends of the range are checked by New.                          *)
StaysInCidr == pc = "done" /\ NoWrap => ret \subseteq cidr

(* The inductive invariant: the candidates passed so far are all in use.   *)
Scanned ==
  /\ TypeOK
  /\ pc \in {"ready", "loop", "done"} => from < to /\ from \in cidr /\ to \in cidr
  /\ pc = "loop" /\ NoWrap =>
       from <= cand /\ cand <= to + 1 /\ ret = {} /\ \A a \in from..to : a < cand => a \in used
  /\ ReturnsLeastFree
=============================================================================
