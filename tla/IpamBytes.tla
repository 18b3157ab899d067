----------------------------- MODULE IpamBytes -----------------------------
(***************************************************************************)
(* SimpleIpam on the bytes of an address, as simple.go computes: compare   *)
(* from the most significant byte, increment with a carry, and look used   *)
(* addresses up in a trie.  All addresses are in their 16 byte form (To16  *)
(* maps an IPv4 address to ::ffff:a.b.c.d), here Width digits of base      *)
(* Base.  The trie is the set of its nodes, a node being the byte string   *)
(* that leads to it, and the set of the nodes with isEnd.                  *)
(***************************************************************************)
EXTENDS Integers, Sequences, FiniteSetsExt

CONSTANTS
  Width,   \* net.IPv6len
  Base,    \* 256
  Blocks   \* the address blocks a CIDR may denote, as sets of addresses

Digit == 0..Base - 1
IP == [1..Width -> Digit]

ASSUME BytesAssumption ==
  /\ Width \in Nat \ {0} /\ Base \in Nat \ {0, 1}
  /\ Blocks \subseteq SUBSET IP

VARIABLES
  pc,     \* "new", "rejected", "ready", "insert", "loop" or "done"
  cidr, from, to,  \* the configuration
  addrs,  \* what AddrList returned
  ipTrie, currCandidate,
  ret     \* the result of the last Allocate, as a set with at most one element

vars == <<pc, cidr, from, to, addrs, ipTrie, currCandidate, ret>>

-----------------------------------------------------------------------------
(* The helpers of simple.go *)

(* The first byte that differs decides.                                    *)
CompareFirst(left, right) == left[1] - right[1]
bytesCompare(left, right) ==
  LET differ == {i \in 1..Width : left[i] # right[i]}
  IN  IF differ = {} THEN 0
      ELSE IF left[Min(differ)] < right[Min(differ)] THEN -1 ELSE 1

(* The loop reaches byte i when every byte after it went from 255 to 0.    *)
NextNoCarry(ip) == [ip EXCEPT ![Width] = (@ + 1) % Base]
getNextIP(ip) ==
  [i \in 1..Width |-> IF \A j \in i + 1..Width : ip[j] = Base - 1
                        THEN (ip[i] + 1) % Base
                        ELSE ip[i]]

(* A block is a common prefix of bits: it has every address between two of *)
(* its own.                                                                *)
ASSUME BlocksAssumption ==
  \A c \in Blocks : \A a, b \in c, ip \in IP :
    bytesCompare(a, ip) <= 0 /\ bytesCompare(ip, b) <= 0 => ip \in c

newIPTrie == [nodes |-> {<<>>}, ends |-> {}]

Prefixes(ip) == {SubSeq(ip, 1, i) : i \in 0..Width}

Insert(t, ip) == [nodes |-> t.nodes \cup Prefixes(ip), ends |-> t.ends \cup {ip}]

(* Some byte has no child: not there; else the last node decides.          *)
Contains(t, ip) == Prefixes(ip) \subseteq t.nodes /\ ip \in t.ends

-----------------------------------------------------------------------------
Init ==
  /\ pc = "new"
  /\ cidr \in Blocks /\ from \in IP /\ to \in IP
  /\ addrs = {}
  /\ ipTrie = newIPTrie
  /\ currCandidate = from
  /\ ret = {}

NewUnordered ==
  /\ pc = "new"
  /\ pc' = IF from \in cidr /\ to \in cidr THEN "ready" ELSE "rejected"
  /\ UNCHANGED <<cidr, from, to, addrs, ipTrie, currCandidate, ret>>

NewOneEnd ==
  /\ pc = "new"
  /\ pc' = IF bytesCompare(from, to) >= 0 \/ from \notin cidr THEN "rejected" ELSE "ready"
  /\ UNCHANGED <<cidr, from, to, addrs, ipTrie, currCandidate, ret>>

(* The range is in order, not a single address, and its ends are in the    *)
(* CIDR.                                                                   *)
New ==
  /\ pc = "new"
  /\ pc' = IF bytesCompare(from, to) >= 0 \/ ~(from \in cidr /\ to \in cidr)
             THEN "rejected"
             ELSE "ready"
  /\ UNCHANGED <<cidr, from, to, addrs, ipTrie, currCandidate, ret>>

(* Allocate begins: AddrList.  If that fails nothing is done.              *)
Start ==
  /\ pc = "ready"
  /\ addrs' \in SUBSET IP
  /\ ipTrie' = newIPTrie
  /\ pc' = "insert"
  /\ UNCHANGED <<cidr, from, to, currCandidate, ret>>

(* One round of the first loop, in whatever order the addresses come, and  *)
(* its end.  An address that comes twice is inserted to no effect.         *)
InsertAddr ==
  /\ pc = "insert"
  /\ \E ip \in addrs \ ipTrie.ends : ipTrie' = Insert(ipTrie, ip)
  /\ UNCHANGED <<pc, cidr, from, to, addrs, currCandidate, ret>>

InsertedAll ==
  /\ pc = "insert" /\ addrs \subseteq ipTrie.ends
  /\ currCandidate' = from
  /\ pc' = "loop"
  /\ UNCHANGED <<cidr, from, to, addrs, ipTrie, ret>>

(* One round of the second loop: the candidate is on the link, it is free, *)
(* or it is past the end of the range.                                     *)
Loop ==
  /\ pc = "loop"
  /\ \/ /\ bytesCompare(currCandidate, to) <= 0
        /\ Contains(ipTrie, currCandidate)
        /\ currCandidate' = getNextIP(currCandidate)
        /\ UNCHANGED <<pc, ret>>
     \/ /\ bytesCompare(currCandidate, to) <= 0
        /\ ~Contains(ipTrie, currCandidate)
        /\ ret' = {currCandidate}
        /\ pc' = "done"
        /\ UNCHANGED currCandidate
     \/ /\ bytesCompare(currCandidate, to) > 0
        /\ pc' = "done"
        /\ UNCHANGED <<currCandidate, ret>>
  /\ UNCHANGED <<cidr, from, to, addrs, ipTrie>>

Return ==
  /\ pc = "done"
  /\ pc' = "ready"
  /\ addrs' = {} /\ ipTrie' = newIPTrie
  /\ currCandidate' = from
  /\ ret' = {}
  /\ UNCHANGED <<cidr, from, to>>

Step == InsertAddr \/ InsertedAll \/ Loop

Next == New \/ Start \/ Step \/ Return

Spec == Init /\ [][Next]_vars

(* The goroutine of the RPC goes on with its loops.                        *)
FairSpec == Spec /\ WF_vars(Step)

-----------------------------------------------------------------------------
(* The numbers that the first bytes of d stand for, after a leading one:   *)
(* an address leads with nothing, and the first number that is too large   *)
(* for one is a 1 and Width zeros.                                         *)
Digits(lead, d) ==
  LET v[i \in 0..Width] == IF i = 0 THEN lead ELSE v[i - 1] * Base + d[i]
  IN  v
Value(ip) == Digits(0, ip)[Width]
Values(S) == {Value(ip) : ip \in S}
Zero == [i \in 1..Width |-> 0]

Numeric == INSTANCE Ipam WITH
  AddrSpace <- Digits(1, Zero)[Width],
  Blocks <- {Values(c) : c \in Blocks},
  pc <- IF pc = "insert" THEN "ready" ELSE pc,
  cidr <- Values(cidr),
  from <- Value(from),
  to <- Value(to),
  used <- IF pc \in {"loop", "done"} THEN Values(addrs) ELSE {},
  cand <- Value(currCandidate),
  ret <- Values(ret)

-----------------------------------------------------------------------------
(* Properties *)

(* Bytes, carries and trie compute what the numbers say: every step of the *)
(* code is a step of Ipam, so what is proved of Ipam holds of the code.    *)
ImplementsNumeric == Numeric!Spec

(* The loop has passed used addresses only, also across a carry.           *)
Scanned == Numeric!Scanned

(* Allocate returns the least free address of the range, and fails only    *)
(* when every address of the range is on the link.                         *)
ReturnsLeastFree == Numeric!ReturnsLeastFree

(* What is handed out lies in the CIDR, so that addAddrAlias accepts it:   *)
(* New checks the two ends of the range only.                              *)
StaysInCidr == Numeric!StaysInCidr

(* Allocate ends, also when no address is free.                            *)
Terminates == (pc \in {"insert", "loop"} /\ Numeric!NoWrap) ~> (pc = "done")
=============================================================================
