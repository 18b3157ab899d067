---------------------------- MODULE LBDefsProofs ----------------------------
(***************************************************************************)
(* Lemmas about the helpers of LBDefs, for the proofs about LBServer and   *)
(* about LBServerSteps.                                                    *)
(***************************************************************************)
EXTENDS LBDefs, TLAPS

(* A port cut to 16 bits is a 16 bit port, whatever int32 the client sent. *)
LEMMA TruncatedPort ==
  ASSUME NEW p \in Nat
  PROVE  p % PortSpace \in 0..PortSpace - 1
BY ConfigAssumption

(* A port that fits is not changed by the truncation.                      *)
LEMMA FittingPort ==
  ASSUME NEW p \in Nat, p < PortSpace
  PROVE  p % PortSpace = p
BY ConfigAssumption

(* What mapTarget hands to the kernel is a service and a destination.      *)
LEMMA EntryType ==
  ASSUME NEW info \in LBInfo, info.ip # NoIP, NEW m \in Mapping
  PROVE  /\ ServiceOf(info, m) \in Service
         /\ EntryOf(info, m) \in Service \X Destination
         /\ EntryOf(info, m)[1] = ServiceOf(info, m)
         /\ ServiceOf(info, m)[1] = info.ip
<1>1. m.port % PortSpace \in 0..PortSpace - 1 /\ m.dstPort % PortSpace \in 0..PortSpace - 1
  BY TruncatedPort, ConfigAssumption DEF Mapping
<1> QED
  BY <1>1 DEF LBInfo, Mapping, ServiceOf, EntryOf, Service, Destination,
              toIPVSService, toDestination

(* Two targets of one load balancer, or of two that do not share an        *)
(* address, are the same kernel entry only when they are the same.         *)
LEMMA EntryInjective ==
  ASSUME PortsFit,
         NEW i \in LBInfo, NEW k \in LBInfo,
         NEW m \in Mapping, NEW q \in Mapping,
         EntryOf(i, m) = EntryOf(k, q)
  PROVE  i.ip = k.ip /\ m = q
<1>1. /\ m.port % PortSpace = m.port /\ m.dstPort % PortSpace = m.dstPort
      /\ q.port % PortSpace = q.port /\ q.dstPort % PortSpace = q.dstPort
  BY FittingPort, ConfigAssumption DEF PortsFit, Mapping
<1>2. /\ i.ip = k.ip /\ m.port % PortSpace = q.port % PortSpace /\ m.proto = q.proto
      /\ m.dstIP = q.dstIP /\ m.dstPort % PortSpace = q.dstPort % PortSpace
  BY DEF EntryOf, ServiceOf, toIPVSService, toDestination
<1>3. m.port = q.port /\ m.proto = q.proto /\ m.dstIP = q.dstIP /\ m.dstPort = q.dstPort
  BY <1>1, <1>2
<1> QED
  BY <1>2, <1>3 DEF Mapping

(* On ports that fit, distinct ports of a record have distinct services.   *)
LEMMA SamePort ==
  ASSUME PortsFit,
         NEW i, NEW m \in Mapping, NEW q \in Mapping,
         ServiceOf(i, m) = ServiceOf(i, q)
  PROVE  m.port = q.port
<1>1. m.port % PortSpace = m.port /\ q.port % PortSpace = q.port
  BY FittingPort, ConfigAssumption DEF PortsFit, Mapping
<1>2. m.port % PortSpace = q.port % PortSpace
  BY DEF ServiceOf, toIPVSService
<1> QED
  BY <1>1, <1>2
=============================================================================
