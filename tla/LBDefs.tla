------------------------------- MODULE LBDefs -------------------------------
(***************************************************************************)
(* Data and pure helpers of the load-balancer manager                      *)
(* (internal/loadbalancer/impl.go), shared by the serial and by the        *)
(* step-by-step model of its gRPC handlers.                                *)
(*                                                                         *)
(* An IP address is a natural number, which orders addresses the way       *)
(* bytesCompare does (module IpamBytes checks that).  A load-balancer record *)
(* is its IP address and the set of its mappings: the code keeps, for each *)
(* source port, a list of targets without duplicates; the order of a list  *)
(* is never used, and a port whose list becomes empty loses its entry, so  *)
(* the map of lists and the set of (port, target) pairs carry the same     *)
(* information.                                                            *)
(***************************************************************************)
EXTENDS Integers, FiniteSets, IpamDefs

CONSTANTS
  Names,      \* load-balancer names, the keys of the database
  Cidr,       \* the addresses of loadbalancer.ipam.cidr
  DynFrom,    \* loadbalancer.ipam.dynamicRange.startAt
  DynTo,      \* loadbalancer.ipam.dynamicRange.endAt
  BaseAddrs,  \* addresses the install script leaves on the external link
  NoIP,       \* the empty string: no ip_addr requested, no such load balancer
  SrcPorts,   \* source ports clients ask for (int32 in the protocol)
  Protocols,  \* TCP and UDP
  DstIPs,     \* target addresses
  DstPorts,   \* target ports (int32 in the protocol)
  PortSpace,  \* 2^16: ports handed to the kernel are uint16
  Requests    \* the <<name, ip>> pairs clients may ask Create for

(* What NewServer and ipam.New guarantee of an accepted configuration, and  *)
(* the types of the request parameters.  A request may ask for an address  *)
(* outside the CIDR (it is refused) or for none (NoIP).                    *)
ASSUME ConfigAssumption ==
  /\ Cidr \subseteq Nat
  /\ BaseAddrs \subseteq Nat
  /\ DynFrom \in Nat /\ DynTo \in Nat
  /\ DynFrom < DynTo
  /\ DynFrom..DynTo \subseteq Cidr
  /\ NoIP \notin Nat
  /\ SrcPorts \subseteq Nat /\ DstPorts \subseteq Nat
  /\ PortSpace \in Nat \ {0}
  /\ Requests \subseteq Names \X (Nat \cup {NoIP})

DynRange == DynFrom..DynTo

-----------------------------------------------------------------------------
(* Stored records *)

(* A target mapped on a source port: the key on which AddTarget and        *)
(* DelTarget compare targets.                                              *)
Mapping == [port : SrcPorts, proto : Protocols, dstIP : DstIPs, dstPort : DstPorts]

LBInfo == [ip : Cidr \cup {NoIP}, targets : SUBSET Mapping]

(* The empty structure GetLoadBalancer answers for a name that is not      *)
(* stored; a stored record always has an address.                          *)
NoLB == [ip |-> NoIP, targets |-> {}]

-----------------------------------------------------------------------------
(* Kernel objects *)

Service == Cidr \X (0..PortSpace - 1) \X Protocols
Destination == DstIPs \X (0..PortSpace - 1)

(* The virtual service of a load balancer on a port: uint16(srcPort).      *)
toIPVSService(ip, port, proto) == <<ip, port % PortSpace, proto>>

(* The real server of a target: uint16(target.DstPort).                    *)
toDestination(m) == <<m.dstIP, m.dstPort % PortSpace>>

ServiceOf(info, m) == toIPVSService(info.ip, m.port, m.proto)
EntryOf(info, m) == <<ServiceOf(info, m), toDestination(m)>>

(* The services Delete removes: one for each port and each protocol some   *)
(* target of the port still has.                                           *)
ServicesOfOneProtocol(info) ==
  {ServiceOf(info, m) : m \in {k \in info.targets : k.proto = CHOOSE p \in Protocols : TRUE}}
ServicesOf(info) == {ServiceOf(info, m) : m \in info.targets}

(* IPVS drops the destinations of a service with the service.              *)
WithoutServices(entries, S) == {e \in entries : e[1] \notin S}

(* A DelService call of Delete fails: the service is not there, or another *)
(* port of the record was truncated to the same 16 bits and went first.    *)
SomeDelServiceFails(info, present) ==
  \E m \in info.targets :
    \/ ServiceOf(info, m) \notin present
    \/ \E k \in info.targets : k.port # m.port /\ ServiceOf(info, k) = ServiceOf(info, m)

-----------------------------------------------------------------------------
(* IPAM: the address Allocate returns when `used` is on the link; empty    *)
(* when the dynamic range is exhausted.  Module Ipam derives this from the *)
(* loop in simple.go.                                                      *)
AllocateAny(used) == DynRange
Allocate(used) == LeastFree(DynFrom, DynTo, used)

(* DelTarget: no target of any protocol is left in the port's list.        *)
AlwaysLast(info, m) == TRUE
LastOnPort(info, m) == \A k \in info.targets \ {m} : k.port # m.port

-----------------------------------------------------------------------------
(* Deployment discipline: explicitly requested addresses lie outside the   *)
(* dynamic range and outside the link's own addresses, and no two names    *)
(* ask for the same one; ports fit 16 bits.                                *)
ExclusiveRequests ==
  /\ \A r \in Requests : r[2] \notin DynRange \cup BaseAddrs
  /\ \A r, q \in Requests : r[2] # NoIP /\ r[2] = q[2] => r[1] = q[1]

PortsFit == \A p \in SrcPorts \cup DstPorts : p < PortSpace
=============================================================================
