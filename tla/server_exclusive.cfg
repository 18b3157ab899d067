SPECIFICATION Spec
CONSTANTS
  a = a
  b = b
  Names = {a, b}
  Cidr <- MCCidr
  DynFrom = 2
  DynTo = 3
  BaseAddrs = {1, 2}
  NoIP = NoIP
  SrcPorts = {1}
  Protocols = {TCP, UDP}
  DstIPs = {d1, d2}
  DstPorts = {3}
  PortSpace = 4
  Requests <- MCExclusive
INVARIANTS
  TypeOK
  AddrsAccounted
  OwnAddress
  TargetsServed
  DestsRecorded
  KernelNeverRefuses
  Consistent
PROPERTIES
  OthersUntouched
SYMMETRY TargetSymmetry
