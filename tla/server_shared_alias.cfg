SPECIFICATION Spec
CONSTANTS
  a = a
  b = b
  Names = {a, b}
  Cidr <- MCCidr
  DynFrom = 2
  DynTo = 3
  BaseAddrs = {1}
  NoIP = NoIP
  SrcPorts = {1, 2}
  Protocols = {TCP}
  DstIPs = {d1}
  DstPorts = {3}
  PortSpace = 4
  Requests <- MCShared
INVARIANTS
  AliasPresent
