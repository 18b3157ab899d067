SPECIFICATION Spec
CONSTANTS
  a = a
  b = b
  Names = {a, b}
  Cidr <- MCCidr
  DynFrom = 2
  DynTo = 3
  BaseAddrs = {1, 2}
  NoIP = NoIP
  SrcPorts = {1}
  Protocols = {TCP, UDP}
  DstIPs = {d1}
  DstPorts = {3}
  PortSpace = 4
  Requests <- MCBothAuto
  Workers = {w1, w2}
  OneCallPerName = TRUE
  CrashAnywhere = FALSE
  CallsFail = FALSE
INVARIANTS
  OwnAddress
