SPECIFICATION FairSpec
CONSTANTS
  n1 = n1
  n2 = n2
  Nodes = {n1, n2}
  Addresses = {"x"}
  NoAddress = "none"
  FirstAddr <- MCAddressed
  Specs <- MCOnePort
  Name = "lb"
  LoadBalancerIP = 1
  Workers = {1, 2}
  OneCallPerName = FALSE
  CrashAnywhere = FALSE
  CallsFail = TRUE
  Names = {"lb"}
  Requests <- MCRequests
  SrcPorts = {80, 90, 443}
  Protocols = {"TCP", "UDP"}
  DstIPs <- MCDstIPs
  DstPorts = {1, 2, 3, 4}
  Cidr = {1, 2, 3}
  DynFrom = 2
  DynTo = 3
  BaseAddrs = {}
  NoIP = NoIP
  PortSpace = 65536
  LbctlTargets <- MCLbctl
  MaxEvents = 2
CHECK_DEADLOCK FALSE
INVARIANTS
  ProviderTypeOK
  SyncedIsExact
PROPERTIES
  KeepsWanted
  Converges
VIEW MCView
