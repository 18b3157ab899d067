SPECIFICATION Spec
CONSTANTS
  Machines = {node, other}
  Self = node
  IDsOf <- MCIDsOf
  Hosts = {h1, h2}
  NoVM = NoVM
  NoID = NoID
  Foreign = Foreign
  MaxChanges = 5
INVARIANTS
  TypeOK
  AnswerWasTrue
