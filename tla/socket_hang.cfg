SPECIFICATION FairSpec
CONSTANTS
  Callers = {c1, c2}
  SeqSpace = 8
  MaxParts = 2
  FirstSeq = 5
  LastSeq = 1
  MaxFaults = 0
  NoSeq = NoSeq
CHECK_DEADLOCK FALSE
PROPERTIES
  CommandsEnd
