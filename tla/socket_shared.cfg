SPECIFICATION FairSpec
CONSTANTS
  Callers = {c1, c2}
  SeqSpace = 4
  MaxParts = 2
  FirstSeq = 2
  LastSeq = 1
  MaxFaults = 2
  NoSeq = NoSeq
CHECK_DEADLOCK FALSE
INVARIANTS
  TypeOK
  ResultIsTrue
PROPERTIES
  TakingTurnsWorks
