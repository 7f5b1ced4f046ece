\* two clients with requests of every kind, and responses of two bytes
SPECIFICATION FairSpec
CONSTANTS
  c1 = c1
  c2 = c2
  Conns = {c1, c2}
  Kinds = {"page", "atom", "download", "malformed"}
  Size = 2
INVARIANTS
  OneAnswer
  InOneList
PROPERTIES
  LoopTurns
  EveryRequestBound
  Answered
\* a client that breaks its connection in the middle of a send stops the loop
CHECK_DEADLOCK FALSE
