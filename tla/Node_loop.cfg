\* bounds by scene: see MCNode
SPECIFICATION FairSpec
CONSTANTS
  c1 = c1
  c2 = c2
  p1 = p1
  p2 = p2
  m1 = m1
  m2 = m2
  Consoles = {c1, c2}
  Commands = {"print", "exit", "record", "view", "play"}
  Peers = {p1, p2}
  Self = "self"
  Bootstrap = {p1}
  MaxSoftDev = 3
  Kinds = {"meta", "data", "bad"}
  Meters = {m1, m2}
  Second = 0
  Wrap = 16
  Clip = 3
  Unreadable = {4}
  Rewind = 1
  Delay = 1
  Chunk = 2
  Depth = 2
  MaxFrames = 6
  Span = 4
  Gaps = {0}
  Budgets <- Scenes
INVARIANTS
  TypeOK
  CommandsKept
  RecordedKept
  PeersBoundOnce
  DatagramsOnce
  HeardInOrder
PROPERTIES
  NodeTurns
  EveryCommandRun
  EveryDatagramHandled
