\* a page asked for behind a driver state that stays at the head of the list
SPECIFICATION FairSpec
CONSTANTS
  c1 = c1
  c2 = c2
  Conns = {c1, c2}
  Kinds = {"page", "atom"}
  Size = 1
PROPERTIES
  EveryDriverServed
CHECK_DEADLOCK FALSE
