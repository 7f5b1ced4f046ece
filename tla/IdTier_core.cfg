\* one disk state, two objects of ours, one of them of a type without a creator,
\* one fault of any kind
SPECIFICATION Spec
CONSTANTS
  x = x
  y = y
  mem = mem
  d1 = d1
  d2 = d2
  Ids = {x, y}
  Own = {x, y}
  Loadable = {x}
  Mem = mem
  Disks = {d1}
  Order <- OneDiskOrder
  Asked <- OneDiskAsked
  Faults = {"open", "short", "crash"}
  MaxEdits = 2
  MaxFaults = 1
  MaxIndex = 2
  MaxObjects = 2
  MaxQueue = 2
INVARIANTS
  TypeOK
  MemIndexLags
  LoopPersists
  VersionIdentifiesContent
PROPERTIES
  QueuedUntilStored
  ViewGrows
