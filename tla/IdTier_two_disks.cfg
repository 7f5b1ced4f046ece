\* two disk states over one folder, one object of ours and one of a peer
SPECIFICATION Spec
CONSTANTS
  x = x
  y = y
  mem = mem
  d1 = d1
  d2 = d2
  Ids = {x, y}
  Own = {x}
  Loadable = {x, y}
  Mem = mem
  Disks = {d1, d2}
  Order <- TwoDisksOrder
  Asked <- TwoDisksAsked
  Faults = {"open", "short", "crash"}
  MaxEdits = 2
  MaxFaults = 1
  MaxIndex = 2
  MaxObjects = 2
  MaxQueue = 2
INVARIANTS
  DiskIndexSound
PROPERTIES
  ImplementsStore
