\* the smallest instance: one disk state, one object, no fault
SPECIFICATION Spec
CONSTANTS
  x = x
  y = y
  mem = mem
  d1 = d1
  d2 = d2
  Ids = {x}
  Own = {x}
  Loadable = {x}
  Mem = mem
  Disks = {d1}
  Order <- OneDiskOrder
  Asked <- OneDiskAsked
  Faults = {}
  MaxEdits = 1
  MaxFaults = 0
  MaxIndex = 1
  MaxObjects = 1
  MaxQueue = 1
INVARIANTS
  IndexCoupled
