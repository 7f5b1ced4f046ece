\* two disk states, writes that may fail twice, no crash
SPECIFICATION FairSpec
CONSTANTS
  x = x
  y = y
  mem = mem
  d1 = d1
  d2 = d2
  Ids = {x}
  Own = {x}
  Loadable = {x}
  Mem = mem
  Disks = {d1, d2}
  Order <- TwoDisksOrder
  Asked <- TwoDisksAsked
  Faults = {"open"}
  MaxEdits = 2
  MaxFaults = 2
  MaxIndex = 2
  MaxObjects = 3
  MaxQueue = 3
PROPERTIES
  EventuallyOnDisk
