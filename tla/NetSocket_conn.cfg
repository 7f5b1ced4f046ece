\* two bytes in, three bytes out in sends of one or two, two bytes on the way,
\* fair threads and an arbitrary peer
SPECIFICATION FairSpec
CONSTANTS
  Window = 2
  Chunks <- OneOrTwo
  MaxIn = 2
  MaxOut = 3
INVARIANTS
  InStream
  OutStream
  StaleIsFlushed
PROPERTIES
  CallReturns
  SentWhileOpen
\* a short send leaves the mutex locked: everything may stop
CHECK_DEADLOCK FALSE
