\* two datagrams, all ways to cut the stream; the escape character is one whose
\* lengths, read by a receiver that has lost its place, TLC can count with
SPECIFICATION FairSpec
CONSTANTS
  EscapeChar = 7
  Payloads <- SmallPayloads
  MaxDatagrams = 2
INVARIANTS
  InStep
PROPERTIES
  ImplementsChannel
  EveryDatagramArrives
