\* two datagrams, of which the first may break the channel
SPECIFICATION Spec
CONSTANTS
  EscapeChar = 7
  Payloads <- SmallPayloads
  MaxDatagrams = 2
INVARIANTS
  FirstByteIsEscape
