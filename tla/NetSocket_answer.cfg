\* a peer that has sent its last byte and waits for the answer
SPECIFICATION FairSpec
CONSTANTS
  Window = 1
  Chunks <- OneOrTwo
  MaxIn = 1
  MaxOut = 2
PROPERTIES
  AnswerSent
CHECK_DEADLOCK FALSE
