SPECIFICATION Spec
CONSTANTS
  UuidSize = 2
  HashSize = 1
  TypeCount = 3
  SomeIds <- MCSomeIds
  MaxSet = 3
  Base = 5
  Kinds <- MCKinds
  MemberRules <- MCRules
  Values <- MCValues
  RawLength = 2
  EightLength = 2
  IdBytes <- MCIdBytes
  IncLength = 1
  StripRules <- MCStripRules
  OwnerKeys <- MCOwnerKeys
  LeastKeyBits = 128
  CompressedSizes = {5, 25}
  MaxInc = 2
  Depth = 2
  MaxFrames = 6
  Span = 2
  Gaps = {0, 2}
  SampleRange = 4
  OpusDuration = 2
  WaveDuration = 4
  FrameDuration = 4
  Files <- MCFiles
  MaxPlays = 5
  HexBase = 4
  UuidLength = 2
  HashLength = 2
  NumberLength = 2
  Questions <- MCQuestions
  Parameters <- MCParameters
  CommentValues <- MCCommentValues
  MaxComments = 3
  DiskStates = 2
  MaxPairs = 3
  MaxFaults = 2
INVARIANTS
  IdSetsReadBack
  ObjectsTravel
  
  ListsWalk
  ScrollFinds
  SoundIsPlayed
  TextsReadBack
  NumbersOrdered
  KeysStay
CHECK_DEADLOCK FALSE
