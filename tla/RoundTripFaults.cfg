SPECIFICATION RoundTripSpec
CONSTANTS
  alice = alice
  bob = bob
  ivan = ivan
  hello = hello
  Word <- MCWord
  Sure <- MCSure
  Guess <- MCGuess
  Kind <- MCKind
  KindOf <- MCKindOf
  Password <- MCPassword
  Other <- MCOther
  Missing = Missing
  Req = {r1}
  Bodies <- MixedBodies
  MaxReply = 2
  Faults = {"read", "model", "save", "forget", "lookup", "dial", "cut", "large", "leave"}
INVARIANTS
  NothingSureLeaves
  MaskingIsReversible
  CountedAsSent
PROPERTIES
  ReachesUpstream
  Concludes
CHECK_DEADLOCK FALSE
