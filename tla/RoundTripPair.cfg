SPECIFICATION RoundTripSpec
CONSTANTS
  alice = alice
  bob = bob
  ivan = ivan
  hello = hello
  Word <- MCWord
  Sure <- MCSure
  Guess <- MCGuess
  Kind <- MCKind
  KindOf <- MCKindOf
  Password <- MCPassword
  Other <- MCOther
  Missing = Missing
  Req = {r1, r2}
  Bodies <- PairBodies
  MaxReply = 1
  Faults = {"save", "forget", "lookup"}
INVARIANTS
  EchoIsRestored
  OwnValuesOnly
CHECK_DEADLOCK FALSE
