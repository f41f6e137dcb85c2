SPECIFICATION WriterSpec
CONSTANTS
  MaxTokenLen <- MCMaxTokenLen
  Inputs <- MCInputs
INVARIANTS
  WriterTypeOK
  NothingLost
  EveryTokenLookedUp
  HeldBackIsCandidate
CHECK_DEADLOCK FALSE
