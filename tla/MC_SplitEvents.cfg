SPECIFICATION ReaderSpec
CONSTANTS
  MaxTokenLen <- MCMaxTokenLen
  Inputs <- MCInputs
INVARIANTS
  StreamedTokensAreRestored
CHECK_DEADLOCK FALSE
