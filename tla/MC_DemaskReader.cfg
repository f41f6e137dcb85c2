SPECIFICATION ReaderSpec
CONSTANTS
  MaxTokenLen <- MCMaxTokenLen
  Inputs <- MCInputs
INVARIANTS
  EndIsTrue
PROPERTIES
  NothingWaitsBehindUpstream
  KeepsStreamPromise
CHECK_DEADLOCK FALSE
