SPECIFICATION EngineSpec
CONSTANTS
  c1 = c1
  c2 = c2
  c3 = c3
  c4 = c4
  c5 = c5
  c6 = c6
  Call = {c1, c2, c3, c4, c5, c6}
  Settings <- MCSettings
  NoLabels = "none"
  MaxBatch = 3
  Threads = 4
INVARIANTS
  EngineTypeOK
  AnswersAreForTheCall
  FailuresStayInTheirGroup
PROPERTIES
  NoOvertaking
  EveryCallIsAnswered
CHECK_DEADLOCK FALSE
