SPECIFICATION VaultSpec
CONSTANTS
  Req = {r1, r2}
  Tok = {t1, t2}
  Val = {v1, v2}
  Missing = Missing
  TTL = 2
  MaxSaved = 2
INVARIANTS
  AnswersAreOwn
  UsedStaysAlive
PROPERTIES
  ForgottenInTheEnd
  KeepsStorePromise
CHECK_DEADLOCK FALSE
