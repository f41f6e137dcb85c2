SPECIFICATION TextSpec
CONSTANTS
  Kind <- MCKind
  Value <- MCValue
  MaxSpans = 6
  Char <- MCChar
  Width <- MCWidth
  ToLower <- MCToLower
  WordChar <- MCWordChar
  CustomWords <- MCCustomWords
  Inputs <- MCInputs
  ProseChar <- MCProseChar
  EndMark <- MCEndMark
  sanitizeLabel <- MCSanitizeLabel
  NoKind = NoKind
INVARIANTS
  TextTypeOK
  OneToOne
  RestoresEveryOccurrence
  GuessesGiveWay
  EverySureIsMet
  CustomAreWords
  WordsAreMasked
PROPERTIES
  TokensAreForGood
CHECK_DEADLOCK FALSE
