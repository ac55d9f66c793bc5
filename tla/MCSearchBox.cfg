CONSTANTS
  searchData <- MCData
  Escapes <- MCEscapes
  indexSections <- MCSections
  Letters = {"d"}
  searchLabel <- MCLabel
  MaxLength = 2
  MaxTimers = 1
SPECIFICATION SearchSpec
INVARIANTS ShownAnswersTheField UpUndoesDown FindsWhatBeginsSo
PROPERTIES MenuStaysOpen
