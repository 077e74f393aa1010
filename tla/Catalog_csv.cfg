SPECIFICATION Spec
CONSTANTS
  Byte <- MCByte
  Encoding <- MCEncoding
  Letters <- MCLetters
  Formula = {"="}
  Columns <- MCColumns
  ExtraNames <- MCExtraNames
  Identities <- MCIdentities
  MaxCellBytes = 3
  MaxColumns = 3
  Foreign <- MCForeign
  Exports <- MCExports
  Chunks = {1, 2, 5}
INVARIANTS
  ReadsTheGrammar
  GivesOutWhatIsComplete
  RoundTrips
CHECK_DEADLOCK FALSE
