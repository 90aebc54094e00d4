SPECIFICATION Spec
CONSTANTS
  Channels = {"filtered", "original", "misspelt"}
  FilterName <- MCFilterName
  Texts <- MCTexts
  OwnTag <- MCOwnTag
  ClientTag <- MCClientTag
  TagSize = 4
  MaxMessageSize = 3
  Word = 60
  MaxChunk = 2
  MaxChunks = 4
INVARIANTS
  RecordsAsConfigured
  PacketsAsSaid
  TimeOfFirstByte
CHECK_DEADLOCK FALSE
