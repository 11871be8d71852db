SPECIFICATION ClientSpec
CONSTANTS
  MaxRetries = 2
  MaxLines = 4
  Bytes <- MCBytes
  Texts <- MCTexts
  CR = "CR"
  LF = "LF"
  DataField = "data:"
  Done <- MCDone
  Json <- MCJson
INVARIANT ChunksAsSent RetriesAreJustified
