\* Four records in pages of two, flushed early or not, one producer and one reader.
SPECIFICATION Spec
CONSTANTS
  Rows <- MCRows
  Sigils <- MCSigils
  PageSize = 2
  Records = 4
  Preamble = 8
  SchemaText = 1
  SchemaWords = 2
CHECK_DEADLOCK FALSE
INVARIANTS CompleteReadBack 
PROPERTIES ReaderFollows ReaderSeesAll
