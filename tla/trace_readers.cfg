\* Queries while a writer seals: the reader may create the log the writer is about to reopen.
SPECIFICATION Spec
CONSTANTS
  a = a
  b = b
  c = c
  Header = Header
  None = None
  Spans = {a, b, c}
  SealEvery = 1
  BufSpans = 1
  Commands = {"write", "query"}
  Overlap = TRUE
  IoErrors = FALSE
  SameMs = FALSE
  MaxTime = 3
  MaxCrashes = 1
SYMMETRY SpanSymmetry
INVARIANTS InOnePlace AnswerCompleteIfLogKept
