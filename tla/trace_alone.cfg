\* One command at a time, killed at any step, with segments that fail to be written.
SPECIFICATION Spec
CONSTANTS
  a = a
  b = b
  c = c
  Header = Header
  None = None
  Spans = {a, b, c}
  SealEvery = 2
  BufSpans = 1
  Commands = {"write", "seal", "query"}
  Overlap = FALSE
  IoErrors = TRUE
  SameMs = FALSE
  MaxTime = 3
  MaxCrashes = 1
SYMMETRY SpanSymmetry
INVARIANTS TypeOK NoSpanLost InOnePlace AnswerExact
