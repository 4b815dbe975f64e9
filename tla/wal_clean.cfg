\* A crash falls between two write calls; no span exceeds MAX_RECORD_BYTES.
SPECIFICATION Spec
CONSTANTS
  small = small
  large = large
  huge = huge
  WalHeader = WalHeader
  Stray = Stray
  NoId = NoId
  Opaque = {large}
  Spans = {small, large}
  Size <- MCSize
  HeaderLen = 2
  MaxRecord = 4
  BufCap = 4
  CrashKinds = {"between"}
  MaxLog = 18
  MaxCrashes = 2
INVARIANTS IndexIsLog SealedIsDurable
PROPERTIES KeepsPromise RecoverTerminates
