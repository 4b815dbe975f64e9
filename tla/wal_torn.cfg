\* A crash may cut a write short, or fall before the header is written.
SPECIFICATION SafetySpec
CONSTANTS
  small = small
  large = large
  huge = huge
  WalHeader = WalHeader
  Stray = Stray
  NoId = NoId
  Opaque = {}
  Spans = {small, large, huge}
  Size <- MCSize
  HeaderLen = 3
  MaxRecord = 4
  BufCap = 4
  CrashKinds = {"between", "torn", "creating"}
  MaxLog = 12
  MaxCrashes = 2
INVARIANTS TypeOK OffsetInSync IndexPointsAtRecords SurvivorsIndexed
