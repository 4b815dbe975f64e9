\* Tables of up to three records, in every layout and under seven sets of compact options.
SPECIFICATION Spec
CONSTANTS
  BoolBits = 2
  MaskBits = 2
  OffMod = 64
  PoolMod = 3
  Holds <- MCHolds
  Start = 4
  MinRecords = 2
  ShortMax = 4
  BlockSize = 2
  AnchorMod = 65536
  Splits <- MCSplits
  Kinds <- MCKinds
  Options <- MCOptions
  MaxRows = 3
  PageSize = 2
CHECK_DEADLOCK FALSE
INVARIANTS CompactReadsBack LayoutsReadBack QueriesExact StatsExact
