\* Documents of up to three fields, written in three hands for three layouts.
SPECIFICATION Spec
CONSTANTS
  MaxDepth = 2
  MaskBits = 2
  OffMod = 64
  MaxKeys = 3
  IntMax = 7
  NarrowMax = 4
  MaxText = 8
  LikeObject <- MCLikeObject
  LikeList <- MCLikeList
  Fields <- MCFields
  Setups <- MCSetups
  MaxFields = 3
CHECK_DEADLOCK FALSE
INVARIANTS RefusedExactly SourceReadsBack
