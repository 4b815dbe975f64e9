\* Two records, with slots in and out of order and nested objects, one producer and one reader.
SPECIFICATION Spec
CONSTANTS
  Keys = 3
  MaskBits = 2
  OffMod = 10
  Plans <- MCPlans
  Sizes <- MCSizes
  Records = 2
  SchemaText = 1
  SchemaWords = 2
CHECK_DEADLOCK FALSE
INVARIANTS TypeOK FieldsReadBack SealedIsComplete
PROPERTIES ReaderFollows ReaderFinishes
