\* Imports of sources of up to three items in three formats, appended to while they are read.
SPECIFICATION Spec
CONSTANTS
  ColNames <- MCColNames
  RecordTag = "rec"
  NotNumbers = {"NaN"}
  MaxKeys = 3
  LikeObject <- MCLikeObject
  LikeList <- MCLikeList
  Jobs <- MCJobs
  Items <- MCItems
  MaxItems = 3
  Questions <- MCQuestions
CHECK_DEADLOCK FALSE
INVARIANTS  NothingInvented
