SPECIFICATION Spec
CONSTANTS
  LastImage = 3
  SizeOf <- ShrinkingLast
  Ranges <- WholeFile
  Modes = {TRUE}
  Tasks = {"t1", "t2"}
  NoTask = "none"
  AllowRollback = FALSE
  MayFail = {}
CHECK_DEADLOCK FALSE
INVARIANTS
  ChunksReadSafely
