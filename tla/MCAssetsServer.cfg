SPECIFICATION FairSpec
CONSTANTS
  LastImage = 2
  SizeOf <- Shrinking
  Ranges <- WholeFile
  Modes = {TRUE, FALSE}
  Tasks = {"t1", "t2"}
  NoTask = "none"
  AllowRollback = TRUE
  MayFail = {"check", "build", "chunk"}
CHECK_DEADLOCK FALSE
INVARIANTS
  AnswerIsCurrent
PROPERTIES
  EveryRequestAnswered
