SPECIFICATION FairSpec
CONSTANTS
  LastImage = 2
  SizeOf <- TwoChunks
  Chunks = {0, 1}
  Ranges <- WholeFile
  Modes = {FALSE}
  Tasks = {t1}
  t1 = t1
  t2 = t2
  NoTask = NoTask
  AllowRollback = FALSE
  MayFail = {"chunk"}
  MaxMishaps = 1
CHECK_DEADLOCK FALSE
PROPERTIES
 IncompleteOnlyIfChanged
 EventuallyCurrent
