SPECIFICATION FairSpec
CONSTANTS
  Files = {"Map", "UI"}
  InputChains = {"key"}
  InputMayMiss = FALSE
  RegisterMayFail = TRUE
CHECK_DEADLOCK FALSE
INVARIANTS
  TypeOK
  ReadRewindStops
  SingleSuspension
PROPERTIES
  CallsBlock
  SuspendedReadResumes
