SPECIFICATION Spec
CONSTANTS
  Files = {"Map", "UI"}
  InputChains = {"key"}
  InputMayMiss = TRUE
  RegisterMayFail = FALSE
CHECK_DEADLOCK FALSE
INVARIANTS
  SingleSuspension
