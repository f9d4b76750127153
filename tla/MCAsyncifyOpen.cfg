SPECIFICATION Spec
CONSTANTS
  Files = {"Map", "UI"}
  InputChains = {"key"}
  InputMayMiss = FALSE
  RegisterMayFail = TRUE
CHECK_DEADLOCK FALSE
INVARIANTS
  RewindStops
