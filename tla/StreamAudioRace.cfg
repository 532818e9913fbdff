SPECIFICATION Spec
CONSTANTS
  Size = 4
  Buffer = {0, 1}
  EngineOps = {"play"}
  CanFail = FALSE
  Overlap = TRUE
INVARIANT ExitOnlyWhenNotified
