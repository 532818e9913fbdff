SPECIFICATION Spec
CONSTANTS
  Size = 2
  Buffer = {0, 1}
  EngineOps = {"play", "pause", "reset"}
  CanFail = TRUE
  Overlap = FALSE
INVARIANTS ResetInv
