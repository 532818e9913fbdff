SPECIFICATION Spec
CONSTANTS
  Size = 2
  Buffer = {0, 1}
  EngineOps = {"play", "pause", "resume", "stop", "exit"}
  CanFail = TRUE
  Overlap = FALSE
INVARIANTS StreamInv
PROPERTIES NobodyHangs
CHECK_DEADLOCK FALSE
