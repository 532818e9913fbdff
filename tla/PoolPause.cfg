SPECIFICATION FairSpec
CONSTANTS
  o1 = o1  o2 = o2  o3 = o3  null = null
  Object = {o1, o2}
  Group = {0}  DefaultGroup = 0
  Layer = {0}  DefaultLayer = 0
  Class = {{"frame"}}
  UidBound = 2  PauseBound = 1  HitBound = 0
  Passes = {"ObjFrame", "AfterFrame"}
  MainOps = {"New", "SetSuperPause"}
  CallbackOps = {"Del", "status", "SetSuperPause"}
INVARIANTS AfterFrameCoversAll
PROPERTIES MarkedIsFreed
