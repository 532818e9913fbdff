SPECIFICATION Spec
CONSTANTS
  o1 = o1  o2 = o2  o3 = o3  null = null
  Object = {o1, o2, o3}
  Group = {0, 1}  DefaultGroup = 0
  Layer = {0, 1}  DefaultLayer = 0
  Class = {{"frame", "render", "del"}}
  UidBound = 3  PauseBound = 0  HitBound = 0
  Passes = {"ObjFrame", "AfterFrame", "ObjRender", "BoundCheck", "BoundCheck2", "ResetPool"}
  MainOps = {"New", "NewInvalidClass", "Del", "layer", "group"}
  CallbackOps = {"New", "Del", "layer", "group"}
SYMMETRY MCSymmetry
INVARIANTS ListsInv FrameInv WalksInv
PROPERTIES DetectListsProtocol
