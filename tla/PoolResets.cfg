SPECIFICATION Spec
CONSTANTS
  o1 = o1  o2 = o2  o3 = o3  null = null
  Object = {o1, o2, o3}
  Group = {0}  DefaultGroup = 0
  Layer = {0, 1}  DefaultLayer = 0
  Class = {{"frame", "render", "colli", "del"}}
  UidBound = 5  PauseBound = 0  HitBound = 1
  Passes = {"ObjFrame", "ObjRender", "BoundCheck", "CollisionCheck", "CollisionCheck2", "AfterFrame", "ResetPool"}
  MainOps = {"New", "Del", "layer", "ResetObject"}
  CallbackOps = {"New", "Del", "layer", "ResetObject"}
SYMMETRY MCSymmetry
INVARIANTS PassPointersInv RenderListInv UpdateOrderInv
