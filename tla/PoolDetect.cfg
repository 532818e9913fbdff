SPECIFICATION Spec
CONSTANTS
  o1 = o1  o2 = o2  o3 = o3  null = null
  Object = {o1, o2, o3}
  Group = {0, 1}  DefaultGroup = 0
  Layer = {0}  DefaultLayer = 0
  Class = {{"colli"}}
  UidBound = 3  PauseBound = 0  HitBound = 2
  Passes = {"CollisionCheck", "CollisionCheck2"}
  MainOps = {"New", "group"}
  CallbackOps = {"New", "group", "class"}
SYMMETRY MCSymmetry
INVARIANT DetectCoversAll
