SPECIFICATION Spec
CONSTANTS
  o1 = o1  o2 = o2  o3 = o3  null = null
  Object = {o1, o2, o3}
  Group = {0, 1}  DefaultGroup = 0
  Layer = {0}  DefaultLayer = 0
  Class = {{"colli"}}
  UidBound = 3  PauseBound = 0  HitBound = 0
  Passes = {"CollisionCheck"}
  MainOps = {"New", "group"}
  CallbackOps = {"group"}
INVARIANT CollisionGroups
