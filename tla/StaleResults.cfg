SPECIFICATION Spec
CONSTANTS
  o1 = o1  o2 = o2  o3 = o3  null = null
  Object = {o1, o2}
  Group = {0}  DefaultGroup = 0
  Layer = {0}  DefaultLayer = 0
  Class = {{"del"}}
  UidBound = 4  PauseBound = 0  HitBound = 0
  Passes = {"BoundCheck2"}
  MainOps = {"New"}
  CallbackOps = {"ResetObject"}
INVARIANT CacheStaysFresh
