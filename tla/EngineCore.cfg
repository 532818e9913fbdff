SPECIFICATION CoreSpec
CONSTANTS
  Object = {o1, o2, o3, o4}
  List = {g0, g1}
  null = null
  N = 4
  PauseBound = 6
  CallsFail = TRUE
  Player = {p1, p2, p3}
  ListenerBound = 4
  Code = {"space", "a", "b", "d", "e", "big"}
  Space = "space"
  Fonts <- FontsDef
  Missing <- MissingDef
  TextureSize = 7
  TextureBound = 3
  UpdateFails = TRUE
  Char = {"a", "han", "smile", "esc"}
  Wide = {"han"}
  Astral = {"smile"}
  Control = {"esc"}
  Inserted = {"a"}
  InsertBound = 2
  BufferBound = 3
  ScriptFails = TRUE
  MessageBound = 4
  DepthBound = 5
  MaxCount = 3
  Rate = 2
  Emissions = {1, 4}
  Lives = {1, 2}
  Lifetimes <- LifetimesDef
  Deltas = {1, 2}
  ClockBound = 3
  ChangeBound = 4
  KeptBound = 2
  SystemFails = TRUE
INVARIANTS SoundInv GlyphInv WindowInv ParticleInv IteratorInv LinksInv FreeStackInv NoDrift PauseIsExact
PROPERTIES StatesAgree QuitEnds ChangesArrive ImplementsSequences ImplementsSlotAllocator
