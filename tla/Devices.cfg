SPECIFICATION DevicesSpec
CONSTANTS
  CanvasSizes = {2, 4}
  WindowSizes = {5}
  Monitor = 4
  Modes = {6}
  Models = {"modern", "composition"}
  FailingCalls = {"fullscreen", "view", "buffers", "chain", "canvas", "latency", "device"}
  Prims = {2}
  Textures = {"A", "B"}
  Targets = {"A"}
  Cameras = {"c1", "c2"}
  Viewports = {"v1"}
  Samplers = {"s1"}
  AlphaOf <- AlphaDef
  PictureBound = 2
  Capacity = 3
  Disturbances = {}
  ScreenSizes = {2, 3}
  CreationFails = TRUE
  ResourceBound = 4
  Total = 5
  BufferFrames = 2
  Word = 16
  Times = {0, 2, 4, 7}
  RangeTypes = {"All", "StartPointToEnd", "StartPointAndLength", "StartToEndPoint", "StartPointAndEndPoint"}
  PlayTimes = {0, 3, 7}
  Frames = 4
  Duration = 9
  KeyFrames = {0, 2}
  SeekThreshold = 3
  CatchUpFrames = 2
  MaxDecodeFrames = 3
  BackwardTolerance = 1
  VideoTimes <- VideoTimesDef
  LoopRanges <- LoopRangesDef
  MediaFails = TRUE
  Slot <- SlotDef
  ThingBound = 3
  InstanceBound = 2
  UserDataBound = 2
  LoadFails = TRUE
  MaxSize = 3
  Value = {"x", "y"}
  NewSizes = {0, 1, 2, 3}
  MaxNodes = 3
  Pos = {0, 1}
  Indices <- IndicesDef
  LengthBound = 4
  Keys = {"Enter", "NumEnter", "LShift", "RShift"}
  QueueBound = 2
INVARIANTS SwapChainInv RendererInv ResourcesInv ResourceInv LoopInv VideoInv  KeyboardInv
PROPERTIES BatchingInvisible ChunkIsNext ImplementsDeque
