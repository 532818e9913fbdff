SPECIFICATION TextSpec
CONSTANTS
  Char = {"a", "han"}
  Wide = {"han"}  Astral = {}  Control = {}
  Inserted = {"a", "han"}  InsertBound = 1
  BufferBound = 2
INVARIANT CursorInside
