------------------------------ MODULE GlyphCache ------------------------------
(***************************************************************************)
(* The cache of rendered glyphs (FreeTypeGlyphManager): glyphs are put     *)
(* into images row by row, each with an edge of one transparent pixel, and *)
(* what changed in an image is uploaded to its texture by the next flush.  *)
(* The textures lose their contents with the graphics device.                  *)
(***************************************************************************)
EXTENDS Integers, Sequences, FiniteSetsExt

CONSTANTS
  Code,          \* code points
  Space,         \* the one that the constructor caches
  Fonts,         \* fonts in the order they are asked: each maps its codes to
                 \* the size <<width, height>> of their bitmaps
  Missing,       \* size of the last font's glyph for codes that no font has
  TextureSize,   \* width and height of an image
  TextureBound,  \* bounds the number of images
  UpdateFails    \* whether Texture2D::update may fail while there is a device

ASSUME GlyphAssumption ==
  TextureSize \in Nat /\ Len(Fonts) > 0 /\ UpdateFails \in BOOLEAN /\ Space \in Code

VARIABLES
  m_tex,         \* images with the pens and dirty rectangles, whether they have
                 \* a texture, and the pixels that it shows as they are
  m_map,         \* where each cached code point is
  has_device     \* whether there is a graphics device

glyphVars == <<m_tex, m_map, has_device>>

Pixel == (0 .. TextureSize - 1) \X (0 .. TextureSize - 1)
Clean == << >>     \* invalid_rect_value
Rectangle(l, t, r, b) == {p \in Pixel : l <= p[1] /\ p[1] < r /\ t <= p[2] /\ p[2] < b}
Dirty(t) == IF t.dirty = Clean THEN {}
            ELSE Rectangle(t.dirty[1], t.dirty[2], t.dirty[3], t.dirty[4])

\* addTexture adds the image before its texture; without a device there is none.
NewImage ==
  [image |-> [p \in Pixel |-> "blank"], pen_x |-> 0, pen_y |-> 0, pen_bottom |-> 0,
   dirty |-> Clean, texture |-> has_device, shown |-> {}]

------------------------------------------------------------------------------
\* findGlyph: the first font that has the code, or the last one.
BitmapOf(code) ==
  LET having == {i \in DOMAIN Fonts : code \in DOMAIN Fonts[i]}
  IN  IF having = {} THEN Missing ELSE Fonts[Min(having)][code]

TooBig(b) == b[1] > TextureSize - 2 \/ b[2] > TextureSize - 2

\* The pen leaves the upper left edge free, the tests the lower right one.
PenOpened(t) == IF t.pen_x = 0 \/ t.pen_y = 0 THEN [t EXCEPT !.pen_x = 1, !.pen_y = 1] ELSE t
Fits(x, y, b) == x + b[1] < TextureSize - 1 /\ y + b[2] < TextureSize - 1
Larger(a, b) == IF a > b THEN a ELSE b
Smaller(a, b) == IF a < b THEN a ELSE b
NewRow(t) == Larger(t.pen_y, t.pen_bottom + 1)
HasRoom(t, b) == Fits(t.pen_x, t.pen_y, b) \/ Fits(1, NewRow(t), b)
Moved(t, b) == IF Fits(t.pen_x, t.pen_y, b) THEN t
               ELSE [t EXCEPT !.pen_x = 1, !.pen_y = NewRow(t)]

\* The bitmap and its edge are written at the pen, and become dirty.
Written(t, b, code) ==
  LET x == t.pen_x
      y == t.pen_y
      inside == Rectangle(x, y, x + b[1], y + b[2])
      around == Rectangle(x - 1, y - 1, x + b[1] + 1, y + b[2] + 1) \ inside
  IN  [t EXCEPT
         !.image = [p \in Pixel |-> IF p \in inside THEN code
                                    ELSE IF p \in around THEN "edge" ELSE @[p]],
         !.dirty = IF @ = Clean THEN <<x - 1, y - 1, x + b[1] + 1, y + b[2] + 1>>
                   ELSE <<Smaller(@[1], x - 1), Smaller(@[2], y - 1),
                          Larger(@[3], x + b[1] + 1), Larger(@[4], y + b[2] + 1)>>,
         !.shown = @ \ (inside \cup around),
         !.pen_x = @ + b[1] + 1,
         !.pen_bottom = Larger(@, y + b[2])]

Cached(code) == \E g \in m_map : g.code = code

\* renderCache, writeBitmapToCache: the first image with room, or a new one.
renderCache(code) ==
  LET b     == BitmapOf(code)
      seen  == [i \in DOMAIN m_tex |-> PenOpened(m_tex[i])]
      rooms == {i \in DOMAIN m_tex : HasRoom(seen[i], b)}
      all   == IF rooms = {} THEN Append(seen, PenOpened(NewImage)) ELSE seen
      at    == IF rooms = {} THEN Len(all) ELSE Min(rooms)
      moved == Moved(all[at], b)
  IN  /\ ~ Cached(code) /\ ~ TooBig(b)
      /\ rooms # {} \/ (has_device /\ Len(m_tex) < TextureBound)
      /\ HasRoom(all[at], b)
      /\ m_tex' = [i \in DOMAIN all |-> IF i < at THEN all[i]
                     ELSE IF i = at THEN Written(moved, b, code)
                     ELSE m_tex[i]]
      /\ m_map' = m_map \cup {[code |-> code, at |-> at, x |-> moved.pen_x,
                               y |-> moved.pen_y, w |-> b[1], h |-> b[2]]}

\* No room and no device: the glyph is not cached, the image stays.
renderCacheFails(code) ==
  LET b == BitmapOf(code)
  IN  /\ ~ Cached(code)
      /\ \/ TooBig(b) /\ UNCHANGED m_tex
         \/ /\ ~ TooBig(b) /\ ~ has_device /\ Len(m_tex) < TextureBound
            /\ \A i \in DOMAIN m_tex : ~ HasRoom(PenOpened(m_tex[i]), b)
            /\ m_tex' = Append([i \in DOMAIN m_tex |-> PenOpened(m_tex[i])], NewImage)
      /\ UNCHANGED m_map

\* cacheGlyph, cacheString code by code; getGlyph calls it and then flush.
cacheGlyph(code) ==
  /\ \/ renderCache(code) \/ renderCacheFails(code)
     \/ Cached(code) /\ UNCHANGED <<m_tex, m_map>>
  /\ UNCHANGED has_device

\* flush: every dirty rectangle is uploaded, those that fail stay dirty.  With
\* an image that has no texture the call goes through a null pointer.
Flushed(t, ok) ==
  IF t.dirty = Clean \/ ~ ok THEN t
  ELSE [t EXCEPT !.shown = @ \cup Dirty(t), !.dirty = Clean]

flush ==
  /\ \A i \in DOMAIN m_tex : m_tex[i].dirty # Clean => m_tex[i].texture
  /\ \E ok \in SUBSET DOMAIN m_tex :
       /\ has_device \/ ok = {}
       /\ has_device /\ ~ UpdateFails => ok = DOMAIN m_tex
       /\ m_tex' = [i \in DOMAIN m_tex |-> Flushed(m_tex[i], i \in ok)]
  /\ UNCHANGED <<m_map, has_device>>

\* Mutant: the edge below the last row is forgotten.
AllDirtyNoEdge(t) == [t EXCEPT !.dirty = <<0, 0, TextureSize, t.pen_bottom>>]

AllDirty(t) == [t EXCEPT !.dirty = <<0, 0, TextureSize, t.pen_bottom + 1>>]

onGlyphDeviceDestroy ==
  /\ has_device /\ has_device' = FALSE
  /\ m_tex' = [i \in DOMAIN m_tex |-> AllDirty(m_tex[i])]
  /\ UNCHANGED m_map

\* The textures come back without contents, and the
\* manager leaves them to the next flush.
onGlyphDeviceCreate ==
  /\ ~ has_device /\ has_device' = TRUE
  /\ m_tex' = [i \in DOMAIN m_tex |-> [m_tex[i] EXCEPT !.shown = {}]]
  /\ UNCHANGED m_map

GlyphInit ==
  LET b == BitmapOf(Space)
  IN  /\ has_device = TRUE
      /\ m_tex = <<Written(PenOpened(NewImage), b, Space)>>
      /\ m_map = {[code |-> Space, at |-> 1, x |-> 1, y |-> 1, w |-> b[1], h |-> b[2]]}

GlyphNext ==
  \/ \E code \in Code : cacheGlyph(code)
  \/ flush \/ onGlyphDeviceDestroy \/ onGlyphDeviceCreate

GlyphSpec == GlyphInit /\ [][GlyphNext]_glyphVars

------------------------------------------------------------------------------
Inside(g) == Rectangle(g.x, g.y, g.x + g.w, g.y + g.h)
WithEdge(g) == Rectangle(g.x - 1, g.y - 1, g.x + g.w + 1, g.y + g.h + 1)

GlyphTypeOK ==
  /\ has_device \in BOOLEAN
  /\ \A i \in DOMAIN m_tex :
       /\ m_tex[i].image \in [Pixel -> Code \cup {"blank", "edge"}]
       /\ m_tex[i].pen_x \in 0 .. TextureSize - 1 /\ m_tex[i].pen_y \in 0 .. TextureSize - 1
  /\ \A g \in m_map : g.code \in Code /\ g.at \in DOMAIN m_tex
  /\ \A g, h \in m_map : g.code = h.code => g = h

\* Every cached glyph is whole in its image with its edge around it: whichever
\* rows, sizes and images came after it, nothing was written over either, so a
\* neighbour never bleeds into it when it is scaled (writeBitmapToCache).
GlyphsKept ==
  \A g \in m_map :
    /\ \A p \in Inside(g) : m_tex[g.at].image[p] = g.code
    /\ \A p \in WithEdge(g) \ Inside(g) : m_tex[g.at].image[p] = "edge"
    /\ Cardinality(WithEdge(g)) = (g.w + 2) * (g.h + 2)

\* What a texture does not show of a cached glyph is marked dirty, so the next
\* flush that succeeds makes every glyph visible, also after the device was
\* lost between two flushes (the dirty rectangles, onGlyphDeviceDestroy).
DirtyCovers ==
  \A g \in m_map :
    LET t == m_tex[g.at]
    IN  t.texture => WithEdge(g) \ Dirty(t) \subseteq t.shown

\* Images and textures of the cache, at every moment.
GlyphInv == GlyphTypeOK /\ GlyphsKept /\ DirtyCovers
==============================================================================
