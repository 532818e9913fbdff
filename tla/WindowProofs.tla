----------------------------- MODULE WindowProofs -----------------------------
(***************************************************************************)
(* The text of a window, the frames of the application, its glyphs and its *)
(* particle pools.                                                         *)
(***************************************************************************)
EXTENDS Window, GlyphCache, ParticlePool, FiniteSetTheorems, SequenceTheorems,
        WellFoundedInduction, TLAPS

\* What the text may hold: typed characters are filtered, inserted ones are not.
Text == (Char \ Control) \cup Inserted

\* Every code point a script inserts is one byte of UTF-8.
OneByteInserted == Inserted \cap (Wide \cup Astral) = {}

LEMMA OneByteText ==
  ASSUME OneByteInserted, NEW t \in Seq(Inserted)
  PROVE  Bytes(t) = Len(t)
<1> DEFINE places == {p \in (DOMAIN t) \X (1 .. 4) : p[2] <= BytesOf(t[p[1]])}
<1>1. \A i \in DOMAIN t : BytesOf(t[i]) = 1
  BY DEF BytesOf, OneByteInserted
<1>2. places = (DOMAIN t) \X (1 .. 1)
  BY <1>1
<1>3. Len(t) \in Nat /\ DOMAIN t = 1 .. Len(t)
  OBVIOUS
<1>4. IsFiniteSet(1 .. Len(t)) /\ Cardinality(1 .. Len(t)) = Len(t)
  BY <1>3, FS_Interval
<1>5. IsFiniteSet(1 .. 1) /\ Cardinality(1 .. 1) = 1
  <2>1. 1 .. 1 = {1}
    OBVIOUS
  <2> QED BY <2>1, FS_Singleton
<1>6. Cardinality(places) = Len(t) * 1
  <2> HIDE DEF places
  <2>1. places = (1 .. Len(t)) \X (1 .. 1)
    BY <1>2, <1>3
  <2> QED BY <2>1, <1>4, <1>5, FS_Product
<1>7. Len(t) * 1 = Len(t)
  <2>1. \A n \in Nat : n * 1 = n
    OBVIOUS
  <2> QED BY <2>1, <1>3
<1> QED BY <1>6, <1>7 DEF Bytes

LEMMA EmptyUtf8 == Utf8(<< >>) = << >>
<1> DEFINE s == [i \in DOMAIN << >> |-> [k \in 1 .. BytesOf(<< >>[i]) |-> <<<< >>[i], k>>]]
<1>1. DOMAIN << >> = 1 .. 0
  OBVIOUS
<1>2. s \in Seq({})
  BY <1>1
<1>3. DOMAIN s = 1 .. 0 /\ Len(s) = 0
  BY <1>1, <1>2
<1>4. s = << >>
  <2> HIDE DEF s
  <2> QED BY <1>2, <1>3
<1>5. FlattenSeq(s) = s
  BY <1>3 DEF FlattenSeq
<1> QED BY <1>4, <1>5 DEF Utf8

LEMMA NoText == << >> \in Seq(Text) /\ Len(<< >>) = 0
BY EmptySeq

LEMMA WithText ==
  ASSUME NEW S, NEW s \in Seq(S), NEW t \in Seq(S), NEW i \in Nat, i <= Len(s)
  PROVE  With(s, i, t) \in Seq(S) /\ Len(With(s, i, t)) = Len(s) + Len(t)
<1>1. Before(s, i) \in Seq(S) /\ Len(Before(s, i)) = i
  BY DEF Before
<1>2. Behind(s, i) \in Seq(S) /\ Len(Behind(s, i)) = Len(s) - i
  BY DEF Behind
<1> QED BY <1>1, <1>2 DEF With

LEMMA WithoutText ==
  ASSUME NEW S, NEW s \in Seq(S), NEW i \in Nat, NEW n \in Nat, i + n <= Len(s)
  PROVE  Without(s, i, n) \in Seq(S) /\ Len(Without(s, i, n)) = Len(s) - n
<1>1. Before(s, i) \in Seq(S) /\ Len(Before(s, i)) = i
  BY DEF Before
<1>2. Behind(s, i + n) \in Seq(S) /\ Len(Behind(s, i + n)) = Len(s) - (i + n)
  BY DEF Behind
<1> QED BY <1>1, <1>2 DEF Without

LEMMA InitText == TextInit => TextInv
<1> SUFFICES ASSUME TextInit PROVE TextInv
  OBVIOUS
<1>1. /\ m_text_input_buffer = << >> /\ m_text_input_buffer_u8 = << >>
      /\ m_text_input_cursor = 0 /\ m_text_input_last_high_surrogate = "none"
      /\ m_text_input_enabled = FALSE
  BY DEF TextInit
<1>2. TextTypeOK
  BY <1>1, NoText DEF TextTypeOK, Text
<1>3. MirrorFollows
  BY <1>1, EmptyUtf8 DEF MirrorFollows
<1>4. CursorInside
  BY <1>1, NoText DEF CursorInside
<1> QED BY <1>2, <1>3, <1>4 DEF TextInv

LEMMA EditKeeps ==
  ASSUME NEW s \in Seq(Text), Edited(s),
         m_text_input_cursor' \in Nat, m_text_input_cursor' <= Len(s),
         m_text_input_enabled' \in BOOLEAN,
         m_text_input_last_high_surrogate' \in Astral \cup {"none"}
  PROVE  TextInv'
BY DEF Edited, TextInv, TextTypeOK, MirrorFollows, CursorInside, Text, Utf8

LEMMA KeepKeeps ==
  ASSUME TextInv, KeepText,
         m_text_input_cursor' \in 0 .. Len(m_text_input_buffer),
         m_text_input_enabled' \in BOOLEAN,
         m_text_input_last_high_surrogate' \in Astral \cup {"none"}
  PROVE  TextInv'
BY DEF KeepText, TextInv, TextTypeOK, MirrorFollows, CursorInside, Utf8

LEMMA HandleKeeps ==
  ASSUME TextInv, NEW c \in Char, textInput_handleChar32(c),
         m_text_input_enabled' \in BOOLEAN,
         m_text_input_last_high_surrogate' \in Astral \cup {"none"}
  PROVE  TextInv'
<1>0. m_text_input_buffer \in Seq(Text) /\ m_text_input_cursor \in Nat
      /\ m_text_input_cursor <= Len(m_text_input_buffer)
  BY DEF TextInv, TextTypeOK, CursorInside, Text
<1>1. CASE c \notin Control /\ textInput_addChar32(c)
  <2> DEFINE s == With(m_text_input_buffer, m_text_input_cursor, <<c>>)
  <2>1. <<c>> \in Seq(Text) /\ Len(<<c>>) = 1
    BY <1>1 DEF Text
  <2>2. s \in Seq(Text) /\ Len(s) = Len(m_text_input_buffer) + 1
    BY <2>1, <1>0, WithText
  <2>3. Edited(s) /\ m_text_input_cursor' = m_text_input_cursor + 1
    BY <1>1 DEF textInput_addChar32
  <2> HIDE DEF s
  <2>4. m_text_input_cursor' \in Nat /\ m_text_input_cursor' <= Len(s)
    BY <2>2, <2>3, <1>0
  <2> QED BY <2>2, <2>3, <2>4, EditKeeps
<1>2. CASE c \in Control /\ KeepText /\ UNCHANGED m_text_input_cursor
  BY <1>0, <1>2, KeepKeeps
<1> QED BY <1>1, <1>2 DEF textInput_handleChar32

LEMMA TextStep ==
  ASSUME OneByteInserted, TextInv, [TextNext]_textVars
  PROVE  TextInv'
<1> USE TextAssumption
<1> DEFINE buffer == m_text_input_buffer
           cursor == m_text_input_cursor
<1>0. /\ m_text_input_buffer \in Seq(Text) /\ m_text_input_cursor \in Nat
      /\ m_text_input_cursor <= Len(m_text_input_buffer)
      /\ m_text_input_enabled \in BOOLEAN
      /\ m_text_input_last_high_surrogate \in Astral \cup {"none"}
  BY DEF TextInv, TextTypeOK, CursorInside, Text
<1>n. Len(m_text_input_buffer) \in Nat
  BY <1>0
<1>k. KeepUnits => /\ m_text_input_enabled' \in BOOLEAN
                   /\ m_text_input_last_high_surrogate' \in Astral \cup {"none"}
  BY <1>0 DEF KeepUnits
<1>1. ASSUME NEW c \in Char, highSurrogate(c) PROVE TextInv'
  BY <1>0, <1>1, <1>n, KeepKeeps DEF highSurrogate
<1>2. ASSUME NEW c \in Char, textInput_handleChar16(c) PROVE TextInv'
  BY <1>2, <1>k, HandleKeeps DEF textInput_handleChar16
<1>3. CASE lowSurrogate
  <2>1. /\ m_text_input_enabled' \in BOOLEAN
        /\ m_text_input_last_high_surrogate' \in Astral \cup {"none"}
    BY <1>0, <1>3 DEF lowSurrogate
  <2>2. CASE /\ m_text_input_last_high_surrogate \in Astral
             /\ textInput_handleChar32(m_text_input_last_high_surrogate)
    <3>1. m_text_input_last_high_surrogate \in Char
      BY <2>2
    <3> QED BY <3>1, <2>1, <2>2, HandleKeeps
  <2>3. CASE KeepText /\ UNCHANGED m_text_input_cursor
    BY <2>3, <2>1, <1>0, <1>n, KeepKeeps
  <2> QED BY <2>2, <2>3, <1>3 DEF lowSurrogate
<1>4. ASSUME NEW enabled \in BOOLEAN, textInput_setEnabled(enabled) PROVE TextInv'
  BY <1>0, <1>n, <1>4, KeepKeeps DEF textInput_setEnabled
<1>5. CASE textInput_clearBuffer
  <2>1. Edited(<< >>) /\ m_text_input_cursor' = 0 /\ KeepUnits
    BY <1>5 DEF textInput_clearBuffer
  <2>2. m_text_input_cursor' \in Nat /\ m_text_input_cursor' <= Len(<< >>)
    BY <2>1, NoText
  <2> QED BY <2>1, <2>2, NoText, <1>k, EditKeeps
<1>6. ASSUME NEW i \in Position, textInput_setCursorPosition(i) PROVE TextInv'
  <2>1. m_text_input_cursor' \in 0 .. Len(m_text_input_buffer)
    BY <1>6, <1>n DEF textInput_setCursorPosition, Least2, Position
  <2> QED BY <2>1, <1>6, <1>k, KeepKeeps DEF textInput_setCursorPosition
<1>7. ASSUME NEW offset \in {-2, -1, 1, 2}, textInput_addCursorPosition(offset)
      PROVE  TextInv'
  <2>1. m_text_input_cursor' \in 0 .. Len(m_text_input_buffer)
    BY <1>7, <1>n, <1>0 DEF textInput_addCursorPosition, Least2
  <2> QED BY <2>1, <1>7, <1>k, KeepKeeps DEF textInput_addCursorPosition
<1>8. ASSUME NEW i \in Position, NEW n \in 0 .. 2, textInput_removeBufferRange(i, n)
      PROVE  TextInv'
  <2> DEFINE count == Least2(n, Len(m_text_input_buffer) - i)
             rest  == Without(m_text_input_buffer, i, count)
  <2>1. i \in Nat /\ count \in Nat /\ i + count <= Len(m_text_input_buffer)
    BY <1>8, <1>n DEF textInput_removeBufferRange, Least2, Position
  <2>2. rest \in Seq(Text) /\ Len(rest) \in Nat
    <3> HIDE DEF count
    <3> QED BY <2>1, <1>0, WithoutText
  <2>3. /\ Edited(rest) /\ m_text_input_cursor' = Least2(m_text_input_cursor, Len(rest))
        /\ KeepUnits
    BY <1>8 DEF textInput_removeBufferRange
  <2> HIDE DEF rest
  <2>4. m_text_input_cursor' \in Nat /\ m_text_input_cursor' <= Len(rest)
    BY <2>2, <2>3, <1>0 DEF Least2
  <2> QED BY <2>2, <2>3, <2>4, <1>k, EditKeeps
<1>9. ASSUME NEW t \in BoundedSeq(Inserted, InsertBound), NEW i \in Nat,
             textInput_insertBufferRange(i, t)
      PROVE  TextInv'
  <2>1. t \in Seq(Inserted) /\ t \in Seq(Text) /\ Len(t) \in Nat
    BY DEF BoundedSeq, SeqOf, Text
  <2>2. m_text_input_cursor' = m_text_input_cursor + Len(t) /\ KeepUnits
    BY <1>9, <2>1, OneByteText DEF textInput_insertBufferRange
  <2>3. PICK s \in Seq(Text) : Edited(s) /\ Len(s) = Len(m_text_input_buffer) + Len(t)
    <3>1. CASE i < Len(m_text_input_buffer)
      <4>1. Edited(With(m_text_input_buffer, i, t))
        BY <1>9, <3>1 DEF textInput_insertBufferRange
      <4>2. i <= Len(m_text_input_buffer)
        BY <3>1, <1>n
      <4> QED BY <4>1, <4>2, <2>1, <1>0, WithText
    <3>2. CASE ~ (i < Len(m_text_input_buffer))
      <4>1. Edited(m_text_input_buffer \o t)
        BY <1>9, <3>2 DEF textInput_insertBufferRange
      <4>2. /\ m_text_input_buffer \o t \in Seq(Text)
            /\ Len(m_text_input_buffer \o t) = Len(m_text_input_buffer) + Len(t)
        BY <2>1, <1>0, ConcatProperties
      <4> QED BY <4>1, <4>2
    <3> QED BY <3>1, <3>2
  <2>4. m_text_input_cursor' \in Nat /\ m_text_input_cursor' <= Len(s)
    BY <2>1, <2>2, <2>3, <1>0, <1>n
  <2> QED BY <2>2, <2>3, <2>4, <1>k, EditKeeps
<1>10. ASSUME NEW n \in 0 .. 2, textInput_backspace(n) PROVE TextInv'
  <2> DEFINE count == Least2(m_text_input_cursor, n)
             rest  == Without(m_text_input_buffer, m_text_input_cursor - count, count)
  <2>1. /\ count \in Nat /\ m_text_input_cursor - count \in Nat
        /\ (m_text_input_cursor - count) + count <= Len(m_text_input_buffer)
    BY <1>0, <1>n DEF Least2
  <2>2. rest \in Seq(Text) /\ Len(rest) = Len(m_text_input_buffer) - count
    <3> HIDE DEF count
    <3> QED BY <2>1, <1>0, WithoutText
  <2>3. Edited(rest) /\ m_text_input_cursor' = m_text_input_cursor - count /\ KeepUnits
    BY <1>10 DEF textInput_backspace
  <2> HIDE DEF rest, count
  <2>4. m_text_input_cursor' \in Nat /\ m_text_input_cursor' <= Len(rest)
    BY <2>1, <2>2, <2>3, <1>0, <1>n
  <2> QED BY <2>2, <2>3, <2>4, <1>k, EditKeeps
<1>11. CASE UNCHANGED textVars
  <2>1. KeepText /\ KeepUnits /\ UNCHANGED m_text_input_cursor
    BY <1>11 DEF textVars, KeepText, KeepUnits
  <2> QED BY <2>1, <1>0, <1>n, <1>k, KeepKeeps
<1>12. \A i \in Position : i \in Nat
  BY DEF Position
<1> QED
  BY <1>0, <1>1, <1>2, <1>3, <1>4, <1>5, <1>6, <1>7, <1>8, <1>9, <1>10, <1>11, <1>12
  DEF TextNext

------------------------------------------------------------------------------
(* The application.  What the stack of activities may look like: the loop  *)
(* outermost, at most one modal loop, no frame inside a frame or inside a  *)
(* transition, and only the outermost transition found the gates open.     *)

Layer == [what : {"loop", "modal", "fullscreen", "frame"},
          at : {"before", "messages", "ended", "start", "lose", "gain", "script",
                "checked", "render", "finish"},
          bits : SUBSET {"lose", "gain", "update", "delegate"}, ok : BOOLEAN]

\* Where an activity can be.
Placed(e) ==
  /\ e.what = "loop" => e.at \in {"before", "messages", "ended"}
  /\ e.what \in {"modal", "fullscreen"} => e.at = "messages"

\* The i-th activity runs inside one of that kind.
RunsIn(s, i, what) == \E j \in DOMAIN s : j < i /\ s[j].what = what

Layers(s) ==
  /\ s \in Seq(Layer) /\ Len(s) >= 1
  /\ \A i \in DOMAIN s : Placed(s[i]) /\ (s[i].what = "loop" <=> i = 1)
  /\ \A i \in DOMAIN s : s[i].what = "frame" =>
       ~ RunsIn(s, i, "frame") /\ ~ RunsIn(s, i, "fullscreen")
  /\ \A i \in DOMAIN s : s[i].what = "modal" => ~ RunsIn(s, i, "modal")
  /\ \A i \in DOMAIN s : s[i].what = "fullscreen" =>
       /\ "update" \in s[i].bits <=> ~ RunsIn(s, i, "fullscreen")
       /\ "delegate" \in s[i].bits <=> ~ RunsIn(s, i, "fullscreen")

Has(s, what) == \E i \in DOMAIN s : s[i].what = what
Renders(s)   == \E i \in DOMAIN s : s[i].what = "frame" /\ s[i].at = "render"
GainHeld(s)  == \E i \in DOMAIN s : s[i].at \in {"lose", "gain"} /\ "gain" \in s[i].bits
LoseAlone(s) == \E i \in DOMAIN s :
                  s[i].at = "lose" /\ "lose" \in s[i].bits /\ "gain" \notin s[i].bits

LEMMA LastLayer ==
  ASSUME NEW s, Layers(s)
  PROVE  /\ Len(s) \in Nat /\ Len(s) >= 1 /\ DOMAIN s = 1 .. Len(s)
         /\ Len(s) \in DOMAIN s /\ Last(s) \in Layer /\ Last(s) = s[Len(s)]
BY DEF Layers, Last

LEMMA TopLoop ==
  ASSUME NEW s, Layers(s), Last(s).what = "loop"
  PROVE  /\ Len(s) = 1
         /\ \A w : Has(s, w) <=> w = "loop"
         /\ ~ Renders(s) /\ ~ GainHeld(s) /\ ~ LoseAlone(s)
<1>1. Len(s) = 1 /\ s[1].what = "loop"
  BY LastLayer DEF Layers
<1>2. DOMAIN s = {1}
  BY <1>1, LastLayer
<1>3. s[1].at \notin {"lose", "gain", "render"}
  BY <1>1, <1>2 DEF Layers, Placed
<1> QED BY <1>1, <1>2, <1>3 DEF Has, Renders, GainHeld, LoseAlone

LEMMA TopFrame ==
  ASSUME NEW s, Layers(s), Last(s).what = "frame"
  PROVE  /\ Has(s, "frame") /\ ~ Has(s, "fullscreen")
         /\ Renders(s) <=> Last(s).at = "render"
         /\ GainHeld(s) <=> Last(s).at \in {"lose", "gain"} /\ "gain" \in Last(s).bits
         /\ LoseAlone(s) <=> /\ Last(s).at = "lose" /\ "lose" \in Last(s).bits
                             /\ "gain" \notin Last(s).bits
<1> DEFINE n == Len(s)
<1>0. n \in Nat /\ DOMAIN s = 1 .. n /\ n \in DOMAIN s /\ Last(s) = s[n]
  BY LastLayer
<1>1. \A i \in DOMAIN s : i # n => i < n
  BY <1>0
<1>2. \A i \in DOMAIN s : i # n => s[i].what \notin {"frame", "fullscreen"}
  BY <1>0, <1>1 DEF Layers, RunsIn
<1>3. \A i \in DOMAIN s : i # n => s[i].what \in {"loop", "modal"} /\ Placed(s[i])
  <2>1. \A i \in DOMAIN s : s[i] \in Layer /\ Placed(s[i])
    BY DEF Layers
  <2> QED BY <1>2, <2>1 DEF Layer
<1>4. \A i \in DOMAIN s : i # n => s[i].at \notin {"lose", "gain", "render"}
  BY <1>3 DEF Placed
<1> QED BY <1>0, <1>2, <1>4 DEF Has, Renders, GainHeld, LoseAlone

LEMMA PutLayer ==
  ASSUME NEW s, Layers(s), NEW e \in Layer, Placed(e), e.what = Last(s).what,
         e.what \in {"loop", "frame"}, NEW t, t = [s EXCEPT ![Len(s)] = e]
  PROVE  Layers(t) /\ Len(t) = Len(s) /\ Last(t) = e /\ \A w : Has(t, w) <=> Has(s, w)
<1> DEFINE n == Len(s)
<1>0. n \in Nat /\ DOMAIN s = 1 .. n /\ n \in DOMAIN s /\ Last(s) = s[n] /\ s \in Seq(Layer)
  BY LastLayer DEF Layers
<1>1. t \in Seq(Layer) /\ Len(t) = n /\ DOMAIN t = DOMAIN s /\ t[n] = e
      /\ \A i \in DOMAIN s : i # n => t[i] = s[i]
  BY <1>0
<1>2. \A i \in DOMAIN s : t[i].what = s[i].what
  BY <1>0, <1>1
<1>3. \A w : Has(t, w) <=> Has(s, w)
  BY <1>1, <1>2 DEF Has
<1>4. \A i \in DOMAIN s : \A w : RunsIn(t, i, w) <=> RunsIn(s, i, w)
  BY <1>1, <1>2 DEF RunsIn
<1>5. Layers(t)
  <2>1. \A i \in DOMAIN s : Placed(t[i])
    BY <1>0, <1>1 DEF Layers
  <2>2. \A i \in DOMAIN s : t[i].what = "fullscreen" => t[i] = s[i]
    BY <1>0, <1>1
  <2>3. \A i \in DOMAIN t : Placed(t[i]) /\ (t[i].what = "loop" <=> i = 1)
    BY <1>1, <1>2, <2>1 DEF Layers
  <2>4. \A i \in DOMAIN t : t[i].what = "frame" =>
          ~ RunsIn(t, i, "frame") /\ ~ RunsIn(t, i, "fullscreen")
    BY <1>1, <1>2, <1>4 DEF Layers
  <2>5. \A i \in DOMAIN t : t[i].what = "modal" => ~ RunsIn(t, i, "modal")
    BY <1>1, <1>2, <1>4 DEF Layers
  <2>6. \A i \in DOMAIN t : t[i].what = "fullscreen" =>
          /\ "update" \in t[i].bits <=> ~ RunsIn(t, i, "fullscreen")
          /\ "delegate" \in t[i].bits <=> ~ RunsIn(t, i, "fullscreen")
    BY <1>1, <1>2, <1>4, <2>2 DEF Layers
  <2>7. Len(t) >= 1
    BY <1>1, LastLayer
  <2> QED BY <1>1, <2>3, <2>4, <2>5, <2>6, <2>7 DEF Layers
<1> QED BY <1>1, <1>3, <1>5 DEF Last

LEMMA PushLayer ==
  ASSUME NEW s, Layers(s), NEW e \in Layer, Placed(e), e.what # "loop",
         e.at \in {"messages", "start"},
         e.what = "frame" => ~ Has(s, "frame") /\ ~ Has(s, "fullscreen"),
         e.what = "modal" => ~ Has(s, "modal"),
         e.what = "fullscreen" => /\ "update" \in e.bits <=> ~ Has(s, "fullscreen")
                                  /\ "delegate" \in e.bits <=> ~ Has(s, "fullscreen"),
         NEW t, t = Append(s, e)
  PROVE  /\ Layers(t) /\ Len(t) = Len(s) + 1
         /\ \A w : Has(t, w) <=> Has(s, w) \/ w = e.what
         /\ Renders(t) <=> Renders(s)
         /\ GainHeld(t) <=> GainHeld(s)
         /\ LoseAlone(t) <=> LoseAlone(s)
<1> DEFINE n == Len(s)
<1>0. n \in Nat /\ n >= 1 /\ DOMAIN s = 1 .. n /\ s \in Seq(Layer)
  BY LastLayer DEF Layers
<1>1. t \in Seq(Layer) /\ Len(t) = n + 1 /\ DOMAIN t = 1 .. n + 1 /\ t[n + 1] = e
      /\ \A i \in 1 .. n : t[i] = s[i]
  BY <1>0
<1>2. \A i \in DOMAIN t : i = n + 1 \/ i \in DOMAIN s
  BY <1>0, <1>1
<1>3. n + 1 \in DOMAIN t /\ \A i \in DOMAIN s : i \in DOMAIN t /\ t[i] = s[i] /\ i < n + 1
  BY <1>0, <1>1
<1>4. \A w : RunsIn(t, n + 1, w) <=> Has(s, w)
  <2>1. \A i \in DOMAIN t : i < n + 1 => i \in DOMAIN s
    BY <1>0, <1>1
  <2> QED BY <1>3, <2>1 DEF RunsIn, Has
<1>5. \A i \in DOMAIN s : \A w : RunsIn(t, i, w) <=> RunsIn(s, i, w)
  <2>1. \A i \in DOMAIN s, j \in DOMAIN t : j < i => j \in DOMAIN s
    BY <1>0, <1>1
  <2> QED BY <1>3, <2>1 DEF RunsIn
<1>6. Layers(t)
  <2>1. \A i \in DOMAIN t : Placed(t[i]) /\ (t[i].what = "loop" <=> i = 1)
    <3>1. n + 1 # 1
      BY <1>0
    <3> QED BY <1>1, <1>2, <1>3, <3>1 DEF Layers
  <2>2. \A i \in DOMAIN t : t[i].what = "frame" =>
          ~ RunsIn(t, i, "frame") /\ ~ RunsIn(t, i, "fullscreen")
    BY <1>1, <1>2, <1>3, <1>4, <1>5 DEF Layers
  <2>3. \A i \in DOMAIN t : t[i].what = "modal" => ~ RunsIn(t, i, "modal")
    BY <1>1, <1>2, <1>3, <1>4, <1>5 DEF Layers
  <2>4. \A i \in DOMAIN t : t[i].what = "fullscreen" =>
          /\ "update" \in t[i].bits <=> ~ RunsIn(t, i, "fullscreen")
          /\ "delegate" \in t[i].bits <=> ~ RunsIn(t, i, "fullscreen")
    BY <1>1, <1>2, <1>3, <1>4, <1>5 DEF Layers
  <2>5. Len(t) >= 1
    BY <1>0, <1>1
  <2> QED BY <1>1, <2>1, <2>2, <2>3, <2>4, <2>5 DEF Layers
<1>7. \A w : Has(t, w) <=> Has(s, w) \/ w = e.what
  BY <1>1, <1>2, <1>3 DEF Has
<1>8. /\ Renders(t) <=> Renders(s)
      /\ GainHeld(t) <=> GainHeld(s)
      /\ LoseAlone(t) <=> LoseAlone(s)
  BY <1>1, <1>2, <1>3 DEF Renders, GainHeld, LoseAlone
<1> QED BY <1>1, <1>6, <1>7, <1>8

LEMMA PopLayer ==
  ASSUME NEW s, Layers(s), Last(s).what # "loop", NEW t, t = Front(s)
  PROVE  /\ Layers(t) /\ Len(t) = Len(s) - 1
         /\ \A w : Has(s, w) <=> Has(t, w) \/ w = Last(s).what
         /\ Last(s).what = "modal" => ~ Has(t, "modal")
         /\ Last(s).what = "frame" => ~ Has(t, "frame")
         /\ Last(s).what = "fullscreen" =>
              /\ "update" \in Last(s).bits <=> ~ Has(t, "fullscreen")
              /\ "delegate" \in Last(s).bits <=> ~ Has(t, "fullscreen")
         /\ Last(s).at \notin {"lose", "gain", "render"} =>
              /\ Renders(t) <=> Renders(s)
              /\ GainHeld(t) <=> GainHeld(s)
              /\ LoseAlone(t) <=> LoseAlone(s)
<1> DEFINE n == Len(s)
<1>0. n \in Nat /\ n >= 1 /\ DOMAIN s = 1 .. n /\ s \in Seq(Layer) /\ n \in DOMAIN s
      /\ Last(s) = s[n]
  BY LastLayer DEF Layers
<1>a. n # 1
  BY <1>0 DEF Layers
<1>1. t \in Seq(Layer) /\ Len(t) = n - 1 /\ DOMAIN t = 1 .. n - 1
      /\ \A i \in 1 .. n - 1 : t[i] = s[i]
  BY <1>0, <1>a DEF Front
<1>2. \A i \in DOMAIN s : i = n \/ i \in DOMAIN t
  BY <1>0, <1>1
<1>3. \A i \in DOMAIN t : i \in DOMAIN s /\ t[i] = s[i] /\ i < n
  BY <1>0, <1>1
<1>4. \A w : RunsIn(s, n, w) <=> Has(t, w)
  <2>1. \A i \in DOMAIN s : i < n => i \in DOMAIN t
    BY <1>0, <1>1
  <2> QED BY <1>3, <2>1 DEF RunsIn, Has
<1>5. \A i \in DOMAIN t : \A w : RunsIn(t, i, w) <=> RunsIn(s, i, w)
  <2>1. \A i \in DOMAIN t, j \in DOMAIN s : j < i => j \in DOMAIN t
    BY <1>0, <1>1
  <2> QED BY <1>3, <2>1 DEF RunsIn
<1>6. Layers(t)
  <2>1. \A i \in DOMAIN t : Placed(t[i]) /\ (t[i].what = "loop" <=> i = 1)
    BY <1>3 DEF Layers
  <2>2. \A i \in DOMAIN t : t[i].what = "frame" =>
          ~ RunsIn(t, i, "frame") /\ ~ RunsIn(t, i, "fullscreen")
    BY <1>3, <1>5 DEF Layers
  <2>3. \A i \in DOMAIN t : t[i].what = "modal" => ~ RunsIn(t, i, "modal")
    BY <1>3, <1>5 DEF Layers
  <2>4. \A i \in DOMAIN t : t[i].what = "fullscreen" =>
          /\ "update" \in t[i].bits <=> ~ RunsIn(t, i, "fullscreen")
          /\ "delegate" \in t[i].bits <=> ~ RunsIn(t, i, "fullscreen")
    BY <1>3, <1>5 DEF Layers
  <2>5. Len(t) >= 1
    BY <1>0, <1>1, <1>a
  <2> QED BY <1>1, <2>1, <2>2, <2>3, <2>4, <2>5 DEF Layers
<1>7. \A w : Has(s, w) <=> Has(t, w) \/ w = Last(s).what
  BY <1>0, <1>2, <1>3 DEF Has
<1>8. Last(s).at \notin {"lose", "gain", "render"} =>
        /\ Renders(t) <=> Renders(s)
        /\ GainHeld(t) <=> GainHeld(s)
        /\ LoseAlone(t) <=> LoseAlone(s)
  BY <1>0, <1>2, <1>3 DEF Renders, GainHeld, LoseAlone
<1>9. /\ Last(s).what = "modal" => ~ Has(t, "modal")
      /\ Last(s).what = "frame" => ~ Has(t, "frame")
      /\ Last(s).what = "fullscreen" =>
           /\ "update" \in Last(s).bits <=> ~ Has(t, "fullscreen")
           /\ "delegate" \in Last(s).bits <=> ~ Has(t, "fullscreen")
  BY <1>0, <1>4 DEF Layers
<1> QED BY <1>1, <1>6, <1>7, <1>8, <1>9

FlagsOK ==
  /\ running \in BOOLEAN /\ quit_posted \in BOOLEAN /\ is_updating \in BOOLEAN
  /\ is_update_enabled \in BOOLEAN /\ is_delegate_update_enabled \in BOOLEAN
  /\ win32_window_is_sizemove \in BOOLEAN /\ m_bRenderStarted \in BOOLEAN
  /\ s_restart \in BOOLEAN /\ window_active \in BOOLEAN /\ script_active \in BOOLEAN
  /\ m_window_active_changed \in SUBSET {"gain", "lose"}

GateInv ==
  /\ is_updating <=> Has(stack, "frame")
  /\ is_update_enabled <=> ~ Has(stack, "fullscreen")
  /\ is_delegate_update_enabled <=> ~ Has(stack, "fullscreen")
  /\ win32_window_is_sizemove <=> Has(stack, "modal")
  /\ m_bRenderStarted <=> Renders(stack)

\* The focus is lost, or a gain waits for the next frame.
Back == ~ window_active \/ "gain" \in m_window_active_changed

\* A loss that is still to be told is followed by the gain that cancels it.
FocusInv ==
  /\ "lose" \in m_window_active_changed => Back
  /\ LoseAlone(stack) => Back
  /\ ~ script_active => Back \/ GainHeld(stack)

AppIInv == FlagsOK /\ Layers(stack) /\ Len(stack) <= DepthBound /\ GateInv /\ FocusInv

LEMMA InitApp == AppInit => AppIInv
<1> SUFFICES ASSUME AppInit PROVE AppIInv
  OBVIOUS
<1> DEFINE e == Doing("loop", "before")
<1>1. stack = <<e>> /\ e \in Layer /\ e.what = "loop" /\ e.at = "before"
  BY DEF AppInit, Doing, Layer
<1>2. stack \in Seq(Layer) /\ Len(stack) = 1 /\ DOMAIN stack = {1} /\ stack[1] = e
  <2> HIDE DEF e
  <2> QED BY <1>1
<1>3. Layers(stack)
  <2> HIDE DEF e
  <2>1. \A i \in DOMAIN stack : stack[i].what = "loop" /\ i = 1 /\ stack[i].at = "before"
    BY <1>1, <1>2
  <2> QED BY <1>2, <2>1 DEF Layers, Placed
<1>4. Last(stack).what = "loop"
  BY <1>1, <1>2 DEF Last
<1>5. Len(stack) <= DepthBound
  BY <1>2, ApplicationAssumption
<1>6. FlagsOK
  BY DEF AppInit, FlagsOK
<1>7. GateInv
  BY <1>3, <1>4, TopLoop DEF AppInit, GateInv
<1>8. FocusInv
  BY <1>3, <1>4, TopLoop DEF AppInit, FocusInv, Back
<1> QED BY <1>3, <1>5, <1>6, <1>7, <1>8 DEF AppIInv

LEMMA AppInvOf == AppIInv => AppInv
<1> SUFFICES ASSUME AppIInv PROVE AppInv
  OBVIOUS
<1>0. Layers(stack) /\ FlagsOK /\ GateInv /\ FocusInv /\ Len(stack) <= DepthBound
  BY DEF AppIInv
<1>1. Len(stack) \in Nat /\ Len(stack) >= 1 /\ DOMAIN stack = 1 .. Len(stack) /\ 1 \in DOMAIN stack
  BY <1>0, LastLayer
<1>2. AppTypeOK
  <2>1. Head(stack).what = "loop"
    BY <1>0, <1>1 DEF Layers
  <2>2. \A i \in DOMAIN stack : stack[i].what \in {"loop", "modal", "fullscreen", "frame"}
    <3>1. \A i \in DOMAIN stack : stack[i] \in Layer
      BY <1>0 DEF Layers
    <3> QED BY <3>1 DEF Layer
  <2>3. Len(stack) \in 1 .. DepthBound
    BY <1>0, <1>1, ApplicationAssumption
  <2> QED BY <1>0, <2>1, <2>2, <2>3 DEF AppTypeOK, FlagsOK
<1>3. OneFrame
  BY <1>0 DEF Layers, RunsIn, OneFrame
<1>4. FlagsAgree
  <2>1. /\ is_updating = Within("frame")
        /\ win32_window_is_sizemove = Within("modal")
    BY <1>0 DEF GateInv, Has, Within, FlagsOK
  <2>2. /\ is_update_enabled = ~ Within("fullscreen")
        /\ is_delegate_update_enabled = is_update_enabled
    BY <1>0 DEF GateInv, Has, Within, FlagsOK
  <2>3. m_bRenderStarted =
          \E i \in DOMAIN stack : stack[i].what = "frame" /\ stack[i].at = "render"
    BY <1>0 DEF GateInv, Renders, FlagsOK
  <2> QED BY <2>1, <2>2, <2>3 DEF FlagsAgree
<1>5. GainReachesScript
  BY <1>0 DEF FocusInv, Back, GainHeld, GainReachesScript
<1> QED BY <1>2, <1>3, <1>4, <1>5 DEF AppInv

\* A step of what runs innermost: the same activity at another place.
LEMMA Moves ==
  ASSUME AppIInv, NEW e \in Layer, Placed(e), e.what = Top.what,
         e.what \in {"loop", "frame"}, stack' = [stack EXCEPT ![Len(stack)] = e]
  PROVE  /\ Layers(stack') /\ Len(stack') = Len(stack) /\ Last(stack') = e
         /\ Len(stack') <= DepthBound
         /\ \A w : Has(stack', w) <=> Has(stack, w)
  <1>1. Layers(stack) /\ Len(stack) <= DepthBound
    BY DEF AppIInv
  <1> QED BY <1>1, PutLayer DEF Top

\* A frame goes on.
LEMMA FrameMoves ==
  ASSUME AppIInv, Top.what = "frame", NEW at, NEW bits \in SUBSET {"lose", "gain", "update", "delegate"},
         NEW ok \in BOOLEAN,
         at \in {"start", "lose", "gain", "script", "checked", "render", "finish"},
         stack' = [stack EXCEPT ![Len(stack)] = [Top EXCEPT !.at = at, !.bits = bits, !.ok = ok]],
         FlagsOK', UNCHANGED <<gateVars, win32_window_is_sizemove>>,
         m_bRenderStarted' <=> at = "render",
         "lose" \in m_window_active_changed' => Back',
         at = "lose" /\ "lose" \in bits /\ "gain" \notin bits => Back',
         ~ script_active' => Back' \/ (at \in {"lose", "gain"} /\ "gain" \in bits)
  PROVE  AppIInv'
<1> DEFINE e == [Top EXCEPT !.at = at, !.bits = bits, !.ok = ok]
<1>0. Top \in Layer /\ Layers(stack) /\ GateInv
  BY LastLayer DEF AppIInv, Top
<1>1. e \in Layer /\ e.what = "frame" /\ e.at = at /\ e.bits = bits /\ Placed(e)
  BY <1>0 DEF Layer, Placed
<1>2. stack' = [stack EXCEPT ![Len(stack)] = e]
  OBVIOUS
<1> HIDE DEF e
<1>3. /\ Layers(stack') /\ Len(stack') = Len(stack) /\ Last(stack') = e
      /\ Len(stack') <= DepthBound
      /\ \A w : Has(stack', w) <=> Has(stack, w)
  BY <1>1, <1>2, Moves
<1>4. /\ Renders(stack') <=> at = "render"
      /\ GainHeld(stack') <=> at \in {"lose", "gain"} /\ "gain" \in bits
      /\ LoseAlone(stack') <=> at = "lose" /\ "lose" \in bits /\ "gain" \notin bits
  BY <1>1, <1>3, TopFrame
<1>5. GateInv'
  BY <1>0, <1>3, <1>4 DEF GateInv, gateVars
<1>6. FocusInv'
  BY <1>4 DEF FocusInv
<1> QED BY <1>3, <1>5, <1>6 DEF AppIInv

\* The loop goes on.
LEMMA LoopMoves ==
  ASSUME AppIInv, Top.what = "loop", NEW at \in {"before", "messages", "ended"}, Goes(at),
         FlagsOK', UNCHANGED <<gateVars, win32_window_is_sizemove, focusVars, m_bRenderStarted>>
  PROVE  AppIInv'
<1> DEFINE e == [Top EXCEPT !.at = at]
<1>0. Top \in Layer /\ Layers(stack) /\ GateInv /\ FocusInv /\ Top = stack[Len(stack)]
  BY LastLayer DEF AppIInv, Top
<1>1. e \in Layer /\ e.what = "loop" /\ Placed(e)
  BY <1>0 DEF Layer, Placed
<1>2. stack' = [stack EXCEPT ![Len(stack)] = e]
  BY <1>0 DEF Goes
<1> HIDE DEF e
<1>3. /\ Layers(stack') /\ Len(stack') = Len(stack) /\ Last(stack') = e
      /\ Len(stack') <= DepthBound
      /\ \A w : Has(stack', w) <=> Has(stack, w)
  BY <1>1, <1>2, Moves
<1>4. /\ ~ Renders(stack') /\ ~ GainHeld(stack') /\ ~ LoseAlone(stack')
      /\ ~ Renders(stack) /\ ~ GainHeld(stack) /\ ~ LoseAlone(stack)
  BY <1>0, <1>1, <1>3, TopLoop DEF Top
<1>5. GateInv'
  BY <1>0, <1>3, <1>4 DEF GateInv, gateVars
<1>6. FocusInv'
  BY <1>0, <1>4 DEF FocusInv, Back, focusVars
<1> QED BY <1>3, <1>5, <1>6 DEF AppIInv

\* A step that leaves the stack and its gates alone.
LEMMA SameStack ==
  ASSUME AppIInv, UNCHANGED <<stack, gateVars, win32_window_is_sizemove, m_bRenderStarted>>,
         FlagsOK', FocusInv'
  PROVE  AppIInv'
<1>1. GateInv'
  BY DEF AppIInv, GateInv, gateVars
<1> QED BY <1>1 DEF AppIInv

LEMMA TopFacts ==
  ASSUME AppIInv
  PROVE  /\ Top \in Layer /\ Top = Last(stack) /\ Top = stack[Len(stack)]
         /\ FlagsOK /\ Layers(stack) /\ Len(stack) <= DepthBound /\ GateInv /\ FocusInv
         /\ Len(stack) \in Nat /\ Len(stack) \in DOMAIN stack
BY LastLayer DEF AppIInv, Top

LEMMA FrameFacts ==
  ASSUME AppIInv, Top.what = "frame"
  PROVE  /\ m_bRenderStarted <=> Top.at = "render"
         /\ Top.at = "lose" /\ "lose" \in Top.bits /\ "gain" \notin Top.bits => Back
         /\ ~ script_active => Back \/ (Top.at \in {"lose", "gain"} /\ "gain" \in Top.bits)
<1>1. Layers(stack) /\ Last(stack) = Top
  BY TopFacts
<1>2. /\ Renders(stack) <=> Top.at = "render"
      /\ GainHeld(stack) <=> Top.at \in {"lose", "gain"} /\ "gain" \in Top.bits
      /\ LoseAlone(stack) <=> /\ Top.at = "lose" /\ "lose" \in Top.bits
                              /\ "gain" \notin Top.bits
  BY <1>1, TopFrame
<1> QED BY <1>2, TopFacts DEF GateInv, FocusInv

LEMMA StartFrame ==
  ASSUME AppIInv, ~ is_updating, is_update_enabled, Len(stack) < DepthBound, beginUpdate,
         UNCHANGED <<running, quit_posted, is_update_enabled, is_delegate_update_enabled,
                     win32_window_is_sizemove, focusVars, m_bRenderStarted, s_restart>>
  PROVE  AppIInv'
<1> DEFINE e == Doing("frame", "start")
<1>1. e \in Layer /\ Placed(e) /\ e.what = "frame" /\ e.at = "start"
  BY DEF Doing, Layer, Placed
<1>2. stack' = Append(stack, e) /\ is_updating' = TRUE
  BY DEF beginUpdate
<1> HIDE DEF e
<1>3. ~ Has(stack, "frame") /\ ~ Has(stack, "fullscreen")
  BY TopFacts DEF GateInv
<1>4. /\ Layers(stack') /\ Len(stack') = Len(stack) + 1
      /\ \A w : Has(stack', w) <=> Has(stack, w) \/ w = "frame"
      /\ Renders(stack') <=> Renders(stack)
      /\ GainHeld(stack') <=> GainHeld(stack)
      /\ LoseAlone(stack') <=> LoseAlone(stack)
  BY <1>1, <1>2, <1>3, TopFacts, PushLayer
<1>5. Len(stack') <= DepthBound
  BY <1>4, TopFacts, ApplicationAssumption
<1>6. FlagsOK'
  BY <1>2, TopFacts DEF FlagsOK, focusVars
<1>7. GateInv'
  BY <1>2, <1>4, TopFacts DEF GateInv
<1>8. FocusInv'
  BY <1>4, TopFacts DEF FocusInv, Back, focusVars
<1> QED BY <1>4, <1>5, <1>6, <1>7, <1>8 DEF AppIInv

LEMMA FrameEnds == ASSUME AppIInv, frameFinish PROVE AppIInv'
<1> DEFINE outer == Front(stack)
<1>0. Top.what = "frame" /\ Top.at = "finish" /\ Top \in Layer /\ Top.ok \in BOOLEAN
  BY TopFacts DEF frameFinish, Is, Layer
<1>1. /\ Layers(outer) /\ Len(outer) = Len(stack) - 1 /\ ~ Has(outer, "frame")
      /\ \A w : Has(stack, w) <=> Has(outer, w) \/ w = "frame"
      /\ Renders(outer) <=> Renders(stack)
      /\ GainHeld(outer) <=> GainHeld(stack)
      /\ LoseAlone(outer) <=> LoseAlone(stack)
  BY <1>0, TopFacts, PopLayer
<1>2. /\ is_updating' = FALSE
      /\ UNCHANGED <<is_update_enabled, is_delegate_update_enabled, win32_window_is_sizemove,
                     focusVars, m_bRenderStarted, s_restart>>
  BY DEF frameFinish
<1>3. /\ Layers(stack') /\ Len(stack') = Len(outer)
      /\ \A w : Has(stack', w) <=> Has(outer, w)
      /\ Renders(stack') <=> Renders(outer)
      /\ GainHeld(stack') <=> GainHeld(outer)
      /\ LoseAlone(stack') <=> LoseAlone(outer)
      /\ running' \in BOOLEAN /\ quit_posted' \in BOOLEAN
  <2>1. CASE Last(outer).what = "loop"
    <3> DEFINE e == [Last(outer) EXCEPT !.at = IF Top.ok THEN "before" ELSE "ended"]
    <3>1. stack' = [outer EXCEPT ![Len(outer)].at = IF Top.ok THEN "before" ELSE "ended"]
          /\ running' = (running /\ Top.ok) /\ UNCHANGED quit_posted
      BY <2>1 DEF frameFinish
    <3>2. Last(outer) \in Layer /\ Last(outer) = outer[Len(outer)]
      BY <1>1, LastLayer
    <3>3. e \in Layer /\ Placed(e) /\ e.what = "loop"
      BY <2>1, <3>2 DEF Layer, Placed
    <3>4. stack' = [outer EXCEPT ![Len(outer)] = e]
      BY <3>1, <3>2
    <3> HIDE DEF e, outer
    <3>5. Layers(stack') /\ Len(stack') = Len(outer) /\ Last(stack') = e
          /\ \A w : Has(stack', w) <=> Has(outer, w)
      BY <1>1, <2>1, <3>3, <3>4, PutLayer
    <3>6. /\ ~ Renders(stack') /\ ~ GainHeld(stack') /\ ~ LoseAlone(stack')
          /\ ~ Renders(outer) /\ ~ GainHeld(outer) /\ ~ LoseAlone(outer)
      BY <1>1, <2>1, <3>3, <3>5, TopLoop
    <3>7. running' \in BOOLEAN /\ quit_posted' \in BOOLEAN
      BY <3>1, TopFacts DEF FlagsOK
    <3> QED BY <3>5, <3>6, <3>7
  <2>2. CASE Last(outer).what # "loop"
    <3>1. stack' = outer /\ Asks(~ Top.ok) /\ UNCHANGED running
      BY <2>2 DEF frameFinish
    <3>2. running' \in BOOLEAN /\ quit_posted' \in BOOLEAN
      BY <3>1, TopFacts DEF FlagsOK, Asks
    <3> QED BY <3>1, <3>2, <1>1
  <2> QED BY <2>1, <2>2
<1> HIDE DEF outer
<1>5. Len(stack') <= DepthBound
  BY <1>1, <1>3, TopFacts, ApplicationAssumption
<1>6. FlagsOK'
  BY <1>2, <1>3, TopFacts DEF FlagsOK, focusVars
<1>7. GateInv'
  BY <1>1, <1>2, <1>3, TopFacts DEF GateInv
<1>8. FocusInv'
  BY <1>1, <1>2, <1>3, TopFacts DEF FocusInv, Back, focusVars
<1> QED BY <1>3, <1>5, <1>6, <1>7, <1>8 DEF AppIInv

LEMMA FrameSteps ==
  ASSUME AppIInv,
         \/ frameStart \/ frameFocus("lose", "gain") \/ frameFocus("gain", "script")
         \/ frameScript \/ frameRender \/ frameRendered
  PROVE  AppIInv'
<1>a. Top.what = "frame"
  BY DEF frameStart, frameFocus, frameScript, frameRender, frameRendered, Is
<1>0. /\ FlagsOK /\ FocusInv /\ Top.what = "frame" /\ stack[Len(stack)] = Top
      /\ m_bRenderStarted <=> Top.at = "render"
      /\ Top.at = "lose" /\ "lose" \in Top.bits /\ "gain" \notin Top.bits => Back
      /\ ~ script_active => Back \/ (Top.at \in {"lose", "gain"} /\ "gain" \in Top.bits)
  BY <1>a, TopFacts, FrameFacts
<1>1. /\ Top \in Layer /\ Top.ok \in BOOLEAN
      /\ Top.bits \in SUBSET {"lose", "gain", "update", "delegate"}
  BY TopFacts DEF Layer
<1>2. \A at, ok : [Top EXCEPT !.at = at, !.ok = @ /\ ok]
        = [Top EXCEPT !.at = at, !.bits = Top.bits, !.ok = Top.ok /\ ok]
  BY <1>1 DEF Layer
<1>3. \A at : \A ok \in BOOLEAN : Steps(at, ok) =>
        \E r \in BOOLEAN : stack' = [stack EXCEPT ![Len(stack)] =
                             [Top EXCEPT !.at = at, !.bits = Top.bits, !.ok = r]]
  BY <1>1, <1>2 DEF Steps
<1>4. \A exit \in BOOLEAN : Asks(exit) => quit_posted' \in BOOLEAN
  BY <1>0 DEF Asks, FlagsOK
<1>r. \A called, ok : ok \in Returns(called) => ok \in BOOLEAN
  BY DEF Returns
<1>5. CASE frameStart
  <2>1. /\ quit_posted' \in BOOLEAN /\ m_window_active_changed' \in SUBSET {"gain", "lose"}
        /\ UNCHANGED <<running, gateVars, win32_window_is_sizemove, window_active,
                       script_active, m_bRenderStarted, s_restart>>
    BY <1>5, <1>4, <1>0 DEF frameStart, FlagsOK
  <2>2. FlagsOK'
    BY <2>1, <1>0 DEF FlagsOK, gateVars
  <2>3. Top.at = "start" /\ ~ m_bRenderStarted
    BY <1>5, <1>0 DEF frameStart, Is
  <2>4. CASE s_restart
    <3>1. Steps("checked", FALSE) /\ UNCHANGED m_window_active_changed
      BY <1>5, <2>4 DEF frameStart
    <3>2. PICK r \in BOOLEAN : stack' = [stack EXCEPT ![Len(stack)] =
                                 [Top EXCEPT !.at = "checked", !.bits = Top.bits, !.ok = r]]
      BY <3>1, <1>3
    <3>3. /\ "lose" \in m_window_active_changed' => Back'
          /\ ~ script_active' => Back'
      BY <2>1, <2>3, <3>1, <1>0 DEF Back, FocusInv
    <3>4. m_bRenderStarted' <=> "checked" = "render"
      BY <2>1, <2>3
    <3>5. UNCHANGED <<gateVars, win32_window_is_sizemove>>
      BY <2>1
    <3> QED
      BY <2>2, <3>2, <3>3, <3>4, <3>5, <1>0, <1>1, FrameMoves
  <2>5. CASE ~ s_restart
    <3>1. /\ m_window_active_changed' = {}
          /\ stack' = [stack EXCEPT ![Len(stack)] =
                         [Top EXCEPT !.at = "lose", !.bits = m_window_active_changed]]
      BY <1>5, <2>5 DEF frameStart
    <3>2. [Top EXCEPT !.at = "lose", !.bits = m_window_active_changed]
          = [Top EXCEPT !.at = "lose", !.bits = m_window_active_changed, !.ok = Top.ok]
      BY <1>1 DEF Layer
    <3>3. stack' = [stack EXCEPT ![Len(stack)] =
            [Top EXCEPT !.at = "lose", !.bits = m_window_active_changed, !.ok = Top.ok]]
      BY <3>1, <3>2
    <3>4. m_window_active_changed \in SUBSET {"lose", "gain", "update", "delegate"}
      BY <1>0 DEF FlagsOK
    <3>5. /\ "lose" \in m_window_active_changed' => Back'
          /\ "lose" \in m_window_active_changed /\ "gain" \notin m_window_active_changed => Back'
          /\ ~ script_active' => Back' \/ "gain" \in m_window_active_changed
      BY <2>1, <2>3, <3>1, <1>0 DEF FocusInv, Back
    <3> QED
      BY <2>1, <2>2, <2>3, <3>3, <3>4, <3>5, <1>0, <1>1, FrameMoves
  <2> QED BY <2>4, <2>5
<1>6. ASSUME NEW at, NEW next, frameFocus(at, next),
             (at = "lose" /\ next = "gain") \/ (at = "gain" /\ next = "script")
      PROVE  AppIInv'
  <2>1. PICK ok \in Returns(at \in Top.bits) : Steps(next, ok) /\ Asks(~ ok)
    BY <1>6 DEF frameFocus
  <2>2. PICK r \in BOOLEAN : stack' = [stack EXCEPT ![Len(stack)] =
                               [Top EXCEPT !.at = next, !.bits = Top.bits, !.ok = r]]
    <3>1. ok \in BOOLEAN
      BY <2>1, <1>r
    <3> QED BY <2>1, <1>3, <3>1
  <2>3. /\ script_active' = IF at \in Top.bits THEN at = "gain" ELSE script_active
        /\ UNCHANGED <<running, gateVars, win32_window_is_sizemove, window_active,
                       m_window_active_changed, m_bRenderStarted, s_restart>>
        /\ Top.at = at
    BY <1>6 DEF frameFocus, Is
  <2>4. quit_posted' \in BOOLEAN /\ script_active' \in BOOLEAN
    BY <2>1, <2>3, <1>4, <1>r, <1>0 DEF FlagsOK
  <2>5. FlagsOK'
    BY <2>3, <2>4, <1>0 DEF FlagsOK, gateVars
  <2>6. (Back' <=> Back) /\ ("lose" \in m_window_active_changed => Back)
    BY <2>3, <1>0 DEF Back, FocusInv
  <2>7. ~ script_active' => Back' \/ (next \in {"lose", "gain"} /\ "gain" \in Top.bits)
    BY <2>3, <2>6, <1>6, <1>0 DEF FlagsOK
  <2> QED
    BY <2>2, <2>3, <2>5, <2>6, <2>7, <1>6, <1>0, <1>1, FrameMoves DEF Layer
<1>7. CASE frameScript \/ frameRender \/ frameRendered
  <2>1. PICK at \in {"checked", "render", "finish"}, ok \in BOOLEAN :
          Steps(at, ok) /\ (m_bRenderStarted' <=> at = "render")
    <3>1. CASE frameScript
      <4>1. Top.at = "script" /\ UNCHANGED m_bRenderStarted
        BY <3>1 DEF frameScript, Is
      <4>2. PICK ok \in Returns(Top.ok) : Steps("checked", ok)
        BY <3>1 DEF frameScript
      <4>3. ok \in BOOLEAN
        BY <4>2, <1>r
      <4> QED BY <4>1, <4>2, <4>3, <1>0
    <3>2. CASE frameRender
      <4>1. Top.at = "checked" /\ ~ m_bRenderStarted
        BY <3>2, <1>0 DEF frameRender, Is
      <4> QED BY <4>1, <3>2 DEF frameRender
    <3>3. CASE frameRendered
      <4>1. PICK ok \in Returns(TRUE) : Steps("finish", ok)
        BY <3>3 DEF frameRendered
      <4>2. m_bRenderStarted' = FALSE
        BY <3>3 DEF frameRendered
      <4>3. ok \in BOOLEAN
        BY <4>1, <1>r
      <4> QED BY <4>1, <4>2, <4>3
    <3> QED BY <1>7, <3>1, <3>2, <3>3
  <2>2. PICK r \in BOOLEAN : stack' = [stack EXCEPT ![Len(stack)] =
                               [Top EXCEPT !.at = at, !.bits = Top.bits, !.ok = r]]
    BY <2>1, <1>3
  <2>3. UNCHANGED <<running, gateVars, win32_window_is_sizemove, focusVars, s_restart>>
    BY <1>7 DEF frameScript, frameRender, frameRendered
  <2>4. m_bRenderStarted' \in BOOLEAN
    BY <1>7, <1>0 DEF frameScript, frameRender, frameRendered, FlagsOK
  <2>5. quit_posted' \in BOOLEAN
    <3>1. \E exit : Asks(exit)
      BY <1>7 DEF frameScript, frameRender, frameRendered
    <3> QED BY <3>1, <1>0 DEF Asks, FlagsOK
  <2>6. FlagsOK'
    BY <2>3, <2>4, <2>5, <1>0 DEF FlagsOK, gateVars, focusVars
  <2>7. Top.at \notin {"lose", "gain"}
    BY <1>7 DEF frameScript, frameRender, frameRendered, Is
  <2>8. /\ "lose" \in m_window_active_changed' => Back'
        /\ ~ script_active' => Back'
    BY <2>3, <2>7, <1>0 DEF FocusInv, Back, focusVars
  <2> QED
    BY <2>1, <2>2, <2>3, <2>6, <2>8, <1>0, <1>1, FrameMoves DEF Layer
<1> QED BY <1>5, <1>6, <1>7

LEMMA LoopSteps ==
  ASSUME AppIInv, runBeforeUpdate \/ takeQuit \/ noMoreMessages
  PROVE  AppIInv'
<1>0. Top.what = "loop" /\ Layers(stack) /\ FlagsOK /\ FocusInv /\ GateInv /\ Last(stack) = Top
  BY TopFacts DEF runBeforeUpdate, takeQuit, noMoreMessages, Is
<1>1. CASE runBeforeUpdate
  <2>1. /\ Goes("messages")
        /\ UNCHANGED <<running, quit_posted, gateVars, win32_window_is_sizemove,
                       focusVars, m_bRenderStarted, s_restart>>
    BY <1>1 DEF runBeforeUpdate
  <2>2. FlagsOK'
    BY <2>1, <1>0 DEF FlagsOK, gateVars, focusVars
  <2> QED BY <1>0, <2>1, <2>2, LoopMoves
<1>2. CASE takeQuit
  <2>1. /\ running' = FALSE /\ quit_posted' = FALSE
        /\ UNCHANGED <<stack, gateVars, win32_window_is_sizemove, focusVars,
                       m_bRenderStarted, s_restart>>
    BY <1>2 DEF takeQuit, quitTaken
  <2>2. FlagsOK'
    BY <2>1, <1>0 DEF FlagsOK, gateVars, focusVars
  <2>3. FocusInv'
    BY <2>1, <1>0 DEF FocusInv, Back, focusVars
  <2> QED BY <2>1, <2>2, <2>3, SameStack
<1>3. CASE noMoreMessages
  <2>0. UNCHANGED <<running, quit_posted, is_update_enabled, is_delegate_update_enabled,
                    win32_window_is_sizemove, focusVars, m_bRenderStarted, s_restart>>
    BY <1>3 DEF noMoreMessages
  <2>1. CASE running /\ is_update_enabled /\ ~ is_updating
    <3>1. beginUpdate
      BY <1>3, <2>1 DEF noMoreMessages
    <3>2. Len(stack) < DepthBound
      <4>1. Len(stack) = 1
        BY <1>0, TopLoop
      <4>2. DepthBound \in Nat /\ DepthBound > 1
        BY ApplicationAssumption
      <4> QED BY <4>1, <4>2
    <3> QED BY <2>0, <2>1, <3>1, <3>2, StartFrame
  <2>2. CASE ~ (running /\ is_update_enabled /\ ~ is_updating)
    <3>1. (Goes("ended") \/ Goes("before")) /\ UNCHANGED is_updating
      BY <1>3, <2>2 DEF noMoreMessages
    <3>2. UNCHANGED <<gateVars, win32_window_is_sizemove, focusVars, m_bRenderStarted>>
      BY <2>0, <3>1 DEF gateVars
    <3>3. FlagsOK'
      BY <2>0, <3>2, <1>0 DEF FlagsOK, gateVars, focusVars
    <3> QED BY <1>0, <3>1, <3>2, <3>3, LoopMoves
  <2> QED BY <2>1, <2>2
<1> QED BY <1>1, <1>2, <1>3

\* A modal loop or a transition begins.
LEMMA Opens ==
  ASSUME AppIInv, WM_ENTERSIZEMOVE \/ setFullscreenState PROVE AppIInv'
<1>0. Layers(stack) /\ FlagsOK /\ FocusInv /\ GateInv /\ Len(stack) \in Nat
  BY TopFacts
<1>1. PICK e \in Layer :
        /\ stack' = Append(stack, e) /\ Len(stack) < DepthBound
        /\ e.at = "messages" /\ e.what \in {"modal", "fullscreen"}
        /\ e.what = "modal" <=> WM_ENTERSIZEMOVE
        /\ e.what = "fullscreen" => /\ "update" \in e.bits <=> is_update_enabled
                                    /\ "delegate" \in e.bits <=> is_delegate_update_enabled
                                    /\ setFullscreenState
  <2>1. CASE WM_ENTERSIZEMOVE
    <3> DEFINE e == Doing("modal", "messages")
    <3>1. e \in Layer /\ e.at = "messages" /\ e.what = "modal"
      BY DEF Doing, Layer
    <3>2. stack' = Append(stack, e) /\ Len(stack) < DepthBound
      BY <2>1 DEF WM_ENTERSIZEMOVE, Entered
    <3> HIDE DEF e
    <3> QED BY <2>1, <3>1, <3>2
  <2>2. CASE ~ WM_ENTERSIZEMOVE /\ setFullscreenState
    <3> DEFINE bits == (IF is_update_enabled THEN {"update"} ELSE {})
                       \cup (IF is_delegate_update_enabled THEN {"delegate"} ELSE {})
               e == [Doing("fullscreen", "messages") EXCEPT !.bits = bits]
    <3>1. e \in Layer /\ e.at = "messages" /\ e.what = "fullscreen" /\ e.bits = bits
      BY DEF Doing, Layer
    <3>2. stack' = Append(stack, e) /\ Len(stack) < DepthBound
      BY <2>2 DEF setFullscreenState, Entered
    <3>3. /\ "update" \in bits <=> is_update_enabled
          /\ "delegate" \in bits <=> is_delegate_update_enabled
      OBVIOUS
    <3> HIDE DEF e, bits
    <3> QED BY <2>2, <3>1, <3>2, <3>3
  <2> QED BY <2>1, <2>2
<1>2. /\ Placed(e) /\ e.what # "loop" /\ e.what # "frame"
      /\ e.what = "modal" => ~ Has(stack, "modal")
      /\ e.what = "fullscreen" => /\ "update" \in e.bits <=> ~ Has(stack, "fullscreen")
                                  /\ "delegate" \in e.bits <=> ~ Has(stack, "fullscreen")
  <2>1. e.what = "modal" => ~ win32_window_is_sizemove
    BY <1>1 DEF WM_ENTERSIZEMOVE
  <2> QED BY <1>0, <1>1, <2>1 DEF GateInv, Placed
<1>3. /\ Layers(stack') /\ Len(stack') = Len(stack) + 1
      /\ \A w : Has(stack', w) <=> Has(stack, w) \/ w = e.what
      /\ Renders(stack') <=> Renders(stack)
      /\ GainHeld(stack') <=> GainHeld(stack)
      /\ LoseAlone(stack') <=> LoseAlone(stack)
  BY <1>0, <1>1, <1>2, PushLayer
<1>4. Len(stack') <= DepthBound
  BY <1>0, <1>1, <1>3, ApplicationAssumption
<1>5. UNCHANGED <<running, is_updating, focusVars, m_bRenderStarted, s_restart, quit_posted>>
  BY <1>1 DEF WM_ENTERSIZEMOVE, setFullscreenState, gateVars
<1>6. CASE e.what = "modal"
  <2>1. /\ win32_window_is_sizemove' = TRUE
        /\ UNCHANGED <<is_update_enabled, is_delegate_update_enabled>>
    BY <1>1, <1>6 DEF WM_ENTERSIZEMOVE, gateVars
  <2>2. FlagsOK' /\ GateInv'
    BY <1>0, <1>3, <1>5, <1>6, <2>1 DEF FlagsOK, GateInv, focusVars
  <2> QED BY <2>2, <1>0, <1>3, <1>4, <1>5 DEF AppIInv, FocusInv, Back, focusVars
<1>7. CASE e.what = "fullscreen"
  <2>1. /\ UNCHANGED win32_window_is_sizemove
        /\ is_update_enabled' = FALSE /\ is_delegate_update_enabled' = FALSE
    BY <1>1, <1>7 DEF setFullscreenState
  <2>2. FlagsOK' /\ GateInv'
    BY <1>0, <1>3, <1>5, <1>7, <2>1 DEF FlagsOK, GateInv, focusVars
  <2> QED BY <2>2, <1>0, <1>3, <1>4, <1>5 DEF AppIInv, FocusInv, Back, focusVars
<1> QED BY <1>1, <1>6, <1>7

\* The innermost one is over.
LEMMA Closes ==
  ASSUME AppIInv, WM_EXITSIZEMOVE \/ setFullscreenStateReturns PROVE AppIInv'
<1>0. /\ Layers(stack) /\ FlagsOK /\ FocusInv /\ GateInv /\ Len(stack) \in Nat
      /\ Len(stack) <= DepthBound /\ Last(stack) = Top /\ Len(stack) \in DOMAIN stack
      /\ Top = stack[Len(stack)]
  BY TopFacts
<1>1. Top.what \in {"modal", "fullscreen"} /\ stack' = Front(stack)
  BY DEF WM_EXITSIZEMOVE, setFullscreenStateReturns
<1>2. Top.at = "messages"
  BY <1>0, <1>1 DEF Layers, Placed
<1>3. /\ Layers(stack') /\ Len(stack') = Len(stack) - 1
      /\ \A w : Has(stack, w) <=> Has(stack', w) \/ w = Top.what
      /\ Top.what = "modal" => ~ Has(stack', "modal")
      /\ Top.what = "fullscreen" =>
           /\ "update" \in Top.bits <=> ~ Has(stack', "fullscreen")
           /\ "delegate" \in Top.bits <=> ~ Has(stack', "fullscreen")
      /\ Renders(stack') <=> Renders(stack)
      /\ GainHeld(stack') <=> GainHeld(stack)
      /\ LoseAlone(stack') <=> LoseAlone(stack)
  BY <1>0, <1>1, <1>2, PopLayer
<1>4. Len(stack') <= DepthBound
  BY <1>0, <1>3, ApplicationAssumption
<1>5. UNCHANGED <<running, is_updating, focusVars, m_bRenderStarted, s_restart, quit_posted>>
  BY DEF WM_EXITSIZEMOVE, setFullscreenStateReturns, gateVars
<1>6. CASE Top.what = "modal"
  <2>1. /\ win32_window_is_sizemove' = FALSE
        /\ UNCHANGED <<is_update_enabled, is_delegate_update_enabled>>
    BY <1>6 DEF WM_EXITSIZEMOVE, setFullscreenStateReturns, gateVars
  <2>2. FlagsOK' /\ GateInv'
    BY <1>0, <1>3, <1>5, <1>6, <2>1 DEF FlagsOK, GateInv, focusVars
  <2> QED BY <2>2, <1>0, <1>3, <1>4, <1>5 DEF AppIInv, FocusInv, Back, focusVars
<1>7. CASE Top.what = "fullscreen"
  <2>1. /\ UNCHANGED win32_window_is_sizemove
        /\ is_update_enabled' = ("update" \in Top.bits)
        /\ is_delegate_update_enabled' = ("delegate" \in Top.bits)
    BY <1>7 DEF WM_EXITSIZEMOVE, setFullscreenStateReturns
  <2>2. is_update_enabled' \in BOOLEAN /\ is_delegate_update_enabled' \in BOOLEAN
    BY <2>1
  <2>3. FlagsOK'
    BY <1>0, <1>5, <2>1, <2>2 DEF FlagsOK, focusVars
  <2>4. GateInv'
    BY <1>0, <1>3, <1>5, <1>7, <2>1 DEF GateInv
  <2> QED BY <2>3, <2>4, <1>0, <1>3, <1>4, <1>5 DEF AppIInv, FocusInv, Back, focusVars
<1> QED BY <1>1, <1>6, <1>7

LEMMA AppStep == AppIInv /\ [AppNext]_appVars => AppIInv'
<1> SUFFICES ASSUME AppIInv, [AppNext]_appVars PROVE AppIInv'
  OBVIOUS
<1>0. FlagsOK /\ FocusInv
  BY TopFacts
<1>1. CASE runBeforeUpdate \/ takeQuit \/ noMoreMessages
  BY <1>1, LoopSteps
<1>2. CASE \/ frameStart \/ frameFocus("lose", "gain") \/ frameFocus("gain", "script")
           \/ frameScript \/ frameRender \/ frameRendered
  BY <1>2, FrameSteps
<1>3. CASE frameFinish
  BY <1>3, FrameEnds
<1>4. CASE WM_EXITSIZEMOVE \/ setFullscreenStateReturns
  BY <1>4, Closes
<1>5. CASE WM_PAINT
  BY <1>5, StartFrame DEF WM_PAINT
<1>6. CASE RestartWithCommandLineArguments
  <2>1. /\ s_restart' = TRUE
        /\ UNCHANGED <<stack, running, quit_posted, gateVars, win32_window_is_sizemove,
                       focusVars, m_bRenderStarted>>
    BY <1>6 DEF RestartWithCommandLineArguments
  <2>2. FlagsOK'
    BY <2>1, <1>0 DEF FlagsOK, gateVars, focusVars
  <2>3. FocusInv'
    BY <2>1, <1>0 DEF FocusInv, Back, focusVars
  <2> QED BY <2>1, <2>2, <2>3, SameStack
<1>7. ASSUME NEW active \in BOOLEAN, WM_ACTIVATEAPP(active) PROVE AppIInv'
  <2>1. /\ window_active' = active /\ window_active # active
        /\ m_window_active_changed' =
             m_window_active_changed \cup {IF active THEN "gain" ELSE "lose"}
        /\ UNCHANGED <<stack, running, quit_posted, gateVars, win32_window_is_sizemove,
                       script_active, m_bRenderStarted, s_restart>>
    BY <1>7 DEF WM_ACTIVATEAPP
  <2>2. FlagsOK'
    BY <2>1, <1>0, <1>7 DEF FlagsOK, gateVars
  <2>3. Back'
    BY <2>1, <1>7 DEF Back
  <2>4. FocusInv'
    BY <2>3 DEF FocusInv
  <2> QED BY <2>1, <2>2, <2>4, SameStack
<1>8. CASE WM_CLOSE
  <2>1. /\ quit_posted' = TRUE
        /\ UNCHANGED <<stack, running, gateVars, win32_window_is_sizemove, focusVars,
                       m_bRenderStarted, s_restart>>
    BY <1>8 DEF WM_CLOSE
  <2>2. FlagsOK'
    BY <2>1, <1>0 DEF FlagsOK, gateVars, focusVars
  <2>3. FocusInv'
    BY <2>1, <1>0 DEF FocusInv, Back, focusVars
  <2> QED BY <2>1, <2>2, <2>3, SameStack
<1>9. CASE WM_ENTERSIZEMOVE \/ setFullscreenState
  BY <1>9, Opens
<1>10. CASE UNCHANGED appVars
  <2>1. UNCHANGED <<stack, running, quit_posted, gateVars, win32_window_is_sizemove,
                    focusVars, m_bRenderStarted, s_restart>>
    BY <1>10 DEF appVars
  <2>2. FlagsOK'
    BY <2>1, <1>0 DEF FlagsOK, gateVars, focusVars
  <2>3. FocusInv'
    BY <2>1, <1>0 DEF FocusInv, Back, focusVars
  <2> QED BY <2>1, <2>2, <2>3, SameStack
<1> QED
  BY <1>1, <1>2, <1>3, <1>4, <1>5, <1>6, <1>7, <1>8, <1>9, <1>10 DEF AppNext, Proceeds

\* What a window does with typed text, when scripts insert only code points of
\* one byte, and with frames in modal loops and fullscreen transitions.
THEOREM WindowConsistent ==
  ASSUME OneByteInserted PROVE TextSpec /\ AppSpec => []WindowInv
<1>1. TextInit => TextInv
  BY InitText
<1>2. TextInv /\ [TextNext]_textVars => TextInv'
  BY TextStep
<1>3. TextSpec => []TextInv
  BY <1>1, <1>2, PTL DEF TextSpec
<1>4. AppSpec => []AppIInv
  BY InitApp, AppStep, PTL DEF AppSpec
<1>5. AppIInv /\ TextInv => WindowInv
  BY AppInvOf DEF WindowInv
<1> QED BY <1>3, <1>4, <1>5, PTL
------------------------------------------------------------------------------
(* The glyphs, for images and bitmaps of any size.  A glyph lies in its    *)
(* image where the pen of the image has passed; what comes later is drawn  *)
(* beside or below it.                                                     *)

\* Bitmaps have a width and a height, and the one of the space fits.
SpaceFits ==
  /\ \A code \in Code : BitmapOf(code) \in Nat \X Nat
  /\ Fits(1, 1, BitmapOf(Space))

Bounds == {Clean} \cup (Nat \X Nat \X Nat \X Nat)
Image ==
  [image : [Pixel -> Code \cup {"blank", "edge"}], pen_x : 0 .. TextureSize - 1,
   pen_y : 0 .. TextureSize - 1, pen_bottom : 0 .. TextureSize, dirty : Bounds,
   texture : BOOLEAN, shown : SUBSET Pixel]
Glyph == [code : Code, at : Nat, x : Nat, y : Nat, w : Nat, h : Nat]

\* Where a glyph lies: before the pen in its row, or above the row of the pen.
Passed(g, t) ==
  /\ g.x >= 1 /\ g.y >= 1 /\ t.pen_x >= 1 /\ t.pen_y >= 1
  /\ g.x + g.w + 1 <= TextureSize /\ g.y + g.h + 1 <= TextureSize
  /\ g.y + g.h <= t.pen_bottom
  /\ g.x + g.w + 1 <= t.pen_x \/ g.y + g.h + 1 <= t.pen_y

Drawn(g, t) ==
  /\ \A p \in Inside(g) : t.image[p] = g.code
  /\ \A p \in WithEdge(g) \ Inside(g) : t.image[p] = "edge"

Marked(g, t) ==
  t.texture => /\ WithEdge(g) \ Dirty(t) \subseteq t.shown
               /\ ~ has_device => WithEdge(g) \subseteq Dirty(t)

Lies(g, t) == Passed(g, t) /\ Drawn(g, t) /\ Marked(g, t)

\* An image has room for a pixel and the edge on both sides of it.
LEMMA SizeKnown == SpaceFits => TextureSize \in Nat /\ TextureSize >= 3
<1> SUFFICES ASSUME SpaceFits PROVE TextureSize \in Nat /\ TextureSize >= 3
  OBVIOUS
<1>1. TextureSize \in Nat /\ BitmapOf(Space) \in Nat \X Nat
  BY GlyphAssumption DEF SpaceFits
<1> QED BY <1>1 DEF SpaceFits, Fits

\* A pen set anew.
LEMMA PenSet ==
  ASSUME NEW t \in Image, NEW x \in 0 .. TextureSize - 1, NEW y \in 0 .. TextureSize - 1
  PROVE  LET n == [t EXCEPT !.pen_x = x, !.pen_y = y] IN
         /\ n \in Image /\ n.pen_x = x /\ n.pen_y = y /\ n.pen_bottom = t.pen_bottom
         /\ n.image = t.image /\ n.dirty = t.dirty /\ n.texture = t.texture /\ n.shown = t.shown
<1> DEFINE Pen == 0 .. TextureSize - 1
           Bottom == 0 .. TextureSize
           Pictures == [Pixel -> Code \cup {"blank", "edge"}]
           Shown == SUBSET Pixel
           n == [t EXCEPT !.pen_x = x, !.pen_y = y]
<1>1. Image = [image : Pictures, pen_x : Pen, pen_y : Pen, pen_bottom : Bottom,
               dirty : Bounds, texture : BOOLEAN, shown : Shown]
  BY DEF Image
<1>2. x \in Pen /\ y \in Pen
  OBVIOUS
<1> HIDE DEF Pen, Bottom, Pictures, Shown
<1>3. n \in Image
  BY <1>1, <1>2
<1>4. /\ n.pen_x = x /\ n.pen_y = y /\ n.pen_bottom = t.pen_bottom
      /\ n.image = t.image /\ n.dirty = t.dirty /\ n.texture = t.texture /\ n.shown = t.shown
  BY <1>1
<1> QED BY <1>3, <1>4

\* A pen that was not used is opened, and an image without glyphs has none to move.
LEMMA Opened ==
  ASSUME SpaceFits, NEW t \in Image
  PROVE  LET o == PenOpened(t) IN
         /\ o \in Image /\ o.pen_x >= 1 /\ o.pen_y >= 1
         /\ \A g \in Glyph : Lies(g, t) => Lies(g, o)
<1>1. CASE t.pen_x = 0 \/ t.pen_y = 0
  <2>1. PenOpened(t) = [t EXCEPT !.pen_x = 1, !.pen_y = 1]
    BY <1>1 DEF PenOpened
  <2>2. \A g \in Glyph : ~ Lies(g, t)
    BY <1>1 DEF Lies, Passed
  <2>0. 1 \in 0 .. TextureSize - 1
    BY SizeKnown
  <2>3. [t EXCEPT !.pen_x = 1, !.pen_y = 1] \in Image
    BY <2>0, PenSet
  <2> DEFINE o == [t EXCEPT !.pen_x = 1, !.pen_y = 1]
  <2>5. o.pen_x = 1 /\ o.pen_y = 1
    BY <2>0, PenSet
  <2>4. PenOpened(t).pen_x = 1 /\ PenOpened(t).pen_y = 1
    BY <2>1, <2>5
  <2> QED BY <2>1, <2>2, <2>3, <2>4
<1>2. CASE ~ (t.pen_x = 0 \/ t.pen_y = 0)
  BY <1>2 DEF PenOpened, Image
<1> QED BY <1>1, <1>2

\* The pen goes to a new row below all glyphs, or stays where the bitmap fits.
LEMMA MovedThere ==
  ASSUME SpaceFits, NEW t \in Image, t.pen_x >= 1, t.pen_y >= 1, NEW b \in Nat \X Nat, HasRoom(t, b)
  PROVE  LET m == Moved(t, b) IN
         /\ m \in Image /\ m.pen_x >= 1 /\ m.pen_y >= 1 /\ Fits(m.pen_x, m.pen_y, b)
         /\ \A g \in Glyph : Lies(g, t) => Lies(g, m)
<1>1. CASE Fits(t.pen_x, t.pen_y, b)
  BY <1>1 DEF Moved
<1>2. CASE ~ Fits(t.pen_x, t.pen_y, b)
  <2> DEFINE m == [t EXCEPT !.pen_x = 1, !.pen_y = NewRow(t)]
  <2>1. Moved(t, b) = m /\ Fits(1, NewRow(t), b)
    BY <1>2 DEF Moved, HasRoom
  <2>2. NewRow(t) \in Nat /\ NewRow(t) >= t.pen_y /\ NewRow(t) >= t.pen_bottom + 1
    BY SizeKnown DEF NewRow, Larger, Image
  <2>3. NewRow(t) \in 0 .. TextureSize - 1
    BY <2>1, <2>2, SizeKnown DEF Fits
  <2>0. 1 \in 0 .. TextureSize - 1
    BY SizeKnown
  <2>6. m \in Image
    BY <2>0, <2>3, PenSet
  <2>4. /\ m.pen_x = 1 /\ m.pen_y = NewRow(t) /\ m.pen_bottom = t.pen_bottom
        /\ m.image = t.image /\ m.dirty = t.dirty /\ m.texture = t.texture /\ m.shown = t.shown
    BY DEF Image
  <2> HIDE DEF m
  <2>5. ASSUME NEW g \in Glyph, Lies(g, t) PROVE Lies(g, m)
    <3>1. Passed(g, m)
      BY <2>2, <2>4, <2>5, SizeKnown DEF Lies, Passed, Glyph, Image
    <3>2. Drawn(g, m) /\ Marked(g, m)
      BY <2>4, <2>5 DEF Lies, Drawn, Marked, Dirty
    <3> QED BY <3>1, <3>2 DEF Lies
  <2>7. Fits(m.pen_x, m.pen_y, b) /\ m.pen_x >= 1 /\ m.pen_y >= 1
    BY <2>1, <2>2, <2>4 DEF Image
  <2> QED BY <2>1, <2>5, <2>6, <2>7
<1> QED BY <1>1, <1>2
\* The pixels of a bitmap at the pen, and those with its edge.
Block(t, b) == Rectangle(t.pen_x, t.pen_y, t.pen_x + b[1], t.pen_y + b[2])
Edged(t, b) == Rectangle(t.pen_x - 1, t.pen_y - 1, t.pen_x + b[1] + 1, t.pen_y + b[2] + 1)

\* What is written is dirty, with all that was.
LEMMA DirtyGrows ==
  ASSUME SpaceFits, NEW t \in Image, t.pen_x >= 1, t.pen_y >= 1, NEW b \in Nat \X Nat,
         Fits(t.pen_x, t.pen_y, b), NEW code \in Code
  PROVE  LET n == Written(t, b, code) IN
         n.dirty \in Bounds /\ Edged(t, b) \subseteq Dirty(n) /\ Dirty(t) \subseteq Dirty(n)
<1> DEFINE n == Written(t, b, code)
           L == t.pen_x - 1
           T == t.pen_y - 1
           R == t.pen_x + b[1] + 1
           B == t.pen_y + b[2] + 1
<1>1. L \in Nat /\ T \in Nat /\ R \in Nat /\ B \in Nat
  BY SizeKnown DEF Image
<1>0. Edged(t, b) = Rectangle(L, T, R, B) /\ t.dirty \in Bounds
  BY DEF Edged, Image
<1> DEFINE Pictures == [Pixel -> Code \cup {"blank", "edge"}]
           Pen == 0 .. TextureSize - 1
           Bottom == 0 .. TextureSize
           Shown == SUBSET Pixel
<1>01. Image = [image : Pictures, pen_x : Pen, pen_y : Pen, pen_bottom : Bottom,
                 dirty : Bounds, texture : BOOLEAN, shown : Shown]
  BY DEF Image
<1> HIDE DEF Pictures, Pen, Bottom, Shown
<1>2. n.dirty = IF t.dirty = Clean THEN <<L, T, R, B>>
                   ELSE <<Smaller(t.dirty[1], L), Smaller(t.dirty[2], T),
                          Larger(t.dirty[3], R), Larger(t.dirty[4], B)>>
  BY <1>01 DEF Written
<1>3. \A p \in Pixel : p[1] \in Nat /\ p[2] \in Nat
  BY SizeKnown DEF Pixel
<1> HIDE DEF n, L, T, R, B
<1>4. CASE t.dirty = Clean
  <2>1. n.dirty = <<L, T, R, B>>
    BY <1>2, <1>4
  <2>2. n.dirty \in Bounds /\ n.dirty # Clean
    BY <2>1, <1>1 DEF Bounds, Clean
  <2>3. Dirty(n) = Rectangle(L, T, R, B) /\ Dirty(t) = {}
    BY <2>1, <2>2, <1>4 DEF Dirty
  <2> QED BY <2>2, <2>3, <1>0 DEF n
<1>5. CASE t.dirty # Clean
  <2>1. PICK l \in Nat, u \in Nat, r \in Nat, d \in Nat : t.dirty = <<l, u, r, d>>
    BY <1>0, <1>5 DEF Bounds
  <2>2. PICK ll, uu, rr, dd :
          /\ n.dirty = <<ll, uu, rr, dd>> /\ ll = Smaller(l, L) /\ uu = Smaller(u, T)
          /\ rr = Larger(r, R) /\ dd = Larger(d, B)
    BY <1>2, <1>5, <2>1
  <2>3. /\ ll \in Nat /\ uu \in Nat /\ rr \in Nat /\ dd \in Nat
        /\ ll <= l /\ ll <= L /\ uu <= u /\ uu <= T
        /\ rr >= r /\ rr >= R /\ dd >= d /\ dd >= B
    BY <1>1, <2>2 DEF Smaller, Larger
  <2>4. n.dirty \in Bounds /\ n.dirty # Clean
    BY <2>2, <2>3 DEF Bounds, Clean
  <2>5. Dirty(n) = Rectangle(ll, uu, rr, dd) /\ Dirty(t) = Rectangle(l, u, r, d)
    BY <2>1, <2>2, <2>4, <1>5 DEF Dirty
  <2>6. /\ Rectangle(l, u, r, d) \subseteq Rectangle(ll, uu, rr, dd)
        /\ Rectangle(L, T, R, B) \subseteq Rectangle(ll, uu, rr, dd)
    BY <2>3, <1>1, <1>3 DEF Rectangle
  <2> QED BY <2>4, <2>5, <2>6, <1>0 DEF n
<1> QED BY <1>4, <1>5 DEF n

\* What is written touches no glyph, and only the edge of one next to it.
LEMMA Apart ==
  ASSUME SpaceFits, NEW t \in Image, NEW b \in Nat \X Nat, NEW g \in Glyph, Passed(g, t)
  PROVE  /\ Inside(g) \cap Edged(t, b) = {} /\ WithEdge(g) \cap Block(t, b) = {}
         /\ Inside(g) \subseteq WithEdge(g)
<1>1. \A p \in Pixel : p[1] \in Nat /\ p[2] \in Nat
  BY SizeKnown DEF Pixel
<1>2. /\ g.x \in Nat /\ g.y \in Nat /\ g.w \in Nat /\ g.h \in Nat
      /\ t.pen_x \in Nat /\ t.pen_y \in Nat /\ b[1] \in Nat /\ b[2] \in Nat
  BY SizeKnown DEF Glyph, Image
<1>3. g.x + g.w + 1 <= t.pen_x \/ g.y + g.h + 1 <= t.pen_y
  BY DEF Passed
<1>4. Inside(g) \cap Edged(t, b) = {}
  BY <1>1, <1>2, <1>3 DEF Inside, Edged, Rectangle
<1>5. WithEdge(g) \cap Block(t, b) = {}
  BY <1>1, <1>2, <1>3 DEF WithEdge, Block, Rectangle
<1>6. Inside(g) \subseteq WithEdge(g)
  BY <1>1, <1>2 DEF WithEdge, Inside, Rectangle
<1> QED BY <1>4, <1>5, <1>6

\* A written glyph is where the pen was, and the others stay.
LEMMA WrittenThere ==
  ASSUME SpaceFits, NEW t \in Image, t.pen_x >= 1, t.pen_y >= 1, NEW b \in Nat \X Nat,
         Fits(t.pen_x, t.pen_y, b), NEW code \in Code, NEW at \in Nat
  PROVE  LET n == Written(t, b, code) IN
         /\ n \in Image
         /\ Lies([code |-> code, at |-> at, x |-> t.pen_x, y |-> t.pen_y,
                    w |-> b[1], h |-> b[2]], n)
         /\ \A g \in Glyph : Lies(g, t) => Lies(g, n)
<1> DEFINE n == Written(t, b, code)
           new == [code |-> code, at |-> at, x |-> t.pen_x, y |-> t.pen_y, w |-> b[1], h |-> b[2]]
           In == Block(t, b)
           Out == Edged(t, b)
           Pictures == [Pixel -> Code \cup {"blank", "edge"}]
           Pen == 0 .. TextureSize - 1
           Bottom == 0 .. TextureSize
           Shown == SUBSET Pixel
<1>0. Image = [image : Pictures, pen_x : Pen, pen_y : Pen, pen_bottom : Bottom,
               dirty : Bounds, texture : BOOLEAN, shown : Shown]
  BY DEF Image
<1> HIDE DEF Pictures, Pen, Bottom, Shown
<1>1. /\ n.image = [p \in Pixel |-> IF p \in In THEN code
                     ELSE IF p \in Out \ In THEN "edge" ELSE t.image[p]]
      /\ n.shown = t.shown \ (In \cup (Out \ In))
      /\ n.pen_x = t.pen_x + b[1] + 1 /\ n.pen_y = t.pen_y
      /\ n.pen_bottom = Larger(t.pen_bottom, t.pen_y + b[2]) /\ n.texture = t.texture
      /\ n \in [image : {n.image}, pen_x : {n.pen_x}, pen_y : {n.pen_y}, dirty : {n.dirty},
                pen_bottom : {n.pen_bottom}, texture : {n.texture}, shown : {n.shown}]
  BY <1>0 DEF Written, Block, Edged
<1>2. n.dirty \in Bounds /\ Out \subseteq Dirty(n) /\ Dirty(t) \subseteq Dirty(n)
  BY DirtyGrows
<1>3. /\ t.pen_x \in Nat /\ t.pen_y \in Nat /\ t.pen_bottom \in Nat /\ t.pen_bottom <= TextureSize
      /\ b[1] \in Nat /\ b[2] \in Nat /\ TextureSize \in Nat
      /\ t.pen_x + b[1] < TextureSize - 1 /\ t.pen_y + b[2] < TextureSize - 1
  BY SizeKnown DEF Image, Fits
<1>4. t.image \in [Pixel -> Code \cup {"blank", "edge"}] /\ t.texture \in BOOLEAN /\ t.shown \subseteq Pixel
  BY DEF Image
<1>5. Inside(new) = In /\ WithEdge(new) = Out
  BY DEF Inside, WithEdge, Block, Edged
<1>6. In \subseteq Pixel /\ Out \subseteq Pixel
  BY DEF Block, Edged, Rectangle
<1>7. /\ n.pen_bottom \in Nat /\ n.pen_bottom >= t.pen_bottom /\ n.pen_bottom >= t.pen_y + b[2]
      /\ n.pen_bottom <= TextureSize
  BY <1>1, <1>3 DEF Larger
<1> HIDE DEF n, In, Out
<1>8. n \in Image
  <2>1. n.image \in [Pixel -> Code \cup {"blank", "edge"}]
    BY <1>1, <1>4
  <2>2. n.pen_x \in 0 .. TextureSize - 1 /\ n.pen_y \in 0 .. TextureSize - 1
    BY <1>1, <1>3
  <2>3. n.pen_bottom \in 0 .. TextureSize
    BY <1>7
  <2>4. n.shown \in SUBSET Pixel /\ n.texture \in BOOLEAN
    BY <1>1, <1>4
  <2>6. n.image \in Pictures /\ n.pen_x \in Pen /\ n.pen_y \in Pen /\ n.pen_bottom \in Bottom
        /\ n.shown \in Shown /\ n.texture \in BOOLEAN
    BY <2>1, <2>2, <2>3, <2>4 DEF Pictures, Pen, Bottom, Shown
  <2> QED BY <1>0, <1>1, <1>2, <2>6
<1>9. Lies(new, n)
  <2>1. Passed(new, n)
    BY <1>1, <1>3, <1>7 DEF Passed
  <2>2. Drawn(new, n)
    BY <1>1, <1>5, <1>6 DEF Drawn
  <2>3. Marked(new, n)
    BY <1>2, <1>5 DEF Marked
  <2> QED BY <2>1, <2>2, <2>3 DEF Lies
<1>10. ASSUME NEW g \in Glyph, Lies(g, t) PROVE Lies(g, n)
  <2>1. Passed(g, n)
    <3>1. Passed(g, t) /\ g.x \in Nat /\ g.y \in Nat /\ g.w \in Nat /\ g.h \in Nat
      BY <1>10 DEF Lies, Glyph
    <3> QED BY <3>1, <1>1, <1>3, <1>7 DEF Passed
  <2>2. /\ Inside(g) \cap Out = {} /\ WithEdge(g) \cap In = {} /\ Inside(g) \subseteq WithEdge(g)
        /\ WithEdge(g) \subseteq Pixel
    BY <1>10, Apart DEF Lies, In, Out, WithEdge, Rectangle
  <2>3. Drawn(g, t) /\ Marked(g, t)
    BY <1>10 DEF Lies
  <2>4. Drawn(g, n)
    BY <2>2, <2>3, <1>1, <1>6 DEF Drawn
  <2>5. Marked(g, n)
    BY <2>2, <2>3, <1>1, <1>2 DEF Marked
  <2> QED BY <2>1, <2>4, <2>5 DEF Lies
<1> QED BY <1>8, <1>9, <1>10 DEF n

\* How many pixels a row has.
LEMMA IntervalCount ==
  ASSUME NEW a \in Nat, NEW n \in Nat, a <= n
  PROVE  IsFiniteSet(a .. n - 1) /\ Cardinality(a .. n - 1) = n - a
<1> DEFINE z == n - 1
<1>1. a \in Int /\ z \in Int /\ (IF a > z THEN 0 ELSE z - a + 1) = n - a
  OBVIOUS
<1> HIDE DEF z
<1>2. IsFiniteSet(a .. z) /\ Cardinality(a .. z) = IF a > z THEN 0 ELSE z - a + 1
  BY <1>1, FS_Interval
<1> QED BY <1>1, <1>2 DEF z

\* As many pixels as a rectangle has, when it lies in the image.
LEMMA RectangleCount ==
  ASSUME NEW l \in Nat, NEW u \in Nat, NEW r \in Nat, NEW d \in Nat, TextureSize \in Nat,
         l <= r, u <= d, r <= TextureSize, d <= TextureSize
  PROVE  Cardinality(Rectangle(l, u, r, d)) = (r - l) * (d - u)
<1> DEFINE Columns == l .. r - 1
           Rows == u .. d - 1
<1>1. Rectangle(l, u, r, d) = Columns \X Rows
  BY DEF Rectangle, Pixel
<1>2. IsFiniteSet(Columns) /\ Cardinality(Columns) = r - l
  BY IntervalCount
<1>3. IsFiniteSet(Rows) /\ Cardinality(Rows) = d - u
  BY IntervalCount
<1> HIDE DEF Columns, Rows
<1> QED BY <1>1, <1>2, <1>3, FS_Product

\* A set of numbers that is not empty has a least one.
Less == {ss \in Nat \X Nat : ss[1] < ss[2]}
LEMMA FirstIs ==
  ASSUME NEW S \in SUBSET Nat, S # {}
  PROVE  Min(S) \in S /\ \A i \in S : Min(S) <= i
<1>1. IsWellFoundedOn(Less, Nat)
  BY NatLessThanWellFounded DEF Less, OpToRel
<1>2. PICK x \in S : \A y \in S : ~ (<<y, x>> \in Less)
  BY <1>1, WFMin
<1>3. \A y \in S : <<y, x>> \in Nat \X Nat /\ (y < x => <<y, x>> \in Less)
  BY DEF Less
<1>4. \A y \in S : ~ (y < x)
  BY <1>2, <1>3
<1>5. x \in S /\ \A y \in S : x <= y
  BY <1>4
<1>6. Min(S) = CHOOSE a \in S : \A y \in S : a <= y
  BY DEF Min
<1> QED BY <1>5, <1>6

------------------------------------------------------------------------------
GlyInv ==
  /\ has_device \in BOOLEAN
  /\ m_tex \in Seq(Image)
  /\ m_map \subseteq Glyph
  /\ \A g \in m_map : g.at \in 1 .. Len(m_tex) /\ Lies(g, m_tex[g.at])
  /\ \A g, h \in m_map : g.code = h.code => g = h

\* A new image is blank and shows nothing.
LEMMA NewIs == SpaceFits /\ has_device \in BOOLEAN => NewImage \in Image
<1> SUFFICES ASSUME SpaceFits, has_device \in BOOLEAN PROVE NewImage \in Image
  OBVIOUS
<1>1. [p \in Pixel |-> "blank"] \in [Pixel -> Code \cup {"blank", "edge"}]
  OBVIOUS
<1>2. 0 \in 0 .. TextureSize - 1 /\ 0 \in 0 .. TextureSize
  BY SizeKnown
<1> QED BY <1>1, <1>2 DEF NewImage, Image, Bounds

\* A glyph that is rendered gets a place, and none loses its own.
LEMMA Rendered ==
  ASSUME SpaceFits, GlyInv, NEW code \in Code, renderCache(code), UNCHANGED has_device
  PROVE  GlyInv'
<1> DEFINE b     == BitmapOf(code)
           seen  == [i \in DOMAIN m_tex |-> PenOpened(m_tex[i])]
           rooms == {i \in DOMAIN m_tex : HasRoom(seen[i], b)}
           all   == IF rooms = {} THEN Append(seen, PenOpened(NewImage)) ELSE seen
           at    == IF rooms = {} THEN Len(all) ELSE Min(rooms)
           moved == Moved(all[at], b)
           glyph == [code |-> code, at |-> at, x |-> moved.pen_x, y |-> moved.pen_y,
                     w |-> b[1], h |-> b[2]]
<1>1. /\ ~ Cached(code) /\ HasRoom(all[at], b)
      /\ m_tex' = [i \in DOMAIN all |-> IF i < at THEN all[i]
                     ELSE IF i = at THEN Written(moved, b, code) ELSE m_tex[i]]
      /\ m_map' = m_map \cup {glyph}
  BY DEF renderCache
<1>2. b \in Nat \X Nat
  BY DEF SpaceFits
<1>3. Len(m_tex) \in Nat /\ DOMAIN m_tex = 1 .. Len(m_tex) /\ \A i \in 1 .. Len(m_tex) : m_tex[i] \in Image
  BY DEF GlyInv
<1>4. seen \in Seq(Image) /\ Len(seen) = Len(m_tex)
      /\ \A i \in 1 .. Len(m_tex) : seen[i] = PenOpened(m_tex[i])
  <2>1. \A i \in 1 .. Len(m_tex) : PenOpened(m_tex[i]) \in Image
    BY <1>3, Opened
  <2> QED BY <1>3, <2>1
<1>5. PenOpened(NewImage) \in Image
  BY NewIs, Opened DEF GlyInv
<1>6. rooms \subseteq 1 .. Len(m_tex)
  BY <1>3
<1> HIDE DEF b, seen, rooms
<1>7. /\ all \in Seq(Image) /\ Len(all) \in Nat /\ Len(all) >= Len(m_tex) /\ DOMAIN all = 1 .. Len(all)
      /\ at \in 1 .. Len(all) /\ (at <= Len(m_tex) => Len(all) = Len(m_tex))
      /\ \A i \in 1 .. Len(m_tex) : all[i] = PenOpened(m_tex[i])
      /\ \A i \in 1 .. Len(all) : all[i] \in Image /\ all[i].pen_x >= 1 /\ all[i].pen_y >= 1
      /\ \A i \in 1 .. Len(all) : i > at => i <= Len(m_tex)
  <2>1. CASE rooms = {}
    <3>1. all = Append(seen, PenOpened(NewImage)) /\ at = Len(all)
      BY <2>1
    <3> HIDE DEF all, at
    <3>2. /\ all \in Seq(Image) /\ Len(all) = Len(m_tex) + 1 /\ DOMAIN all = 1 .. Len(all)
          /\ all[Len(m_tex) + 1] = PenOpened(NewImage)
          /\ \A i \in 1 .. Len(m_tex) : all[i] = PenOpened(m_tex[i])
      BY <3>1, <1>3, <1>4, <1>5
    <3>3. ASSUME NEW i \in 1 .. Len(all)
          PROVE  all[i] \in Image /\ all[i].pen_x >= 1 /\ all[i].pen_y >= 1
      <4>1. CASE i = Len(m_tex) + 1
        BY <4>1, <3>2, NewIs, Opened DEF GlyInv
      <4>2. CASE i \in 1 .. Len(m_tex)
        BY <4>2, <3>2, <1>3, Opened
      <4> QED BY <4>1, <4>2, <3>2, <1>3
    <3>4. /\ at = Len(m_tex) + 1 /\ at \in 1 .. Len(all) /\ Len(all) \in Nat
          /\ \A i \in 1 .. Len(all) : ~ (i > at)
      BY <3>1, <3>2, <1>3
    <3>5. Len(all) >= Len(m_tex) /\ ~ (at <= Len(m_tex))
      BY <3>2, <3>4, <1>3
    <3> QED BY <3>2, <3>3, <3>4, <3>5
  <2>2. CASE rooms # {}
    <3>1. all = seen /\ at = Min(rooms)
      BY <2>2
    <3>2. rooms \in SUBSET Nat
      BY <1>3, <1>6
    <3>3. at \in 1 .. Len(m_tex)
      BY <3>1, <3>2, <2>2, <1>6, FirstIs
    <3> HIDE DEF all, at
    <3>4. \A i \in 1 .. Len(all) : all[i] \in Image /\ all[i].pen_x >= 1 /\ all[i].pen_y >= 1
      BY <3>1, <1>3, <1>4, Opened
    <3> QED BY <3>1, <3>3, <3>4, <1>3, <1>4
  <2> QED BY <2>1, <2>2
<1> HIDE DEF all, at
<1>20. /\ all \in Seq(Image) /\ Len(all) \in Nat /\ Len(all) >= Len(m_tex) /\ DOMAIN all = 1 .. Len(all)
       /\ at \in 1 .. Len(all) /\ at \in Nat
       /\ \A i \in 1 .. Len(all) : i > at => i \in 1 .. Len(m_tex)
  <2>1. /\ all \in Seq(Image) /\ Len(all) \in Nat /\ Len(all) >= Len(m_tex) /\ DOMAIN all = 1 .. Len(all)
        /\ at \in 1 .. Len(all)
        /\ \A i \in 1 .. Len(all) : i > at => i <= Len(m_tex)
    BY <1>7
  <2>2. \A i \in 1 .. Len(all) : i > at => i \in 1 .. Len(m_tex)
    BY <2>1, <1>3
  <2> QED BY <2>1, <2>2
<1>21. \A i \in 1 .. Len(m_tex) : all[i] = PenOpened(m_tex[i])
  BY <1>7
<1>22. \A i \in 1 .. Len(all) : all[i] \in Image
  BY <1>7
<1>8. /\ moved \in Image /\ moved.pen_x >= 1 /\ moved.pen_y >= 1 /\ Fits(moved.pen_x, moved.pen_y, b)
      /\ \A g \in Glyph : Lies(g, all[at]) => Lies(g, moved)
  BY <1>1, <1>2, <1>7, MovedThere
<1> HIDE DEF moved
<1> DEFINE new == Written(moved, b, code)
<1>9. /\ new \in Image /\ Lies(glyph, new) /\ \A g \in Glyph : Lies(g, moved) => Lies(g, new)
  <2> QED BY <1>2, <1>8, <1>20, WrittenThere
<1> HIDE DEF new
<1>10. glyph \in Glyph /\ glyph.at = at /\ glyph.code = code
  BY <1>2, <1>7, <1>8, SizeKnown DEF Image, Glyph
<1>11. /\ m_tex' \in Seq(Image) /\ Len(m_tex') = Len(all)
       /\ \A i \in 1 .. Len(all) : m_tex'[i] = IF i < at THEN all[i] ELSE IF i = at THEN new ELSE m_tex[i]
  <2>1. \A i \in 1 .. Len(all) : (IF i < at THEN all[i] ELSE IF i = at THEN new ELSE m_tex[i]) \in Image
    BY <1>3, <1>9, <1>20, <1>22
  <2>2. m_tex' = [i \in 1 .. Len(all) |-> IF i < at THEN all[i] ELSE IF i = at THEN new ELSE m_tex[i]]
    BY <1>1, <1>20 DEF new
  <2> QED BY <2>1, <2>2, <1>20
<1>12. ASSUME NEW g \in m_map PROVE g.at \in 1 .. Len(m_tex') /\ Lies(g, m_tex'[g.at])
  <2>1. g \in Glyph /\ g.at \in 1 .. Len(m_tex) /\ Lies(g, m_tex[g.at])
    BY DEF GlyInv
  <2>2. g.at \in 1 .. Len(all) /\ Lies(g, all[g.at])
    <3>1. m_tex[g.at] \in Image
      BY <2>1, <1>3
    <3>2. Lies(g, PenOpened(m_tex[g.at]))
      BY <2>1, <3>1, Opened
    <3> QED BY <2>1, <3>2, <1>3, <1>20, <1>21
  <2>3. g.at < at \/ g.at = at \/ g.at > at
    BY <2>2, <1>20
  <2>4. CASE g.at < at
    BY <2>2, <2>4, <1>11
  <2>5. CASE g.at = at
    BY <2>1, <2>2, <2>5, <1>8, <1>9, <1>11, <1>20
  <2>6. CASE g.at > at
    BY <2>1, <2>2, <2>6, <1>11, <1>20
  <2> QED BY <2>3, <2>4, <2>5, <2>6
<1>13. \A g \in m_map' : g.at \in 1 .. Len(m_tex') /\ Lies(g, m_tex'[g.at])
  BY <1>1, <1>9, <1>10, <1>11, <1>12, <1>20
<1>14. \A g, h \in m_map' : g.code = h.code => g = h
  BY <1>1, <1>10 DEF GlyInv, Cached
<1>15. (\A g \in m_map : Lies(g, m_tex[g.at]))'
  BY <1>13 DEF Lies, Passed, Drawn, Marked
<1> HIDE DEF glyph
<1>16. has_device' \in BOOLEAN /\ m_map' \subseteq Glyph
  BY <1>1, <1>10 DEF GlyInv
<1> QED BY <1>11, <1>13, <1>14, <1>15, <1>16 DEF GlyInv

\* When no glyph is added, each must keep its place.
LEMMA Stays ==
  ASSUME SpaceFits, GlyInv, m_map' = m_map, has_device' \in BOOLEAN,
         m_tex' \in Seq(Image), Len(m_tex') >= Len(m_tex),
         \A g \in Glyph : \A i \in 1 .. Len(m_tex) :
           Lies(g, m_tex[i]) => Lies(g, m_tex[i])'
  PROVE  GlyInv'
<1>1. Len(m_tex) \in Nat /\ Len(m_tex') \in Nat
  BY DEF GlyInv
<1>2. ASSUME NEW g \in m_map PROVE g.at \in 1 .. Len(m_tex') /\ Lies(g, m_tex[g.at])'
  <2>1. g \in Glyph /\ g.at \in 1 .. Len(m_tex) /\ Lies(g, m_tex[g.at])
    BY DEF GlyInv
  <2>2. Lies(g, m_tex[g.at])'
    BY <2>1
  <2> QED BY <1>1, <2>1, <2>2
<1>3. (\A g \in m_map : g.at \in 1 .. Len(m_tex) /\ Lies(g, m_tex[g.at]))'
  BY <1>2
<1> QED BY <1>3 DEF GlyInv

\* A glyph that gets no place leaves the others theirs.
LEMMA RenderFails ==
  ASSUME SpaceFits, GlyInv, NEW code \in Code, renderCacheFails(code), UNCHANGED has_device
  PROVE  GlyInv'
<1>1. has_device' = has_device /\ has_device \in BOOLEAN /\ m_map' = m_map
  BY DEF GlyInv, renderCacheFails
<1>2. Len(m_tex) \in Nat /\ DOMAIN m_tex = 1 .. Len(m_tex) /\ \A i \in 1 .. Len(m_tex) : m_tex[i] \in Image
  BY DEF GlyInv
<1>3. CASE m_tex' = m_tex
  <2>1. m_tex' \in Seq(Image) /\ Len(m_tex') >= Len(m_tex)
    BY <1>2, <1>3 DEF GlyInv
  <2>2. \A g \in Glyph : \A i \in 1 .. Len(m_tex) : Lies(g, m_tex[i]) => Lies(g, m_tex[i])'
    BY <1>1, <1>3 DEF Lies, Passed, Drawn, Marked
  <2> QED BY <2>1, <2>2, <1>1, Stays
<1>4. CASE m_tex' = Append([i \in DOMAIN m_tex |-> PenOpened(m_tex[i])], NewImage)
  <2> DEFINE seen == [i \in DOMAIN m_tex |-> PenOpened(m_tex[i])]
  <2>1. \A i \in 1 .. Len(m_tex) : PenOpened(m_tex[i]) \in Image
    BY <1>2, Opened
  <2>2. seen \in Seq(Image) /\ Len(seen) = Len(m_tex)
        /\ \A i \in 1 .. Len(m_tex) : seen[i] = PenOpened(m_tex[i])
    BY <1>2, <2>1
  <2>3. NewImage \in Image
    BY <1>1, NewIs
  <2> HIDE DEF seen
  <2>4. /\ m_tex' \in Seq(Image) /\ Len(m_tex') = Len(m_tex) + 1
        /\ \A i \in 1 .. Len(m_tex) : m_tex'[i] = PenOpened(m_tex[i])
    BY <1>2, <1>4, <2>2, <2>3 DEF seen
  <2>5. ASSUME NEW g \in Glyph, NEW i \in 1 .. Len(m_tex), Lies(g, m_tex[i])
        PROVE  Lies(g, m_tex[i])'
    <3>1. Lies(g, m_tex'[i])
      BY <1>2, <2>4, <2>5, Opened
    <3> QED BY <3>1, <1>1 DEF Lies, Passed, Drawn, Marked
  <2>6. Len(m_tex') >= Len(m_tex)
    BY <1>2, <2>4
  <2> QED BY <2>4, <2>5, <2>6, <1>1, Stays
<1> QED BY <1>3, <1>4 DEF renderCacheFails

\* What a flush uploads is shown.
LEMMA FlushKeeps == ASSUME SpaceFits, GlyInv, flush PROVE GlyInv'
<1>1. has_device' = has_device /\ has_device \in BOOLEAN /\ m_map' = m_map
  BY DEF GlyInv, flush
<1>2. Len(m_tex) \in Nat /\ DOMAIN m_tex = 1 .. Len(m_tex) /\ \A i \in 1 .. Len(m_tex) : m_tex[i] \in Image
  BY DEF GlyInv
<1>3. PICK ok \in SUBSET DOMAIN m_tex :
        (has_device \/ ok = {}) /\ m_tex' = [i \in DOMAIN m_tex |-> Flushed(m_tex[i], i \in ok)]
  BY DEF flush
<1>4. ASSUME NEW i \in 1 .. Len(m_tex)
      PROVE  /\ m_tex'[i] = Flushed(m_tex[i], i \in ok) /\ m_tex'[i] \in Image
             /\ \A g \in Glyph : Lies(g, m_tex[i]) => Lies(g, m_tex[i])'
  <2> DEFINE t == m_tex[i]
             n == m_tex'[i]
  <2>1. n = Flushed(t, i \in ok) /\ t \in Image
    BY <1>2, <1>3
  <2>2. CASE n = t
    BY <2>1, <2>2, <1>1 DEF Lies, Passed, Drawn, Marked
  <2>3. CASE n # t
    <3>1. n = [t EXCEPT !.shown = @ \cup Dirty(t), !.dirty = Clean] /\ i \in ok
      BY <2>1, <2>3 DEF Flushed
    <3> DEFINE Pictures == [Pixel -> Code \cup {"blank", "edge"}]
               Pen == 0 .. TextureSize - 1
               Bottom == 0 .. TextureSize
               Shown == SUBSET Pixel
    <3>2. Image = [image : Pictures, pen_x : Pen, pen_y : Pen, pen_bottom : Bottom,
                   dirty : Bounds, texture : BOOLEAN, shown : Shown]
      BY DEF Image
    <3>3. t.shown \cup Dirty(t) \in Shown
      BY <2>1 DEF Image, Dirty, Rectangle
    <3> HIDE DEF Pictures, Pen, Bottom, Shown, t, n
    <3>4. n \in Image
      BY <2>1, <3>1, <3>2, <3>3 DEF Bounds
    <3>5. /\ n.image = t.image /\ n.pen_x = t.pen_x /\ n.pen_y = t.pen_y /\ n.pen_bottom = t.pen_bottom
          /\ n.texture = t.texture /\ n.shown = t.shown \cup Dirty(t)
      BY <2>1, <3>1, <3>2
    <3>6. has_device
      BY <1>3, <3>1
    <3>7. \A g \in Glyph : Lies(g, t) =>
            Passed(g, n) /\ Drawn(g, n) /\ (n.texture => WithEdge(g) \subseteq n.shown)
      BY <3>5 DEF Lies, Passed, Drawn, Marked
    <3> QED BY <2>1, <3>4, <3>6, <3>7, <1>1 DEF t, n, Lies, Passed, Drawn, Marked
  <2> QED BY <2>1, <2>2, <2>3
<1>5. m_tex' \in Seq(Image) /\ Len(m_tex') = Len(m_tex)
  <2>1. \A i \in 1 .. Len(m_tex) : Flushed(m_tex[i], i \in ok) \in Image
    BY <1>4
  <2>2. m_tex' = [i \in 1 .. Len(m_tex) |-> Flushed(m_tex[i], i \in ok)]
    BY <1>2, <1>3
  <2> QED BY <2>1, <2>2, <1>2
<1> QED BY <1>1, <1>2, <1>4, <1>5, Stays

\* Without its device a texture is dirty wherever a glyph is.
LEMMA DestroyKeeps == ASSUME SpaceFits, GlyInv, onGlyphDeviceDestroy PROVE GlyInv'
<1>1. has_device' = FALSE /\ m_map' = m_map
      /\ m_tex' = [i \in DOMAIN m_tex |-> AllDirty(m_tex[i])]
  BY DEF onGlyphDeviceDestroy
<1>2. Len(m_tex) \in Nat /\ DOMAIN m_tex = 1 .. Len(m_tex) /\ \A i \in 1 .. Len(m_tex) : m_tex[i] \in Image
  BY DEF GlyInv
<1>3. ASSUME NEW i \in 1 .. Len(m_tex)
      PROVE  /\ AllDirty(m_tex[i]) \in Image
             /\ \A g \in Glyph : Lies(g, m_tex[i]) => Lies(g, m_tex[i])'
  <2> DEFINE t == m_tex[i]
             n == AllDirty(t)
             z == <<0, 0, TextureSize, t.pen_bottom + 1>>
             Pictures == [Pixel -> Code \cup {"blank", "edge"}]
             Pen == 0 .. TextureSize - 1
             Bottom == 0 .. TextureSize
             Shown == SUBSET Pixel
  <2>1. Image = [image : Pictures, pen_x : Pen, pen_y : Pen, pen_bottom : Bottom,
                 dirty : Bounds, texture : BOOLEAN, shown : Shown]
    BY DEF Image
  <2>2. t \in Image /\ t.pen_bottom \in Nat /\ TextureSize \in Nat
    BY <1>2, SizeKnown DEF Image
  <2>3. z \in Bounds /\ z # Clean
    BY <2>2 DEF Bounds, Clean
  <2>4. n = [t EXCEPT !.dirty = z] /\ m_tex'[i] = n
    BY <1>1, <1>2 DEF AllDirty
  <2> HIDE DEF Pictures, Pen, Bottom, Shown, z, t, n
  <2>5. /\ n \in Image /\ n.image = t.image /\ n.pen_x = t.pen_x /\ n.pen_y = t.pen_y
        /\ n.pen_bottom = t.pen_bottom /\ n.texture = t.texture /\ n.shown = t.shown /\ n.dirty = z
    BY <2>1, <2>2, <2>3, <2>4
  <2>6. Dirty(n) = Rectangle(0, 0, TextureSize, t.pen_bottom + 1)
    BY <2>3, <2>5 DEF Dirty, z
  <2>7. ASSUME NEW g \in Glyph, Passed(g, t) PROVE WithEdge(g) \subseteq Dirty(n)
    <3>1. \A p \in Pixel : p[1] \in 0 .. TextureSize - 1 /\ p[2] \in 0 .. TextureSize - 1
      BY DEF Pixel
    <3>2. g.y \in Nat /\ g.h \in Nat /\ g.y + g.h <= t.pen_bottom
      BY <2>7 DEF Passed, Glyph
    <3> QED BY <2>2, <2>6, <3>1, <3>2 DEF WithEdge, Rectangle
  <2>8. \A g \in Glyph : Lies(g, t) => Passed(g, n) /\ Drawn(g, n) /\ WithEdge(g) \subseteq Dirty(n)
    BY <2>5, <2>7 DEF Lies, Passed, Drawn
  <2>9. \A g \in Glyph : Lies(g, t) => Lies(g, m_tex[i])'
    BY <2>4, <2>8 DEF Lies, Passed, Drawn, Marked, Dirty
  <2> QED BY <2>5, <2>9 DEF t, n
<1>4. m_tex' \in Seq(Image) /\ Len(m_tex') = Len(m_tex)
  BY <1>1, <1>2, <1>3
<1>5. has_device' \in BOOLEAN
  BY <1>1
<1>6. Len(m_tex') >= Len(m_tex)
  BY <1>2, <1>4
<1> QED BY <1>1, <1>3, <1>4, <1>5, <1>6, Stays

\* The textures come back empty: all that they have lost is dirty.
LEMMA CreateKeeps == ASSUME SpaceFits, GlyInv, onGlyphDeviceCreate PROVE GlyInv'
<1>1. ~ has_device /\ has_device' = TRUE /\ m_map' = m_map
      /\ m_tex' = [i \in DOMAIN m_tex |-> [m_tex[i] EXCEPT !.shown = {}]]
  BY DEF onGlyphDeviceCreate
<1>2. Len(m_tex) \in Nat /\ DOMAIN m_tex = 1 .. Len(m_tex) /\ \A i \in 1 .. Len(m_tex) : m_tex[i] \in Image
  BY DEF GlyInv
<1>3. ASSUME NEW i \in 1 .. Len(m_tex)
      PROVE  /\ [m_tex[i] EXCEPT !.shown = {}] \in Image
             /\ \A g \in Glyph : Lies(g, m_tex[i]) => Lies(g, m_tex[i])'
  <2> DEFINE t == m_tex[i]
             n == [t EXCEPT !.shown = {}]
             Pictures == [Pixel -> Code \cup {"blank", "edge"}]
             Pen == 0 .. TextureSize - 1
             Bottom == 0 .. TextureSize
             Shown == SUBSET Pixel
  <2>1. Image = [image : Pictures, pen_x : Pen, pen_y : Pen, pen_bottom : Bottom,
                 dirty : Bounds, texture : BOOLEAN, shown : Shown]
    BY DEF Image
  <2>2. t \in Image /\ {} \in Shown /\ m_tex'[i] = n
    BY <1>1, <1>2
  <2> HIDE DEF Pictures, Pen, Bottom, Shown, t
  <2>3. /\ n \in Image /\ n.image = t.image /\ n.pen_x = t.pen_x /\ n.pen_y = t.pen_y
        /\ n.pen_bottom = t.pen_bottom /\ n.texture = t.texture /\ n.dirty = t.dirty
    BY <2>1, <2>2
  <2> HIDE DEF n
  <2>4. \A g \in Glyph : Lies(g, t) =>
          Passed(g, n) /\ Drawn(g, n) /\ (n.texture => WithEdge(g) \subseteq Dirty(n))
    BY <1>1, <2>3 DEF Lies, Passed, Drawn, Marked, Dirty
  <2>5. \A g \in Glyph : Lies(g, t) => Lies(g, m_tex[i])'
    BY <1>1, <2>2, <2>4 DEF Lies, Passed, Drawn, Marked, Dirty
  <2> QED BY <2>3, <2>5 DEF t, n
<1>4. m_tex' \in Seq(Image) /\ Len(m_tex') = Len(m_tex)
  BY <1>1, <1>2, <1>3
<1> QED BY <1>1, <1>2, <1>3, <1>4, Stays

\* The constructor caches the space.
LEMMA FirstGlyph == SpaceFits /\ GlyphInit => GlyInv
<1> SUFFICES ASSUME SpaceFits, GlyphInit PROVE GlyInv
  OBVIOUS
<1> DEFINE b == BitmapOf(Space)
           t == PenOpened(NewImage)
           n == Written(t, b, Space)
           g == [code |-> Space, at |-> 1, x |-> 1, y |-> 1, w |-> b[1], h |-> b[2]]
<1>1. has_device = TRUE /\ m_tex = <<n>> /\ m_map = {g}
  BY DEF GlyphInit
<1>2. b \in Nat \X Nat /\ Fits(1, 1, b) /\ Space \in Code
  BY GlyphAssumption DEF SpaceFits
<1>3. NewImage \in Image
  BY <1>1, NewIs
<1>4. t \in Image /\ t.pen_x = 1 /\ t.pen_y = 1
  <2>1. t = [NewImage EXCEPT !.pen_x = 1, !.pen_y = 1] /\ 1 \in 0 .. TextureSize - 1
    BY SizeKnown DEF PenOpened, NewImage
  <2> HIDE DEF t
  <2>2. LET o == [NewImage EXCEPT !.pen_x = 1, !.pen_y = 1] IN o \in Image /\ o.pen_x = 1 /\ o.pen_y = 1
    BY <2>1, <1>3, PenSet
  <2> QED BY <2>1, <2>2
<1> HIDE DEF b, t
<1>5. n \in Image /\ Lies(g, n)
  BY <1>2, <1>4, WrittenThere
<1>6. g \in Glyph /\ g.at = 1
  BY <1>2 DEF Glyph
<1> HIDE DEF n, g
<1> QED BY <1>1, <1>5, <1>6 DEF GlyInv

\* Every operation of the manager.
LEMMA GlyphsStep == ASSUME SpaceFits, GlyInv, [GlyphNext]_glyphVars PROVE GlyInv'
<1>1. ASSUME NEW code \in Code, cacheGlyph(code) PROVE GlyInv'
  <2>1. CASE renderCache(code)
    BY <1>1, <2>1, Rendered DEF cacheGlyph
  <2>2. CASE renderCacheFails(code)
    BY <1>1, <2>2, RenderFails DEF cacheGlyph
  <2>3. CASE UNCHANGED <<m_tex, m_map>>
    BY <1>1, <2>3 DEF cacheGlyph, GlyInv, Lies, Passed, Drawn, Marked
  <2> QED BY <1>1, <2>1, <2>2, <2>3 DEF cacheGlyph
<1>2. CASE UNCHANGED glyphVars
  BY <1>2 DEF glyphVars, GlyInv, Lies, Passed, Drawn, Marked
<1> QED BY <1>1, <1>2, FlushKeeps, DestroyKeeps, CreateKeeps DEF GlyphNext

\* What the places of the glyphs are for.
LEMMA GlyphsHold == SpaceFits /\ GlyInv => GlyphInv
<1> SUFFICES ASSUME SpaceFits, GlyInv PROVE GlyphInv
  OBVIOUS
<1>1. Len(m_tex) \in Nat /\ DOMAIN m_tex = 1 .. Len(m_tex) /\ \A i \in 1 .. Len(m_tex) : m_tex[i] \in Image
  BY DEF GlyInv
<1>2. GlyphTypeOK
  BY <1>1 DEF GlyphTypeOK, GlyInv, Image, Glyph
<1>3. ASSUME NEW g \in m_map PROVE Cardinality(WithEdge(g)) = (g.w + 2) * (g.h + 2)
  <2>1. Passed(g, m_tex[g.at]) /\ g \in Glyph
    BY DEF GlyInv, Lies
  <2> DEFINE l == g.x - 1
             u == g.y - 1
             r == g.x + g.w + 1
             d == g.y + g.h + 1
  <2>2. /\ l \in Nat /\ u \in Nat /\ r \in Nat /\ d \in Nat /\ TextureSize \in Nat
        /\ l <= r /\ u <= d /\ r <= TextureSize /\ d <= TextureSize
        /\ r - l = g.w + 2 /\ d - u = g.h + 2
    BY <2>1, SizeKnown DEF Passed, Glyph
  <2>3. WithEdge(g) = Rectangle(l, u, r, d)
    BY DEF WithEdge
  <2> HIDE DEF l, u, r, d
  <2> QED BY <2>2, <2>3, RectangleCount
<1>4. GlyphsKept
  BY <1>3 DEF GlyInv, Lies, Drawn, GlyphsKept
<1>5. DirtyCovers
  BY DEF GlyInv, Lies, Marked, DirtyCovers
<1> QED BY <1>2, <1>4, <1>5 DEF GlyphInv

\* For every set of code points, fonts and size of the images, however many
\* glyphs are cached and however often the device is lost and uploads fail:
\* every cached glyph is whole with its edge in its image, and what its texture
\* does not show of it is dirty (FreeTypeGlyphManager).
THEOREM GlyphsWhole == ASSUME SpaceFits PROVE GlyphSpec => []GlyphInv
<1>1. GlyphInit => GlyInv
  BY FirstGlyph
<1>2. GlyInv /\ [GlyphNext]_glyphVars => GlyInv'
  BY GlyphsStep
<1>3. GlyInv => GlyphInv
  BY GlyphsHold
<1> QED BY <1>1, <1>2, <1>3, PTL DEF GlyphSpec
------------------------------------------------------------------------------
(* The sweep of a particle pool, as long as the array may be.              *)

Particle == [n : Nat, age : Nat, terminal : Nat]
Work     == {w \in [s : Seq(Particle), i : Nat] : w.i > 0}

Older(p, delta) == [p EXCEPT !.age = @ + delta]
Expires(p, delta) == p.age + delta >= p.terminal

\* The rounds from the first to the last.
Rounds(g, s, delta) ==
  /\ g[0] = [s |-> s, i |-> 1]
  /\ \A k \in 1 .. Len(s) : g[k] = Round(g[k - 1], delta)

LEMMA LeastRound ==
  ASSUME NEW S \in SUBSET Nat, S # {} PROVE \E x \in S : \A y \in S : x <= y
<1> DEFINE Below == OpToRel(<, Nat)
<1>1. IsWellFoundedOn(Below, Nat)
  BY NatLessThanWellFounded
<1>2. \A x, y \in Nat : y < x => <<y, x>> \in Below
  BY DEF OpToRel
<1> HIDE DEF Below
<1>3. PICK x \in S : \A y \in S : ~ (<<y, x>> \in Below)
  BY <1>1, WFMin
<1>4. \A y \in S : ~ (y < x)
  BY <1>2, <1>3
<1> QED BY <1>4

\* What a function does again and again is a sequence of its values.
Iterates(g, step, a, n) == g[0] = a /\ \A k \in 1 .. n : g[k] = step[g[k - 1]]

LEMMA Iterated ==
  ASSUME NEW S, NEW step \in [S -> S], NEW a \in S, NEW n \in Nat
  PROVE  \E g \in [0 .. n -> S] : Iterates(g, step, a, n)
<1> DEFINE Good(m) == \E g \in [0 .. m -> S] : Iterates(g, step, a, m)
           Bad == {m \in Nat : ~ Good(m)}
<1>1. Good(0)
  <2> DEFINE g == [k \in 0 .. 0 |-> a]
  <2>1. g \in [0 .. 0 -> S] /\ g[0] = a /\ \A k \in 1 .. 0 : g[k] = step[g[k - 1]]
    OBVIOUS
  <2> QED BY <2>1 DEF Iterates
<1>2. ASSUME NEW m \in Nat, Good(m) PROVE Good(m + 1)
  <2>1. PICK g \in [0 .. m -> S] : g[0] = a /\ \A k \in 1 .. m : g[k] = step[g[k - 1]]
    BY <1>2 DEF Iterates
  <2> DEFINE h == [k \in 0 .. m + 1 |-> IF k = m + 1 THEN step[g[m]] ELSE g[k]]
  <2>2. h \in [0 .. m + 1 -> S]
    <3>1. step[g[m]] \in S
      BY <2>1
    <3>2. \A k \in 0 .. m + 1 : k # m + 1 => g[k] \in S
      BY <2>1
    <3> QED BY <3>1, <3>2
  <2>3. h[0] = a
    BY <2>1
  <2>4. ASSUME NEW k \in 1 .. m + 1 PROVE h[k] = step[h[k - 1]]
    <3>1. CASE k = m + 1
      BY <3>1
    <3>2. CASE k # m + 1
      BY <2>1, <3>2
    <3> QED BY <3>1, <3>2
  <2> HIDE DEF h
  <2> QED BY <2>2, <2>3, <2>4 DEF Iterates
<1> HIDE DEF Good
<1>3. Bad = {}
  <2> SUFFICES ASSUME Bad # {} PROVE FALSE
    OBVIOUS
  <2>1. PICK m \in Bad : \A y \in Bad : m <= y
    BY LeastRound
  <2>2. m # 0
    BY <1>1
  <2>3. m - 1 \in Nat /\ m - 1 \notin Bad
    BY <2>1, <2>2
  <2>4. Good(m - 1) /\ (m - 1) + 1 = m
    BY <2>3
  <2> QED BY <1>2, <2>3, <2>4
<1> QED BY <1>3 DEF Good

\* An array without the particle at an index.
LEMMA LastMoves ==
  ASSUME NEW s \in Seq(Particle), NEW i \in 1 .. Len(s)
  PROVE  /\ WithLastAt(s, i) \in Seq(Particle) /\ Len(WithLastAt(s, i)) = Len(s) - 1
         /\ \A j \in 1 .. Len(s) - 1 : WithLastAt(s, i)[j] = IF j = i THEN s[Len(s)] ELSE s[j]
<1> DEFINE n == Len(s)
           f == Front(s)
<1>1. n \in Nat /\ n > 0 /\ \A j \in 1 .. n : s[j] \in Particle
  BY LenProperties, ElementOfSeq
<1>2. f = [j \in 1 .. n - 1 |-> s[j]]
  BY <1>1 DEF Front
<1>3. f \in Seq(Particle) /\ Len(f) = n - 1 /\ \A j \in 1 .. n - 1 : f[j] = s[j]
  BY <1>1, <1>2
<1>4. CASE i < n
  <2>1. WithLastAt(s, i) = [f EXCEPT ![i] = s[n]]
    BY <1>4 DEF WithLastAt, Last
  <2>2. i \in 1 .. n - 1 /\ s[n] \in Particle /\ DOMAIN f = 1 .. n - 1
    BY <1>1, <1>2, <1>4
  <2> HIDE DEF f
  <2>3. [f EXCEPT ![i] = s[n]] = [j \in 1 .. n - 1 |-> IF j = i THEN s[n] ELSE s[j]]
    BY <1>3, <2>2
  <2> HIDE DEF n
  <2>4. WithLastAt(s, i) \in [1 .. n - 1 -> Particle]
    <3>1. \A j \in 1 .. n - 1 : (IF j = i THEN s[n] ELSE s[j]) \in Particle
      BY <1>1, <2>2
    <3> QED BY <2>1, <2>3, <3>1
  <2>5. WithLastAt(s, i) \in Seq(Particle) /\ Len(WithLastAt(s, i)) = n - 1
    BY <1>1, <2>4
  <2> QED BY <2>1, <2>3, <2>5 DEF n
<1>5. CASE i = n
  BY <1>1, <1>3, <1>5 DEF WithLastAt
<1> QED BY <1>1, <1>4, <1>5

LEMMA OlderIs ==
  ASSUME NEW p \in Particle, NEW delta \in Nat
  PROVE  /\ Older(p, delta) \in Particle /\ Older(p, delta).age = p.age + delta
         /\ Older(p, delta).n = p.n /\ Older(p, delta).terminal = p.terminal
BY DEF Older, Particle

\* One round.
LEMMA RoundIs ==
  ASSUME NEW w \in Work, NEW delta \in Nat
  PROVE  LET n == Len(w.s)  v == Round(w, delta)  p == w.s[w.i] IN
         /\ v \in Work /\ n \in Nat
         /\ w.i <= n => p \in Particle
         /\ w.i <= n /\ Expires(p, delta) =>
              /\ v.i = w.i /\ Len(v.s) = n - 1
              /\ \A j \in 1 .. n - 1 : v.s[j] = IF j = w.i THEN w.s[n] ELSE w.s[j]
         /\ w.i <= n /\ ~ Expires(p, delta) =>
              /\ v.i = w.i + 1 /\ Len(v.s) = n
              /\ \A j \in 1 .. n : v.s[j] = IF j = w.i THEN Older(p, delta) ELSE w.s[j]
<1> DEFINE n == Len(w.s)
           v == Round(w, delta)
           p == w.s[w.i]
<1>1. w.s \in Seq(Particle) /\ w.i \in Nat /\ w.i > 0 /\ n \in Nat /\ w = [s |-> w.s, i |-> w.i]
  BY LenProperties DEF Work
<1>2. CASE w.i > n
  BY <1>1, <1>2 DEF Round
<1>3. CASE w.i <= n
  <2>1. w.i \in 1 .. n
    BY <1>1, <1>3
  <2>2. p \in Particle
    BY <1>1, <2>1, ElementOfSeq
  <2>3. /\ Older(p, delta).age = p.age + delta /\ Older(p, delta).terminal = p.terminal
        /\ Older(p, delta) \in Particle
    BY <2>2, OlderIs
  <2>4. v = IF Expires(p, delta) THEN [w EXCEPT !.s = WithLastAt(w.s, w.i)]
            ELSE [s |-> [w.s EXCEPT ![w.i] = Older(p, delta)], i |-> w.i + 1]
    BY <1>1, <1>3, <2>3 DEF Round, Expires, Older
  <2> HIDE DEF v, p
  <2>5. CASE Expires(p, delta)
    <3> DEFINE u == WithLastAt(w.s, w.i)
    <3>1. /\ u \in Seq(Particle) /\ Len(u) = n - 1
          /\ \A j \in 1 .. n - 1 : u[j] = IF j = w.i THEN w.s[n] ELSE w.s[j]
      BY <1>1, <2>1, LastMoves
    <3> HIDE DEF u
    <3>2. v = [s |-> u, i |-> w.i]
      BY <1>1, <2>4, <2>5 DEF u
    <3>3. v \in Work /\ v.s = u /\ v.i = w.i
      BY <1>1, <3>1, <3>2 DEF Work
    <3> QED BY <1>1, <2>2, <2>5, <3>1, <3>3 DEF p, v
  <2>6. CASE ~ Expires(p, delta)
    <3> DEFINE u == [w.s EXCEPT ![w.i] = Older(p, delta)]
    <3>1. /\ u \in Seq(Particle) /\ Len(u) = n
          /\ \A j \in 1 .. n : u[j] = IF j = w.i THEN Older(p, delta) ELSE w.s[j]
      BY <1>1, <2>1, <2>3
    <3> HIDE DEF u
    <3>2. v = [s |-> u, i |-> w.i + 1]
      BY <2>4, <2>6 DEF u
    <3>3. v \in Work /\ v.s = u /\ v.i = w.i + 1
      BY <1>1, <3>1, <3>2 DEF Work
    <3> QED BY <1>1, <2>2, <2>6, <3>1, <3>3 DEF p, v
  <2> QED BY <2>5, <2>6
<1> QED BY <1>1, <1>2, <1>3

\* Aged is what the last round leaves.
LEMMA AgedIs ==
  ASSUME NEW s \in Seq(Particle), NEW delta \in Nat
  PROVE  \E g : Rounds(g, s, delta) /\ Aged(s, delta) = g[Len(s)].s
<1> DEFINE n == Len(s)
           a == [s |-> s, i |-> 1]
           step == [w \in Work |-> Round(w, delta)]
           Def(f) == f = [k \in 0 .. n |-> IF k = 0 THEN a ELSE Round(f[k - 1], delta)]
           h == CHOOSE f : Def(f)
<1>1. n \in Nat /\ a \in Work
  BY LenProperties DEF Work
<1>2. step \in [Work -> Work] /\ \A w \in Work : step[w] = Round(w, delta)
  BY RoundIs
<1> HIDE DEF step, a
<1>3. PICK g \in [0 .. n -> Work] : g[0] = a /\ \A k \in 1 .. n : g[k] = step[g[k - 1]]
  <2> HIDE DEF n
  <2>1. \E g \in [0 .. n -> Work] : Iterates(g, step, a, n)
    BY <1>1, <1>2, Iterated
  <2> QED BY <2>1 DEF Iterates
<1>4. \A k \in 0 .. n : g[k] = IF k = 0 THEN a ELSE Round(g[k - 1], delta)
  <2> SUFFICES ASSUME NEW k \in 0 .. n, k # 0 PROVE g[k] = Round(g[k - 1], delta)
    BY <1>3
  <2>1. k \in 1 .. n /\ k - 1 \in 0 .. n
    BY <1>1
  <2> QED BY <1>2, <1>3, <2>1
<1>5. Def(g)
  BY <1>3, <1>4
<1>6. Def(h)
  <2> HIDE DEF Def
  <2> QED BY <1>5
<1>7. Aged(s, delta) = h[n].s
  BY DEF Aged, a
<1> HIDE DEF h
<1>8. h[0] = a /\ \A k \in 1 .. n : h[k] = Round(h[k - 1], delta)
  <2>1. \A k \in 0 .. n : h[k] = IF k = 0 THEN a ELSE Round(h[k - 1], delta)
    BY <1>6
  <2> QED BY <1>1, <2>1
<1>9. Rounds(h, s, delta)
  BY <1>8 DEF Rounds, a
<1> QED BY <1>7, <1>9

\* After k rounds: f tells from which place of the array each particle comes.
\* Those behind the index are older, and no other than expired ones are gone.
Swept(f, w, s, delta, k) ==
  /\ w \in Work /\ Len(w.s) + 1 - w.i = Len(s) - k
  /\ f \in [1 .. Len(w.s) -> 1 .. Len(s)]
  /\ \A i, j \in 1 .. Len(w.s) : f[i] = f[j] => i = j
  /\ \A j \in 1 .. Len(w.s) :
       IF j < w.i THEN ~ Expires(s[f[j]], delta) /\ w.s[j] = Older(s[f[j]], delta)
       ELSE w.s[j] = s[f[j]]
  /\ \A q \in 1 .. Len(s) : ~ Expires(s[q], delta) => \E j \in 1 .. Len(w.s) : f[j] = q

LEMMA SweptOn ==
  ASSUME NEW s \in Seq(Particle), NEW delta \in Nat, NEW k \in 1 .. Len(s),
         NEW f, NEW w, Swept(f, w, s, delta, k - 1)
  PROVE  \E g : Swept(g, Round(w, delta), s, delta, k)
<1> DEFINE n == Len(s)
           m == Len(w.s)
           i == w.i
           p == w.s[i]
           v == Round(w, delta)
<1>1. w \in Work /\ n \in Nat /\ m \in Nat /\ i \in Nat /\ i > 0 /\ i <= m /\ m + 1 - i = n - (k - 1)
  <2>1. w \in Work /\ m + 1 - i = n - (k - 1)
    BY DEF Swept
  <2>2. n \in Nat /\ m \in Nat /\ i \in Nat /\ i > 0
    BY <2>1, LenProperties DEF Work
  <2> QED BY <2>1, <2>2
<1>2. /\ v \in Work /\ p \in Particle
      /\ Expires(p, delta) => /\ v.i = i /\ Len(v.s) = m - 1
                             /\ \A j \in 1 .. m - 1 : v.s[j] = IF j = i THEN w.s[m] ELSE w.s[j]
      /\ ~ Expires(p, delta) => /\ v.i = i + 1 /\ Len(v.s) = m
                               /\ \A j \in 1 .. m : v.s[j] = IF j = i THEN Older(p, delta) ELSE w.s[j]
  BY <1>1, RoundIs
<1>3. /\ f \in [1 .. m -> 1 .. n]
      /\ \A h, j \in 1 .. m : f[h] = f[j] => h = j
      /\ \A j \in 1 .. m : j < i => ~ Expires(s[f[j]], delta) /\ w.s[j] = Older(s[f[j]], delta)
      /\ \A j \in 1 .. m : ~ j < i => w.s[j] = s[f[j]]
      /\ \A q \in 1 .. n : ~ Expires(s[q], delta) => \E j \in 1 .. m : f[j] = q
  BY DEF Swept
<1>4. i \in 1 .. m /\ m \in 1 .. m /\ p = s[f[i]] /\ w.s[m] = s[f[m]]
  <2>1. i \in 1 .. m /\ m \in 1 .. m /\ ~ i < i /\ ~ m < i
    BY <1>1
  <2> HIDE DEF n, m, i
  <2> QED BY <1>3, <2>1
<1> HIDE DEF n, m, i, p, v
<1>5. CASE Expires(p, delta)
  <2> DEFINE g == [j \in 1 .. m - 1 |-> IF j = i THEN f[m] ELSE f[j]]
  <2>1. /\ g \in [1 .. m - 1 -> 1 .. n]
        /\ \A j \in 1 .. m - 1 : g[j] = IF j = i THEN f[m] ELSE f[j]
    <3>1. \A j \in 1 .. m - 1 : j \in 1 .. m /\ f[j] \in 1 .. n
      BY <1>1, <1>3
    <3>2. f[m] \in 1 .. n
      BY <1>3, <1>4
    <3> QED BY <3>1, <3>2
  <2> HIDE DEF g
  <2>2. ASSUME NEW h \in 1 .. m - 1, NEW j \in 1 .. m - 1, g[h] = g[j] PROVE h = j
    <3>1. h \in 1 .. m /\ j \in 1 .. m /\ h # m /\ j # m
      BY <1>1
    <3> QED BY <1>3, <1>4, <2>1, <2>2, <3>1
  <2>3. ASSUME NEW j \in 1 .. m - 1
        PROVE  IF j < i THEN ~ Expires(s[g[j]], delta) /\ v.s[j] = Older(s[g[j]], delta)
               ELSE v.s[j] = s[g[j]]
    <3>1. j \in 1 .. m
      BY <1>1
    <3>2. CASE j = i
      BY <1>1, <1>2, <1>4, <1>5, <2>1, <3>2
    <3>3. CASE j # i
      BY <1>2, <1>3, <1>5, <2>1, <3>1, <3>3
    <3> QED BY <3>2, <3>3
  <2>4. ASSUME NEW q \in 1 .. n, ~ Expires(s[q], delta) PROVE \E j \in 1 .. m - 1 : g[j] = q
    <3>1. PICK j \in 1 .. m : f[j] = q
      BY <1>3, <2>4
    <3>2. j # i
      BY <1>4, <1>5, <2>4, <3>1
    <3>3. CASE j = m
      <4>1. i \in 1 .. m - 1 /\ g[i] = f[m]
        BY <1>1, <1>4, <2>1, <3>2, <3>3
      <4> QED BY <3>1, <3>3, <4>1
    <3>4. CASE j # m
      <4>1. j \in 1 .. m - 1 /\ g[j] = f[j]
        BY <1>1, <2>1, <3>2, <3>4
      <4> QED BY <3>1, <4>1
    <3> QED BY <3>3, <3>4
  <2>5. (m - 1) + 1 - i = n - k
    BY <1>1
  <2>6. Swept(g, v, s, delta, k)
    BY <1>2, <1>5, <2>1, <2>2, <2>3, <2>4, <2>5 DEF Swept, n
  <2> QED BY <2>6 DEF v
<1>6. CASE ~ Expires(p, delta)
  <2>1. ASSUME NEW j \in 1 .. m
        PROVE  IF j < i + 1 THEN ~ Expires(s[f[j]], delta) /\ v.s[j] = Older(s[f[j]], delta)
               ELSE v.s[j] = s[f[j]]
    <3>1. CASE j = i
      BY <1>1, <1>2, <1>4, <1>6, <3>1
    <3>2. CASE j # i
      BY <1>1, <1>2, <1>3, <1>6, <3>2
    <3> QED BY <3>1, <3>2
  <2>2. m + 1 - (i + 1) = n - k
    BY <1>1
  <2>3. Swept(f, v, s, delta, k)
    BY <1>2, <1>3, <1>6, <2>1, <2>2 DEF Swept, n
  <2> QED BY <2>3 DEF v
<1> QED BY <1>5, <1>6

\* Whatever expires at whichever places: the sweep keeps each particle that does
\* not, once and older by the time that has passed, and nothing else.
LEMMA SweepIs ==
  ASSUME NEW s \in Seq(Particle), NEW delta \in Nat
  PROVE  LET t == Aged(s, delta) IN
         /\ t \in Seq(Particle) /\ Len(t) <= Len(s)
         /\ \E f \in [1 .. Len(t) -> 1 .. Len(s)] :
              /\ \A i, j \in 1 .. Len(t) : f[i] = f[j] => i = j
              /\ \A j \in 1 .. Len(t) : ~ Expires(s[f[j]], delta) /\ t[j] = Older(s[f[j]], delta)
              /\ \A q \in 1 .. Len(s) : ~ Expires(s[q], delta) => \E j \in 1 .. Len(t) : f[j] = q
<1> DEFINE n == Len(s)
           t == Aged(s, delta)
<1>1. n \in Nat
  BY LenProperties
<1>2. PICK g : Rounds(g, s, delta) /\ t = g[n].s
  BY AgedIs
<1> DEFINE Good(k) == \E f : Swept(f, g[k], s, delta, k)
           Bad == {k \in 0 .. n : ~ Good(k)}
<1>3. Good(0)
  <2> DEFINE f == [j \in 1 .. n |-> j]
             w == [s |-> s, i |-> 1]
  <2>1. w \in Work /\ w.s = s /\ w.i = 1
    BY DEF Work
  <2>2. f \in [1 .. n -> 1 .. n] /\ \A j \in 1 .. n : f[j] = j
    OBVIOUS
  <2> HIDE DEF f, w
  <2>3. Swept(f, w, s, delta, 0)
    BY <1>1, <2>1, <2>2 DEF Swept
  <2> QED BY <1>2, <2>3 DEF Rounds, w
<1>4. ASSUME NEW k \in 1 .. n, Good(k - 1) PROVE Good(k)
  BY <1>2, <1>4, SweptOn DEF Rounds
<1> HIDE DEF Good
<1>5. Bad = {}
  <2> SUFFICES ASSUME Bad # {} PROVE FALSE
    OBVIOUS
  <2>1. PICK k \in Bad : \A y \in Bad : k <= y
    <3>1. Bad \in SUBSET Nat
      BY <1>1
    <3> QED BY <3>1, LeastRound
  <2>2. k # 0
    BY <1>3
  <2>3. k \in 1 .. n /\ k - 1 \in 0 .. n /\ k - 1 \notin Bad
    BY <1>1, <2>1, <2>2
  <2> QED BY <1>4, <2>3
<1>6. PICK f : Swept(f, g[n], s, delta, n)
  BY <1>1, <1>5 DEF Good
<1>7. t \in Seq(Particle) /\ Len(t) \in Nat /\ g[n].i = Len(t) + 1
  <2>1. g[n] \in Work /\ Len(t) + 1 - g[n].i = n - n
    BY <1>2, <1>6 DEF Swept
  <2>2. t \in Seq(Particle) /\ Len(t) \in Nat /\ g[n].i \in Nat
    BY <1>2, <2>1, LenProperties DEF Work
  <2> QED BY <1>1, <2>1, <2>2
<1> HIDE DEF t, n
<1>8. /\ f \in [1 .. Len(t) -> 1 .. n]
      /\ \A i, j \in 1 .. Len(t) : f[i] = f[j] => i = j
      /\ \A j \in 1 .. Len(t) : ~ Expires(s[f[j]], delta) /\ t[j] = Older(s[f[j]], delta)
      /\ \A q \in 1 .. n : ~ Expires(s[q], delta) => \E j \in 1 .. Len(t) : f[j] = q
  BY <1>2, <1>6, <1>7 DEF Swept, n
<1>9. Len(t) <= n
  <2>1. f \in Injection(1 .. Len(t), 1 .. n)
    BY <1>8 DEF Injection, IsInjective
  <2>2. IsFiniteSet(1 .. Len(t)) /\ IsFiniteSet(1 .. n) /\ Cardinality(1 .. Len(t)) = Len(t)
        /\ Cardinality(1 .. n) = n
    <3>1. \A a \in Nat : IsFiniteSet(1 .. a) /\ Cardinality(1 .. a) = a
      BY FS_Interval
    <3> QED BY <1>1, <1>7, <3>1
  <2>3. Cardinality(1 .. Len(t)) <= Cardinality(1 .. n)
    BY <2>1, <2>2, FS_Injection
  <2> QED BY <2>2, <2>3
<1> QED BY <1>7, <1>8, <1>9 DEF t, n

------------------------------------------------------------------------------
(* What a pool keeps, and what it owes.                                    *)

PartIInv ==
  /\ m_ParticlePool \in Seq(Particle) /\ Len(m_ParticlePool) <= MaxCount
  /\ alive \in BOOLEAN /\ m_fAge \in Nat /\ m_fEmissionResidue \in 0 .. Rate - 1
  /\ nEmission \in Nat /\ fLifetime \in Int /\ clock \in Nat
  /\ made \in Nat /\ ordered \in Nat
  /\ \A i \in 1 .. Len(m_ParticlePool) : m_ParticlePool[i].n <= made
  /\ EachAgedOnce /\ EmissionExact

LEMMA PartStarts == ParticleInit => PartIInv
<1> SUFFICES ASSUME ParticleInit PROVE PartIInv
  OBVIOUS
<1>1. /\ m_ParticlePool = << >> /\ alive = TRUE /\ m_fAge = 0 /\ m_fEmissionResidue = 0
      /\ nEmission \in Nat /\ fLifetime \in Int /\ clock = 0 /\ expected = {} /\ ordered = 0 /\ made = 0
      /\ Rate \in Nat \ {0} /\ MaxCount \in Nat
  BY ParticleAssumption DEF ParticleInit
<1>2. << >> \in Seq(Particle) /\ Len(<< >>) = 0 /\ DOMAIN << >> = {}
  OBVIOUS
<1>3. EachAgedOnce
  BY <1>1, <1>2 DEF EachAgedOnce, Range
<1>4. EmissionExact
  BY <1>1 DEF EmissionExact
<1> QED BY <1>1, <1>2, <1>3, <1>4 DEF PartIInv

\* The whole particles and the fraction that is left are what was owed.
LEMMA Divided ==
  ASSUME NEW a \in Nat
  PROVE  a \div Rate \in Nat /\ a % Rate \in 0 .. Rate - 1
         /\ ((a \div Rate) * Rate) + (a % Rate) = a
<1> DEFINE b == Rate
<1>1. b \in Nat \ {0}
  BY ParticleAssumption
<1> HIDE DEF b
<1>2. a \div b \in Nat
  BY <1>1, SMT
<1>3. a % b \in 0 .. b - 1
  BY <1>1, SMT
<1>4. ((a \div b) * b) + (a % b) = a
  BY <1>1, SMT
<1> QED BY <1>2, <1>3, <1>4 DEF b

LEMMA Distributes ==
  ASSUME NEW a \in Nat, NEW b \in Nat
  PROVE  (a + b) * Rate = a * Rate + b * Rate /\ a * Rate \in Nat /\ b * Rate \in Nat
BY ParticleAssumption

\* Nothing is lost between what is ordered and what is made.
LEMMA EmissionStays ==
  ASSUME PartIInv, NEW age \in Nat, NEW delta \in Nat, Updated(age, delta)
  PROVE  /\ EmissionExact' /\ made' \in Nat /\ ordered' \in Nat /\ made <= made'
         /\ m_fEmissionResidue' \in 0 .. Rate - 1
<1> DEFINE awake == alive /\ ~ (age + delta >= fLifetime /\ fLifetime >= 0)
           more  == nEmission * delta
           need  == more + m_fEmissionResidue
           count == IF awake THEN need \div Rate ELSE 0
<1>1. /\ m_fEmissionResidue' = IF awake THEN need % Rate ELSE m_fEmissionResidue
      /\ ordered' = IF awake THEN ordered + more ELSE ordered
      /\ made' = made + count
  BY DEF Updated
<1>2. /\ more \in Nat /\ m_fEmissionResidue \in Nat /\ made \in Nat /\ ordered \in Nat
      /\ m_fEmissionResidue \in 0 .. Rate - 1 /\ made * Rate + m_fEmissionResidue = ordered
  BY ParticleAssumption DEF PartIInv, EmissionExact
<1> HIDE DEF awake, more
<1>3. CASE awake
  <2> DEFINE q == need \div Rate
             r == need % Rate
  <2>1. need \in Nat
    BY <1>2
  <2> HIDE DEF need
  <2>2. q \in Nat /\ r \in 0 .. Rate - 1 /\ (q * Rate) + r = need
    BY <2>1, Divided
  <2>3. m_fEmissionResidue' = r /\ ordered' = ordered + more /\ made' = made + q
    BY <1>1, <1>3
  <2> HIDE DEF q, r
  <2>4. (made + q) * Rate = made * Rate + q * Rate /\ made * Rate \in Nat /\ q * Rate \in Nat
    BY <1>2, <2>2, Distributes
  <2> DEFINE x == made * Rate
             y == q * Rate
  <2>5. need = more + m_fEmissionResidue
    BY DEF need
  <2>6. made' * Rate = x + y /\ x \in Nat /\ y \in Nat /\ y + r = need
        /\ x + m_fEmissionResidue = ordered
    BY <1>2, <2>2, <2>3, <2>4
  <2> HIDE DEF x, y
  <2>7. x + y + r = ordered + more /\ r \in Nat
    BY <1>2, <2>2, <2>5, <2>6, ParticleAssumption
  <2> QED BY <1>2, <2>2, <2>3, <2>6, <2>7 DEF EmissionExact
<1>4. CASE ~ awake
  <2>1. m_fEmissionResidue' = m_fEmissionResidue /\ ordered' = ordered /\ made' = made
    BY <1>1, <1>2, <1>4
  <2> QED BY <1>2, <2>1 DEF EmissionExact
<1> QED BY <1>3, <1>4

\* The particles of the pool, and the ages they should have.
Entry(p, now) == [n |-> p.n, born |-> now - p.age, life |-> p.terminal]

LEMMA UpdateKeeps ==
  ASSUME PartIInv, NEW age \in Nat, NEW delta \in Nat, Updated(age, delta)
  PROVE  PartIInv'
<1> DEFINE s     == m_ParticlePool
           old   == Aged(s, delta)
           awake == alive /\ ~ (age + delta >= fLifetime /\ fLifetime >= 0)
           count == IF awake THEN (nEmission * delta + m_fEmissionResidue) \div Rate ELSE 0
           room  == IF count <= MaxCount - Len(old) THEN count ELSE MaxCount - Len(old)
           now   == clock + delta
<1>1. /\ s \in Seq(Particle) /\ Len(s) <= MaxCount /\ MaxCount \in Nat /\ Len(s) \in Nat
      /\ alive \in BOOLEAN /\ m_fAge \in Nat /\ clock \in Nat /\ made \in Nat
      /\ nEmission \in Nat /\ fLifetime \in Int /\ m_fEmissionResidue \in Nat
      /\ \A i \in 1 .. Len(s) : s[i].n <= made
      /\ Lives \subseteq Nat \ {0}
  BY ParticleAssumption, LenProperties DEF PartIInv
<1>2. PICK lives \in [1 .. room -> Lives] :
        /\ m_ParticlePool' = old \o Created(room, lives)
        /\ expected' = {d \in expected : clock + delta - d.born < d.life}
                  \cup {[n |-> made + k, born |-> clock + delta, life |-> lives[k]] : k \in 1 .. room}
  BY DEF Updated
<1>3. /\ alive' \in BOOLEAN /\ m_fAge' \in Nat /\ clock' = now /\ made' = made + count
      /\ UNCHANGED <<nEmission, fLifetime>>
  BY <1>1 DEF Updated
<1>4. count \in Nat
  <2>1. nEmission * delta + m_fEmissionResidue \in Nat
    BY <1>1
  <2> QED BY <2>1, Divided
<1>5. PICK f \in [1 .. Len(old) -> 1 .. Len(s)] :
        /\ \A i, j \in 1 .. Len(old) : f[i] = f[j] => i = j
        /\ \A j \in 1 .. Len(old) : ~ Expires(s[f[j]], delta) /\ old[j] = Older(s[f[j]], delta)
        /\ \A q \in 1 .. Len(s) : ~ Expires(s[q], delta) => \E j \in 1 .. Len(old) : f[j] = q
  BY <1>1, SweepIs
<1>6. old \in Seq(Particle) /\ Len(old) <= Len(s) /\ Len(old) \in Nat
  BY <1>1, SweepIs, LenProperties
<1>7. room \in Nat /\ room <= count /\ Len(old) + room <= MaxCount
  BY <1>1, <1>4, <1>6
<1>7a. now = clock + delta
  OBVIOUS
<1> HIDE DEF old, count, room, now
<1> DEFINE new == Created(room, lives)
           t   == m_ParticlePool'
           m   == Len(old)
<1>8. /\ new \in Seq(Particle) /\ Len(new) = room
      /\ \A k \in 1 .. room : new[k] = [n |-> made + k, age |-> 0, terminal |-> lives[k]]
  <2>1. \A k \in 1 .. room : [n |-> made + k, age |-> 0, terminal |-> lives[k]] \in Particle
    <3> SUFFICES ASSUME NEW k \in 1 .. room
                 PROVE  [n |-> made + k, age |-> 0, terminal |-> lives[k]] \in Particle
      OBVIOUS
    <3>1. lives[k] \in Nat
      BY <1>1
    <3>2. made + k \in Nat
      BY <1>1, <1>7
    <3> QED BY <3>1, <3>2 DEF Particle
  <2> QED BY <1>7, <2>1 DEF Created
<1> HIDE DEF new
<1>9. /\ t \in Seq(Particle) /\ Len(t) = m + room
      /\ \A i \in 1 .. m : t[i] = old[i]
      /\ \A k \in 1 .. room : t[m + k] = new[k]
  <2>1. t = old \o new
    BY <1>2 DEF new
  <2>2. /\ t \in Seq(Particle) /\ Len(t) = m + room
        /\ \A i \in 1 .. m + room : t[i] = IF i <= m THEN old[i] ELSE new[i - m]
    BY <1>6, <1>8, <2>1, ConcatProperties
  <2> HIDE DEF t
  <2>3. ASSUME NEW k \in 1 .. room PROVE t[m + k] = new[k]
    <3>1. m + k \in 1 .. m + room /\ ~ m + k <= m /\ (m + k) - m = k
      BY <1>6, <1>7
    <3> QED BY <2>2, <3>1
  <2>4. \A i \in 1 .. m : i \in 1 .. m + room /\ i <= m
    BY <1>6, <1>7
  <2> QED BY <2>2, <2>3, <2>4
<1> HIDE DEF t, m
<1>10. m = Len(old) /\ m \in Nat
  BY <1>6 DEF m
\* The ones kept and the ones made.
<1>11. ASSUME NEW i \in 1 .. m
       PROVE  /\ f[i] \in 1 .. Len(s) /\ s[f[i]] \in Particle /\ t[i] = Older(s[f[i]], delta)
              /\ t[i].n = s[f[i]].n /\ t[i].n <= made /\ t[i].n \in Nat
              /\ Entry(t[i], now) = Entry(s[f[i]], clock)
  <2>1. f[i] \in 1 .. Len(s) /\ t[i] = Older(s[f[i]], delta)
    BY <1>5, <1>9, <1>10
  <2>2. s[f[i]] \in Particle
    BY <1>1, <2>1, ElementOfSeq
  <2> DEFINE p == s[f[i]]
  <2>3. /\ t[i].n = p.n /\ t[i].age = p.age + delta /\ t[i].terminal = p.terminal
        /\ p.n \in Nat /\ p.age \in Nat
    <3> HIDE DEF p
    <3>1. p \in Particle /\ t[i] = Older(p, delta)
      BY <2>1, <2>2 DEF p
    <3>2. p.n \in Nat /\ p.age \in Nat
      BY <3>1 DEF Particle
    <3> QED BY <3>1, <3>2, OlderIs
  <2>4. now - t[i].age = clock - p.age
    BY <1>1, <2>3 DEF now
  <2> QED BY <1>1, <2>1, <2>2, <2>3, <2>4 DEF Entry
<1>12. ASSUME NEW k \in 1 .. room
       PROVE  /\ t[m + k].n = made + k /\ k \in Nat /\ k > 0
              /\ Entry(t[m + k], now) = [n |-> made + k, born |-> now, life |-> lives[k]]
  <2>1. t[m + k] = [n |-> made + k, age |-> 0, terminal |-> lives[k]]
    BY <1>8, <1>9
  <2>2. now - 0 = now /\ k \in Nat /\ k > 0
    BY <1>1, <1>7 DEF now
  <2> QED BY <2>1, <2>2 DEF Entry
<1>13. \A i \in 1 .. Len(t) : i \in 1 .. m \/ \E k \in 1 .. room : i = m + k
  <2> SUFFICES ASSUME NEW i \in 1 .. Len(t), i \notin 1 .. m PROVE \E k \in 1 .. room : i = m + k
    OBVIOUS
  <2>1. i - m \in 1 .. room /\ i = m + (i - m)
    BY <1>7, <1>9, <1>10
  <2> QED BY <2>1
<1>14. \A i \in 1 .. m : i \in 1 .. Len(t)
  BY <1>7, <1>9, <1>10
<1>15. \A k \in 1 .. room : m + k \in 1 .. Len(t)
  BY <1>7, <1>9, <1>10
<1>16. EachAgedOnce
  BY DEF PartIInv
<1>17. expected = {Entry(s[i], clock) : i \in 1 .. Len(s)}
       /\ \A i, j \in 1 .. Len(s) : s[i].n = s[j].n => i = j
  <2>1. DOMAIN s = 1 .. Len(s)
    BY <1>1
  <2> QED BY <1>16, <2>1 DEF EachAgedOnce, Range, Entry
<1>18. expected' = {Entry(t[i], now) : i \in 1 .. Len(t)}
  <2>1. ASSUME NEW d \in expected' PROVE \E i \in 1 .. Len(t) : d = Entry(t[i], now)
    <3>1. CASE d \in expected /\ now - d.born < d.life
      <4>1. PICK q \in 1 .. Len(s) : d = Entry(s[q], clock)
        BY <1>17, <3>1
      <4>2. s[q] \in Particle
        BY <1>1, ElementOfSeq
      <4>3. ~ Expires(s[q], delta)
        <5>1. d.born = clock - s[q].age /\ d.life = s[q].terminal
          BY <4>1 DEF Entry
        <5>2. s[q].age \in Nat /\ s[q].terminal \in Nat
          BY <4>2 DEF Particle
        <5> QED BY <1>1, <3>1, <5>1, <5>2 DEF Expires, now
      <4>4. PICK j \in 1 .. m : f[j] = q
        BY <1>5, <1>10, <4>3
      <4> QED BY <1>11, <1>14, <4>1, <4>4
    <3>2. ASSUME NEW k \in 1 .. room, d = [n |-> made + k, born |-> now, life |-> lives[k]]
          PROVE  \E i \in 1 .. Len(t) : d = Entry(t[i], now)
      BY <1>12, <1>15, <3>2
    <3>3. \/ d \in expected /\ clock + delta - d.born < d.life
          \/ \E k \in 1 .. room : d = [n |-> made + k, born |-> clock + delta, life |-> lives[k]]
      BY <1>2, <2>1
    <3>4. CASE d \in expected /\ clock + delta - d.born < d.life
      <4>1. PICK q \in 1 .. Len(s) : d = Entry(s[q], clock)
        BY <1>17, <3>4
      <4>2. d.born = clock - s[q].age /\ d.life = s[q].terminal
        BY <4>1 DEF Entry
      <4>3. s[q] \in Particle
        BY <1>1, ElementOfSeq
      <4>4. d.born \in Int /\ d.life \in Nat
        BY <1>1, <4>2, <4>3 DEF Particle
      <4>5. now - d.born < d.life
        BY <1>1, <1>7a, <3>4, <4>4
      <4> QED BY <3>1, <3>4, <4>5
    <3>5. CASE \E k \in 1 .. room : d = [n |-> made + k, born |-> clock + delta, life |-> lives[k]]
      <4>1. PICK k \in 1 .. room : d = [n |-> made + k, born |-> clock + delta, life |-> lives[k]]
        BY <3>5
      <4>2. d = [n |-> made + k, born |-> now, life |-> lives[k]]
        BY <4>1 DEF now
      <4> QED BY <3>2, <4>2
    <3> QED BY <3>3, <3>4, <3>5
  <2>2. ASSUME NEW i \in 1 .. Len(t) PROVE Entry(t[i], now) \in expected'
    <3>1. CASE i \in 1 .. m
      <4> DEFINE q == f[i]
                 d == Entry(s[q], clock)
      <4>1. q \in 1 .. Len(s) /\ s[q] \in Particle /\ Entry(t[i], now) = d /\ ~ Expires(s[q], delta)
        BY <1>5, <1>10, <1>11, <3>1
      <4>2. d \in expected
        BY <1>17, <4>1
      <4>3. d.born = clock - s[q].age /\ d.life = s[q].terminal
        BY DEF Entry
      <4>4. s[q].age \in Nat /\ s[q].terminal \in Nat
        BY <4>1 DEF Particle
      <4> HIDE DEF d, q
      <4>5. clock + delta - d.born < d.life
        BY <1>1, <4>1, <4>3, <4>4 DEF Expires
      <4> QED BY <1>2, <4>1, <4>2, <4>5
    <3>2. CASE \E k \in 1 .. room : i = m + k
      BY <1>2, <1>12, <3>2 DEF now
    <3> QED BY <1>13, <3>1, <3>2
  <2> QED BY <2>1, <2>2
<1>19. ASSUME NEW i \in 1 .. Len(t), NEW j \in 1 .. Len(t), t[i].n = t[j].n PROVE i = j
  <2>1. CASE i \in 1 .. m /\ j \in 1 .. m
    <3>1. s[f[i]].n = s[f[j]].n /\ f[i] \in 1 .. Len(s) /\ f[j] \in 1 .. Len(s)
      BY <1>11, <1>19, <2>1
    <3>2. f[i] = f[j]
      BY <1>17, <3>1
    <3> QED BY <1>5, <1>10, <2>1, <3>2
  <2>2. ASSUME NEW k \in 1 .. room, i = m + k PROVE i = j
    <3>1. t[i].n = made + k /\ k > 0 /\ k \in Nat
      BY <1>12, <2>2
    <3>2. j \notin 1 .. m
      <4> SUFFICES ASSUME j \in 1 .. m PROVE FALSE
        OBVIOUS
      <4>1. t[j].n <= made /\ t[j].n = made + k
        BY <1>11, <1>19, <3>1
      <4> QED BY <1>1, <3>1, <4>1
    <3>3. PICK l \in 1 .. room : j = m + l
      BY <1>13, <3>2
    <3>4. t[j].n = made + l /\ l \in Nat
      BY <1>12, <3>3
    <3> QED BY <1>1, <1>19, <2>2, <3>1, <3>3, <3>4
  <2>3. ASSUME NEW k \in 1 .. room, j = m + k, i \in 1 .. m PROVE i = j
    <3>1. t[j].n = made + k /\ k > 0 /\ k \in Nat
      BY <1>12, <2>3
    <3> QED BY <1>1, <1>11, <1>19, <2>3, <3>1
  <2> QED BY <1>13, <2>1, <2>2, <2>3
<1>20. EachAgedOnce'
  <2>1. DOMAIN t = 1 .. Len(t)
    BY <1>9
  <2>2. expected' = {[n |-> p.n, born |-> clock' - p.age, life |-> p.terminal] : p \in Range(t)}
    BY <1>3, <1>18, <2>1 DEF Range, Entry
  <2> QED BY <1>19, <2>1, <2>2 DEF EachAgedOnce, t
<1>21. \A i \in 1 .. Len(t) : t[i].n <= made'
  <2>1. ASSUME NEW i \in 1 .. m PROVE t[i].n <= made'
    BY <1>1, <1>3, <1>4, <1>11
  <2>2. ASSUME NEW k \in 1 .. room PROVE t[m + k].n <= made'
    <3>1. t[m + k].n = made + k
      BY <1>12
    <3>2. k \in Nat /\ k <= count
      BY <1>4, <1>7
    <3> QED BY <1>1, <1>3, <1>4, <3>1, <3>2
  <2> QED BY <1>13, <2>1, <2>2
<1>22. clock' \in Nat /\ nEmission' \in Nat /\ fLifetime' \in Int /\ Len(t) <= MaxCount
  BY <1>1, <1>3, <1>7, <1>9, <1>10 DEF now
<1>23. /\ EmissionExact' /\ made' \in Nat /\ ordered' \in Nat /\ m_fEmissionResidue' \in 0 .. Rate - 1
  BY EmissionStays
<1> QED BY <1>3, <1>9, <1>20, <1>21, <1>22, <1>23 DEF PartIInv, t

LEMMA PartStep == ASSUME PartIInv, [ParticleNext]_particleVars PROVE PartIInv'
<1>1. /\ Emissions \subseteq Nat /\ Lifetimes \subseteq Int /\ Deltas \subseteq Nat
      /\ m_fAge \in Nat /\ (IF alive THEN 0 ELSE m_fAge) \in Nat
  BY ParticleAssumption DEF PartIInv
<1>2. ASSUME NEW delta \in Deltas, Update(delta) PROVE PartIInv'
  BY <1>1, <1>2, UpdateKeeps DEF Update
<1>3. CASE UpdateAt(1)
  BY <1>1, <1>3, UpdateKeeps DEF UpdateAt
\* The others leave the particles and what was owed alone.
<1>4. ASSUME UNCHANGED <<m_ParticlePool, m_fEmissionResidue, clock, expected, ordered, made>>,
             alive' \in BOOLEAN, m_fAge' \in Nat, nEmission' \in Nat, fLifetime' \in Int
      PROVE  PartIInv'
  BY <1>4 DEF PartIInv, EachAgedOnce, EmissionExact
<1>5. ASSUME NEW v \in BOOLEAN, SetActive(v) PROVE PartIInv'
  BY <1>4, <1>5 DEF SetActive, KeepClock, PartIInv
<1>6. ASSUME NEW e \in Emissions, SetEmission(e) PROVE PartIInv'
  BY <1>1, <1>4, <1>6 DEF SetEmission, KeepClock, PartIInv
<1>7. ASSUME NEW t \in Lifetimes, setLifetime(t) PROVE PartIInv'
  BY <1>1, <1>4, <1>7 DEF setLifetime, KeepClock, PartIInv
<1>8. CASE UNCHANGED particleVars
  BY <1>4, <1>8 DEF particleVars, PartIInv
<1> QED BY <1>2, <1>3, <1>5, <1>6, <1>7, <1>8 DEF ParticleNext

\* For a pool of any size, any rate and whatever scripts set in between: every
\* particle whose life is not over is there once and as old as it should be, and
\* no fraction of a particle is lost.
THEOREM ParticlesAgedOnce == ParticleSpec => []ParticleInv
<1>1. PartIInv /\ [ParticleNext]_particleVars => PartIInv'
  BY PartStep
<1>2. PartIInv => ParticleInv
  BY DEF PartIInv, ParticleInv, ParticleTypeOK
<1> QED BY <1>1, <1>2, PartStarts, PTL DEF ParticleSpec
==============================================================================
