------------------------------- MODULE TextInput -------------------------------
(***************************************************************************)
(* The text input of a window (class Window): its window procedure         *)
(* feeds it UTF-16 units while it is enabled, scripts edit it by code      *)
(* points through lstg.Window.TextInputExtension.                          *)
(***************************************************************************)
EXTENDS Integers, FiniteSets, Sequences, SequencesExt

CONSTANTS
  Char,          \* the code points that occur
  Wide,          \* those that take three bytes in UTF-8
  Astral,        \* those that take four bytes, and two units in UTF-16
  Control,       \* control characters other than tab and line feed
  Inserted,      \* the code points scripts insert
  InsertBound,   \* how many of them at once
  BufferBound    \* how long the text gets

ASSUME TextAssumption ==
  /\ Wide \subseteq Char /\ Astral \subseteq Char \ Wide
  /\ Control \subseteq Char \ (Wide \cup Astral) /\ Inserted \subseteq Char
  /\ InsertBound \in Nat /\ BufferBound \in Nat

VARIABLES
  m_text_input_buffer,               \* code points
  m_text_input_buffer_u8,            \* the bytes scripts read
  m_text_input_cursor,
  m_text_input_last_high_surrogate,  \* the astral code point it begins, or "none"
  m_text_input_enabled

textVars == <<m_text_input_buffer, m_text_input_buffer_u8, m_text_input_cursor,
              m_text_input_last_high_surrogate, m_text_input_enabled>>

BytesOf(c) == IF c \in Astral THEN 4 ELSE IF c \in Wide THEN 3 ELSE 1
Utf8(s) == FlattenSeq([i \in DOMAIN s |-> [k \in 1 .. BytesOf(s[i]) |-> <<s[i], k>>]])

\* size of the UTF-8 form.
Bytes(s) == Cardinality({p \in (DOMAIN s) \X (1 .. 4) : p[2] <= BytesOf(s[p[1]])})

Least2(a, b) == IF a < b THEN a ELSE b
Before(s, i)   == SubSeq(s, 1, i)
Behind(s, i)   == SubSeq(s, i + 1, Len(s))
Without(s, i, n) == Before(s, i) \o Behind(s, i + n)
With(s, i, t)    == Before(s, i) \o t \o Behind(s, i)

\* insert and erase of the string need a position inside it.
CursorInside == m_text_input_cursor <= Len(m_text_input_buffer)

\* textInput_updateBuffer
Edited(s) == m_text_input_buffer' = s /\ m_text_input_buffer_u8' = Utf8(s)

KeepText == UNCHANGED <<m_text_input_buffer, m_text_input_buffer_u8>>
KeepUnits == UNCHANGED <<m_text_input_last_high_surrogate, m_text_input_enabled>>

------------------------------------------------------------------------------
\* What the window procedure delivers, WM_CHAR.
textInput_addChar32(c) ==
  /\ CursorInside /\ Len(m_text_input_buffer) < BufferBound
  /\ Edited(With(m_text_input_buffer, m_text_input_cursor, <<c>>))
  /\ m_text_input_cursor' = m_text_input_cursor + 1

textInput_handleChar32(c) ==
  \/ c \notin Control /\ textInput_addChar32(c)
  \/ c \in Control /\ KeepText /\ UNCHANGED m_text_input_cursor

highSurrogate(c) ==
  /\ m_text_input_enabled /\ c \in Astral
  /\ m_text_input_last_high_surrogate' = c
  /\ KeepText /\ UNCHANGED <<m_text_input_cursor, m_text_input_enabled>>

\* Any high surrogate pairs with any low one; a low one alone is dropped.
lowSurrogate ==
  /\ m_text_input_enabled
  /\ \/ /\ m_text_input_last_high_surrogate \in Astral
        /\ textInput_handleChar32(m_text_input_last_high_surrogate)
     \/ /\ m_text_input_last_high_surrogate = "none"
        /\ KeepText /\ UNCHANGED m_text_input_cursor
  /\ m_text_input_last_high_surrogate' = "none"
  /\ UNCHANGED m_text_input_enabled

textInput_handleChar16(c) ==
  /\ m_text_input_enabled /\ c \notin Astral
  /\ textInput_handleChar32(c)
  /\ KeepUnits

------------------------------------------------------------------------------
\* What scripts do.
textInput_setEnabled(enabled) ==
  /\ m_text_input_enabled' = enabled
  /\ KeepText /\ UNCHANGED <<m_text_input_cursor, m_text_input_last_high_surrogate>>

textInput_clearBuffer ==
  /\ Edited(<< >>) /\ m_text_input_cursor' = 0 /\ KeepUnits

textInput_setCursorPosition(i) ==
  /\ m_text_input_cursor' = Least2(i, Len(m_text_input_buffer))
  /\ KeepText /\ KeepUnits

textInput_addCursorPosition(offset) ==
  /\ m_text_input_cursor' =
       IF offset > 0 THEN Least2(m_text_input_cursor + offset, Len(m_text_input_buffer))
       ELSE IF m_text_input_cursor + offset >= 0 THEN m_text_input_cursor + offset ELSE 0
  /\ KeepText /\ KeepUnits

textInput_removeBufferRange(i, n) ==
  /\ i < Len(m_text_input_buffer)
  /\ LET count == Least2(n, Len(m_text_input_buffer) - i)
         rest  == Without(m_text_input_buffer, i, count)
     IN  Edited(rest) /\ m_text_input_cursor' = Least2(m_text_input_cursor, Len(rest))
  /\ KeepUnits

\* The cursor moves by the bytes of the text.
textInput_insertBufferRange(i, t) ==
  /\ Len(m_text_input_buffer) + Len(t) <= BufferBound
  /\ Edited(IF i < Len(m_text_input_buffer) THEN With(m_text_input_buffer, i, t)
            ELSE m_text_input_buffer \o t)
  /\ m_text_input_cursor' = m_text_input_cursor + Bytes(t)
  /\ KeepUnits

textInput_backspace(n) ==
  /\ CursorInside
  /\ LET count == Least2(m_text_input_cursor, n)
     IN  /\ m_text_input_cursor' = m_text_input_cursor - count
         /\ Edited(Without(m_text_input_buffer, m_text_input_cursor - count, count))
  /\ KeepUnits

------------------------------------------------------------------------------
TextInit ==
  /\ m_text_input_buffer = << >> /\ m_text_input_buffer_u8 = << >>
  /\ m_text_input_cursor = 0 /\ m_text_input_last_high_surrogate = "none"
  /\ m_text_input_enabled = FALSE

Position == 0 .. BufferBound + 1

TextNext ==
  \/ \E c \in Char : highSurrogate(c) \/ textInput_handleChar16(c)
  \/ lowSurrogate
  \/ \E enabled \in BOOLEAN : textInput_setEnabled(enabled)
  \/ textInput_clearBuffer
  \/ \E i \in Position : textInput_setCursorPosition(i)
  \/ \E offset \in {-2, -1, 1, 2} : textInput_addCursorPosition(offset)
  \/ \E i \in Position, n \in 0 .. 2 : textInput_removeBufferRange(i, n)
  \/ \E t \in BoundedSeq(Inserted, InsertBound) :
       \/ textInput_insertBufferRange(m_text_input_cursor, t)
       \/ \E i \in Position : textInput_insertBufferRange(i, t)
  \/ \E n \in 0 .. 2 : textInput_backspace(n)

TextSpec == TextInit /\ [][TextNext]_textVars

------------------------------------------------------------------------------
TextTypeOK ==
  /\ m_text_input_buffer \in Seq((Char \ Control) \cup Inserted)
  /\ m_text_input_cursor \in Nat /\ m_text_input_enabled \in BOOLEAN
  /\ m_text_input_last_high_surrogate \in Astral \cup {"none"}

\* Scripts read the text they edit, byte for byte, after every kind of edit
\* (textInput_updateBuffer, and the clear that does not call it).
MirrorFollows == m_text_input_buffer_u8 = Utf8(m_text_input_buffer)

\* The text, its UTF-8 form and the cursor, when scripts insert only text of
\* one byte per code point: whatever is typed, removed or moved over, the
\* cursor stays in the text, where the next insert or erase needs it.
TextInv == TextTypeOK /\ MirrorFollows /\ CursorInside
==============================================================================
