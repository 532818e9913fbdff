------------------------------ MODULE MusicStream ------------------------------
(***************************************************************************)
(* The samples a stream of music plays: the loop range a script asks for   *)
(* (LoadMusic, ResourceMusicImpl::SetLoopRange), the range the worker of   *)
(* StreamAudioPlayerXAudio2 makes of it, and the chunk the worker decodes  *)
(* into each buffer.  Times are counted in samples; a chunk is the first   *)
(* sample read and their number.  Integers are unsigned, modulo Word.      *)
(***************************************************************************)
EXTENDS Integers

CONSTANTS
  Total,           \* frames of the file
  BufferFrames,    \* max_sample_count of a buffer
  Word,            \* 2^32 in the code
  Times,           \* the times scripts use, in samples
  RangeTypes,      \* the types of loop range scripts use
  PlayTimes        \* the start positions scripts use

ASSUME MusicAssumption ==
  /\ Total \in Nat /\ BufferFrames \in Nat \ {0}
  /\ Word \in Nat /\ Word > 2 * Total + BufferFrames
  /\ Times \subseteq 0 .. Word - 1 /\ PlayTimes \subseteq 0 .. Word - 1

VARIABLES
  m_loop_enabled, m_loop_sample_start, m_loop_sample_count,
  m_current_sample,
  available,       \* buffers whose buffer_available message is due
  queued,          \* buffers the voice has
  chunk,           \* what the last decode read: [from, count]
  range_asked            \* history: the range the script asked for, [from, to), or "off"

loopVars  == <<m_loop_enabled, m_loop_sample_start, m_loop_sample_count, range_asked>>
musicVars == <<m_loop_enabled, m_loop_sample_start, m_loop_sample_count,
               m_current_sample, available, queued, chunk, range_asked>>

u32(n)    == n % Word
Min2(a, b) == IF a < b THEN a ELSE b

MusicTypeOK ==
  /\ m_loop_enabled \in BOOLEAN
  /\ {m_loop_sample_start, m_loop_sample_count, m_current_sample} \subseteq 0 .. Word - 1
  /\ available \in 0 .. 2 /\ queued \in 0 .. 2
  /\ chunk \in [from : 0 .. Word - 1, count : 0 .. BufferFrames]

------------------------------------------------------------------------------
\* setLoop(true, start, length), then on_update_loop in the worker.  A negative
\* double converts to an unspecified uint32_t, which on_update_loop limits to
\* Total at most.
ToSamples(t) == IF t >= 0 THEN {u32(t)} ELSE 0 .. Total

\* Mutant: the count is not limited to what is left of the file.
LoopUnclamped(start, length) ==
  \E s \in ToSamples(start), n \in ToSamples(length) :
    /\ m_loop_enabled' = TRUE
    /\ m_loop_sample_start' = Min2(s, Total)
    /\ m_loop_sample_count' = Min2(n, Total)

LoopOn(start, length) ==
  \E s \in ToSamples(start), n \in ToSamples(length) :
    /\ m_loop_enabled' = TRUE
    /\ m_loop_sample_start' = Min2(s, Total)
    /\ m_loop_sample_count' = Min2(n, Total - Min2(s, Total))

LoopOff ==
  /\ m_loop_enabled' = FALSE
  /\ m_loop_sample_start' = 0 /\ m_loop_sample_count' = Total

\* The arguments SetLoopRange passes to setLoop, by type of range.
Arguments(type, s, e, n) ==
  CASE type = "All"                   -> <<0, Total>>
    [] type = "StartPointToEnd"       -> <<s, Total - s>>
    [] type = "StartPointAndLength"   -> <<s, n>>
    [] type = "LengthAndEndPoint"     -> <<e - n, e>>
    [] type = "StartToEndPoint"       -> <<0, e>>
    [] type = "StartPointAndEndPoint" -> <<s, e - s>>

\* What the names of the types say.
Meaning(type, s, e, n) ==
  CASE type = "All"                   -> <<0, Total>>
    [] type = "StartPointToEnd"       -> <<s, Total>>
    [] type = "StartPointAndLength"   -> <<s, s + n>>
    [] type = "LengthAndEndPoint"     -> <<e - n, e>>
    [] type = "StartToEndPoint"       -> <<0, e>>
    [] type = "StartPointAndEndPoint" -> <<s, e>>

Asked == {[arguments |-> Arguments(type, s, e, n), meaning |-> Meaning(type, s, e, n)] :
            type \in RangeTypes, s \in Times, e \in Times, n \in Times}

SetLoopRange(range) ==
  /\ LoopOn(range.arguments[1], range.arguments[2])
  /\ range_asked' = range.meaning
  /\ UNCHANGED <<m_current_sample, available, queued, chunk>>

SetLoop ==
  /\ LoopOff /\ range_asked' = <<0, 0>>
  /\ UNCHANGED <<m_current_sample, available, queued, chunk>>

------------------------------------------------------------------------------
\* LoadMusic: the whole file when both times are 0; an empty range is refused.
LoadedRange == {r \in Times \X Times : r[1] < r[2]} \cup {<<0, Total>>}

MusicInit ==
  /\ \E r \in LoadedRange :
       /\ m_loop_enabled = TRUE
       /\ m_loop_sample_start = Min2(r[1], Total)
       /\ m_loop_sample_count = Min2(r[2] - r[1], Total - Min2(r[1], Total))
       /\ range_asked = r
  /\ m_current_sample = 0
  /\ available = 2 /\ queued = 0
  /\ chunk = [from |-> 0, count |-> 0]

\* on_play: the buffers of the voice come back by FlushSourceBuffers, unless
\* the decoder refuses to seek behind the end.
on_play(t) ==
  /\ m_current_sample' = u32(t)
  /\ \/ available' = available + queued /\ queued' = 0
     \/ t > Total /\ UNCHANGED <<available, queued>>
  /\ UNCHANGED <<loopVars, chunk>>

\* on_buffer_available: where to read, and how much.
loop_sample_end == u32(m_loop_sample_start + m_loop_sample_count)

\* Mutant: the return one sample late.
ReturnsLate == m_loop_enabled /\ m_current_sample > loop_sample_end

Returns == m_loop_enabled /\ m_current_sample >= loop_sample_end

From == IF Returns THEN m_loop_sample_start ELSE m_current_sample

sample_count ==
  Min2(BufferFrames,
       CASE Returns          -> m_loop_sample_count
         [] ~ m_loop_enabled -> u32(Total - m_current_sample)
         [] OTHER            -> u32(loop_sample_end - m_current_sample))

decode ==
  /\ available > 0 /\ From <= Total
  /\ chunk' = [from |-> From, count |-> Min2(sample_count, Total - From)]
  /\ m_current_sample' = u32(From + chunk'.count)
  /\ IF chunk'.count = 0 THEN UNCHANGED <<available, queued>>
     ELSE available' = available - 1 /\ queued' = queued + 1
  /\ UNCHANGED loopVars

\* Behind the end seek or read fails, and the worker returns at once.
decodeFails ==
  /\ available > 0 /\ From > Total
  /\ m_current_sample' = From
  /\ available' = available - 1
  /\ UNCHANGED <<loopVars, queued, chunk>>

OnBufferEnd ==
  /\ queued > 0
  /\ queued' = queued - 1 /\ available' = available + 1
  /\ UNCHANGED <<loopVars, m_current_sample, chunk>>

MusicNext ==
  \/ \E range \in Asked : SetLoopRange(range)
  \/ SetLoop
  \/ \E t \in PlayTimes : on_play(t)
  \/ decode \/ decodeFails \/ OnBufferEnd

MusicSpec == MusicInit /\ [][MusicNext]_musicVars

------------------------------------------------------------------------------
\* The loop the worker keeps is the part of the range asked for that lies in the
\* file, for every sensible range (one that starts in the file and is not
\* empty), whichever way it was given.
LoopIsAsked ==
  m_loop_enabled /\ 0 <= range_asked[1] /\ range_asked[1] < range_asked[2] /\ range_asked[1] <= Total
    => /\ m_loop_sample_start = range_asked[1]
       /\ m_loop_sample_start + m_loop_sample_count = Min2(range_asked[2], Total)

\* What the worker keeps of the loop, at every moment.
LoopInv == MusicTypeOK /\ LoopIsAsked

\* The reference: one sample at a time, back to the start of the loop at its end.
Next1(x) == IF m_loop_enabled /\ x >= m_loop_sample_start + m_loop_sample_count
            THEN m_loop_sample_start ELSE x

Played == [k \in 0 .. BufferFrames |-> LET p[i \in 0 .. k] ==
             IF i = 0 THEN Next1(m_current_sample) ELSE Next1(p[i - 1] + 1) IN p[k]]

\* Every chunk the worker reads is what playing sample by sample would give: it
\* starts where the one before ended or the loop starts, never runs past the
\* end of the loop or of the file, and is empty only when nothing is left to
\* play (on_buffer_available).
ChunkIsNext ==
  [][ decode =>
        /\ \A k \in 0 .. chunk'.count - 1 :
             chunk'.from + k = Played[k] /\ Played[k] < Total
        /\ chunk'.count = 0 =>
             \/ Played[0] >= Total
             \/ m_loop_enabled /\ m_loop_sample_count = 0 ]_musicVars
==============================================================================
