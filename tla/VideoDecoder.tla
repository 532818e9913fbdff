----------------------------- MODULE VideoDecoder -----------------------------
(***************************************************************************)
(* VideoDecoder: which picture its texture shows.  A script asks for       *)
(* absolute times (updateToTime); the decoder folds them into the loop     *)
(* range, reads on from where it is, or seeks to a key frame and reads up  *)
(* to the time.  The clock ticks twice per frame: frame f has time 2 * f.  *)
(* The epsilons of the code are less than a tick.                          *)
(***************************************************************************)
EXTENDS Integers

CONSTANTS
  Frames, Duration,     \* frames of the file, and its duration in ticks
  KeyFrames,            \* where the source reader can start to decode
  SeekThreshold,        \* seek_threshold in ticks
  CatchUpFrames,        \* max_catch_up_frames
  MaxDecodeFrames,      \* kMaxDecodeFramesAfterSeek
  BackwardTolerance,    \* kBackwardTolerance in ticks
  VideoTimes,           \* the times scripts ask for
  LoopRanges,           \* the <<loop_end, loop_duration>> scripts ask for
  MediaFails            \* whether calls of Media Foundation may fail

ASSUME VideoAssumption ==
  /\ Frames \in Nat \ {0} /\ Duration \in Nat /\ 2 * Frames - 2 < Duration
  /\ 0 \in KeyFrames /\ KeyFrames \subseteq 0 .. Frames - 1
  /\ VideoTimes \subseteq Int /\ MediaFails \in BOOLEAN
  /\ {SeekThreshold, BackwardTolerance} \subseteq Nat
  /\ {CatchUpFrames, MaxDecodeFrames} \subseteq Nat \ {0}
  /\ \A range \in LoopRanges : {range[1], range[2]} \subseteq Int

VARIABLES
  device,                \* the graphics device exists
  m_byte_stream, m_source_reader, m_texture,
  m_duration, m_current_time, m_last_requested_time,
  m_looping, m_loop_state,
  next,                  \* the frame the source reader gives next
  shown,                 \* the frame in the texture, -1 for none
  answer,                \* the last updateToTime: what it returned and the time
                         \* it was asked for, folded as the script means it
  loose,                 \* history: why m_current_time or m_last_requested_time
                         \* may not tell what is shown
  latest                 \* history: the latest time asked since which the times
                         \* went back only by steps within the tolerance

streamVars == <<m_byte_stream, m_source_reader, m_texture, m_duration>>
timeVars   == <<m_current_time, m_last_requested_time, next, shown, loose, latest>>
rangeVars  == <<m_looping, m_loop_state>>
videoVars  == <<device, m_byte_stream, m_source_reader, m_texture, m_duration,
                m_current_time, m_last_requested_time, m_looping, m_loop_state,
                next, shown, answer, loose, latest>>

NoRange  == [has_range |-> FALSE, start |-> 0, end |-> 0]
NoAnswer == [ok |-> FALSE, at |-> 0]
LastFrame     == Frames - 1

VideoTypeOK ==
  /\ {device, m_byte_stream, m_source_reader, m_texture, m_looping} \subseteq BOOLEAN
  /\ m_duration \in {0, Duration} /\ m_current_time \in 0 .. Duration
  /\ m_last_requested_time \in -1 .. Duration
  /\ m_loop_state.has_range \in BOOLEAN
  /\ next \in 0 .. Frames /\ shown \in -1 .. LastFrame
  /\ answer.ok \in BOOLEAN /\ loose \in {"no", "seek", "end", "failed"}
  /\ latest \in 0 .. Duration

------------------------------------------------------------------------------
\* Reading.  A picture is what is shown, m_current_time and the next frame; a
\* reader gives a set of outcomes: the picture it leaves and how it ended.
Current == [shown |-> shown, time |-> m_current_time, next |-> next]

Result(p, how) == [picture |-> p, how |-> how]
At(f)          == [shown |-> f, time |-> 2 * f, next |-> f + 1]

\* At most n calls of readNextFrame up to the first frame not before time t
\* ("there"), the last call ("short"), the end of the stream or a failure.
Reached(p, n, t) ==
  {f \in p.next .. p.next + n - 1 : 2 * f >= t \/ f = p.next + n - 1 \/ f >= Frames}

readFrames(p, n, t) ==
  LET f == CHOOSE f \in Reached(p, n, t) : \A g \in Reached(p, n, t) : f <= g
      before == IF f = p.next THEN p ELSE At(f - 1)
  IN  IF f >= Frames
      THEN {Result([before EXCEPT !.time = m_duration], "end")}
      ELSE {Result(At(f), IF 2 * f >= t THEN "there" ELSE "short")}
           \cup (IF MediaFails THEN {Result([At(f) EXCEPT !.shown = before.shown], "failed"),
                                     Result(before, "failed")}
                 ELSE {})

KeyFrame(t) == CHOOSE k \in KeyFrames :
                 2 * k <= t /\ \A j \in KeyFrames : 2 * j <= t => j <= k

ClampTime(t) == IF t < 0 THEN 0 ELSE IF t > m_duration THEN m_duration ELSE t

\* SetCurrentPosition goes to a key frame not after the time.
Sought(p, t) == [p EXCEPT !.time = ClampTime(t), !.next = KeyFrame(ClampTime(t))]

readFrameAtTime(p, t) ==
  readFrames(Sought(p, t), MaxDecodeFrames, t)
  \cup (IF MediaFails THEN {Result(p, "failed")} ELSE {})

Now(p) == shown' = p.shown /\ m_current_time' = p.time /\ next' = p.next

------------------------------------------------------------------------------
\* close() drops everything but m_looping; reopen() keeps the byte stream.
Closed(keeps) ==
  /\ m_source_reader' = FALSE /\ m_texture' = FALSE /\ m_byte_stream' = keeps
  /\ m_duration' = 0 /\ m_current_time' = 0 /\ m_last_requested_time' = -1
  /\ m_loop_state' = NoRange
  /\ next' = 0 /\ shown' = -1 /\ loose' = "no" /\ latest' = 0

close == Closed(FALSE) /\ answer' = NoAnswer /\ UNCHANGED <<device, m_looping>>

LoopRangeOf(end, duration, total) ==
  LET to == IF total > 0 /\ end > total THEN total ELSE end IN
  IF duration > 0 /\ end >= duration /\ to > end - duration
  THEN [has_range |-> TRUE, start |-> end - duration, end |-> to]
  ELSE [has_range |-> FALSE, start |-> 0, end |-> total]

\* open() and reopen() when every stage of openFromStream succeeds; the first
\* frame may fail to load.  A file need not tell its duration.
Opened(looping, range) ==
  /\ m_byte_stream' = TRUE /\ m_source_reader' = TRUE /\ m_texture' = TRUE
  /\ m_duration' \in {0, Duration}
  /\ m_last_requested_time' = -1 /\ m_looping' = looping /\ latest' = 0
  /\ m_loop_state' = IF range[2] > 0 THEN LoopRangeOf(range[1], range[2], m_duration')
                     ELSE NoRange
  /\ \/ shown' = 0 /\ m_current_time' = 0 /\ next' = 1 /\ loose' = "no"
     \/ MediaFails /\ shown' = -1 /\ m_current_time' = 0 /\ next' \in {0, 1}
        /\ loose' = "failed"

open(looping, range) ==
  /\ device /\ Opened(looping, range)
  /\ answer' = NoAnswer /\ UNCHANGED device

reopen(looping, range) ==
  /\ m_byte_stream /\ device /\ Opened(looping, range)
  /\ answer' = NoAnswer /\ UNCHANGED device

\* What a failing open() or reopen() leaves: nothing (no file, no stream, no
\* resources: close()), the byte stream alone (no device, no source reader), or
\* a source reader without a texture (no video stream, no format, no size).
openFails ==
  /\ \/ Closed(FALSE) \/ Closed(TRUE)
     \/ /\ device
        /\ m_source_reader' = TRUE /\ m_texture' = FALSE /\ m_byte_stream' = TRUE
        /\ m_duration' = 0 /\ m_current_time' = 0 /\ m_last_requested_time' = -1
        /\ m_loop_state' = NoRange
        /\ next' = 0 /\ shown' = -1 /\ loose' = "no" /\ latest' = 0
  /\ answer' = NoAnswer /\ UNCHANGED <<device, m_looping>>

setLooping(looping) ==
  /\ m_looping' = looping /\ answer' = NoAnswer
  /\ UNCHANGED <<device, streamVars, timeVars, m_loop_state>>

setLoopRange(range) ==
  /\ m_loop_state' = LoopRangeOf(range[1], range[2], m_duration)
  /\ answer' = NoAnswer
  /\ UNCHANGED <<device, streamVars, timeVars, m_looping>>

seek(t) ==
  /\ m_source_reader
  /\ Now(Sought(Current, t))
  /\ loose' = "seek" /\ answer' = NoAnswer
  /\ UNCHANGED <<device, streamVars, rangeVars, m_last_requested_time, latest>>

------------------------------------------------------------------------------
\* updateToTime.  fmod has the sign of its first argument.
fmod(x, y) == IF x >= 0 THEN x % y ELSE - ((- x) % y)

loop_begin == IF m_loop_state.has_range THEN m_loop_state.start ELSE 0
loop_end   == IF m_loop_state.has_range THEN m_loop_state.end ELSE m_duration
loop_len   == loop_end - loop_begin

Folded(t) == loop_begin + fmod(t - loop_begin, loop_len)

wrapped(t) ==
  CASE t >= loop_end /\ m_looping -> Folded(t)
    [] t < loop_begin /\ m_looping ->
         IF Folded(t) < loop_begin THEN Folded(t) + loop_len ELSE Folded(t)
    [] t < loop_begin /\ ~ m_looping -> loop_begin
    [] OTHER -> t

\* What the script means: the time itself, or in a loop the time of the range
\* that differs by whole turns.
Meant(t) ==
  IF m_looping
  THEN IF loop_begin <= t /\ t < loop_end THEN t
       ELSE CHOOSE w \in loop_begin .. loop_end - 1 : (t - w) % loop_len = 0
  ELSE IF t < loop_begin THEN loop_begin ELSE IF t > Duration THEN Duration ELSE t

never_backward(w) == FALSE                                           \* mutant

is_backward(w) ==
  m_last_requested_time >= 0 /\ w + BackwardTolerance < m_last_requested_time

large_jump(w) == m_current_time + SeekThreshold < w

\* Reads on; seeks when max_catch_up_frames frames do not get there.
catchUp(w) ==
  LET read == readFrames(Current, CatchUpFrames, w) IN
  {r \in read : r.how # "short"}
  \cup UNION {readFrameAtTime(r.picture, w) : r \in {r \in read : r.how = "short"}}

HasDuration == m_source_reader /\ m_duration > 0
HoldsEnd(t) == t >= m_duration /\ ~ m_looping

Leave(r) ==
  /\ Now(r.picture) /\ loose' = IF r.how = "there" THEN "no" ELSE "failed"

updateRead(t) ==
  LET w == wrapped(t)
      far == is_backward(w) \/ large_jump(w) IN
  /\ HasDuration /\ ~ HoldsEnd(t)
  /\ far \/ m_current_time + 1 < w
  /\ m_last_requested_time' = w /\ latest' = w
  /\ \E r \in IF far THEN readFrameAtTime(Current, w) ELSE catchUp(w) :
       Leave(r) /\ answer' = [ok |-> r.how = "there", at |-> Meant(t)]
  /\ UNCHANGED <<device, streamVars, rangeVars>>

\* The frame shown is close enough.
updateKeep(t) ==
  LET w == wrapped(t) IN
  /\ HasDuration /\ ~ HoldsEnd(t)
  /\ ~ is_backward(w) /\ ~ large_jump(w) /\ m_current_time + 1 >= w
  /\ m_last_requested_time' = w
  /\ latest' = IF w + BackwardTolerance < m_last_requested_time \/ latest < w THEN w ELSE latest
  /\ answer' = [ok |-> TRUE, at |-> Meant(t)]
  /\ UNCHANGED <<device, streamVars, rangeVars, m_current_time, next, shown, loose>>

\* Without a loop the last frame stays, and m_last_requested_time with it.
updateEnd(t) ==
  /\ HasDuration /\ HoldsEnd(t)
  /\ IF m_current_time >= m_duration
     THEN answer' = [ok |-> TRUE, at |-> Meant(t)] /\ UNCHANGED <<m_current_time, next, shown, loose>>
     ELSE \E r \in readFrameAtTime(Current, m_duration) :
            /\ Now([r.picture EXCEPT !.time = m_duration])
            /\ answer' = [ok |-> r.how = "there", at |-> Meant(t)]
            /\ loose' = IF r.how = "end" THEN "end" ELSE "failed"
  /\ UNCHANGED <<device, streamVars, rangeVars, m_last_requested_time, latest>>

updateNothing ==
  /\ ~ HasDuration
  /\ m_current_time' = (IF m_source_reader THEN 0 ELSE m_current_time)
  /\ answer' = NoAnswer
  /\ UNCHANGED <<device, streamVars, rangeVars, m_last_requested_time, next, shown, loose, latest>>

------------------------------------------------------------------------------
\* The graphics device goes: the video goes with it.  When a device comes back
\* there is at most a source reader without a size, and createTexture refuses.
onVideoDeviceDestroy ==
  /\ device /\ device' = FALSE
  /\ Closed(FALSE) /\ answer' = NoAnswer /\ UNCHANGED m_looping

onVideoDeviceCreate ==
  /\ ~ device /\ device' = TRUE
  /\ UNCHANGED <<streamVars, timeVars, rangeVars, answer>>

VideoInit ==
  /\ device = TRUE /\ m_byte_stream = FALSE /\ m_source_reader = FALSE
  /\ m_texture = FALSE /\ m_duration = 0 /\ m_current_time = 0
  /\ m_last_requested_time = -1 /\ m_looping = FALSE /\ m_loop_state = NoRange
  /\ next = 0 /\ shown = -1 /\ answer = NoAnswer /\ loose = "no" /\ latest = 0

VideoNext ==
  \/ \E looping \in BOOLEAN, range \in LoopRanges :
       open(looping, range) \/ reopen(looping, range)
  \/ openFails \/ close
  \/ \E looping \in BOOLEAN : setLooping(looping)
  \/ \E range \in LoopRanges : setLoopRange(range)
  \/ \E t \in VideoTimes : seek(t)
  \/ \E t \in VideoTimes : updateRead(t) \/ updateKeep(t) \/ updateEnd(t)
  \/ updateNothing
  \/ onVideoDeviceDestroy \/ onVideoDeviceCreate

VideoSpec == VideoInit /\ [][VideoNext]_videoVars

------------------------------------------------------------------------------
\* The frame of a time from w to l: not earlier than half a frame before w, not
\* later than one frame after l; the last frame stays until the end.
FrameOf(w, l, f) ==
  \/ 2 * f + 1 >= w /\ 2 * f <= l + 2
  \/ f = LastFrame /\ w >= 2 * f

\* When updateToTime succeeds, the texture shows the frame of the time the
\* script meant, folded into whatever loop range is set, however far the times
\* jump.  If they crept back to it by steps that kBackwardTolerance does not see,
\* the frame may still be that of the time where the creeping began.  Except
\* after seek(), a failed read, or the end of a video that does not loop.
UpdateShowsTime == answer.ok /\ loose = "no" => FrameOf(answer.at, latest, shown)

\* seek() decodes up to the frame of the time it was given (Video.lua:91).
SeekShowsFrame ==
  HasDuration /\ loose = "seek" /\ answer = NoAnswer =>
    FrameOf(m_current_time, m_current_time, shown)

\* A video that plays has its loop range inside its own duration, also after it
\* was reopened, replaced, or lost with the device (setLoopRange, close).
RangeInside ==
  m_loop_state.has_range /\ m_source_reader /\ m_duration > 0 =>
    0 <= m_loop_state.start /\ m_loop_state.start < m_loop_state.end
    /\ m_loop_state.end <= m_duration

\* A texture, and what was decoded into it, belongs to the device that is there:
\* none outlives the device, and a source reader that can deliver frames has one.
TextureOfDevice ==
  /\ m_texture => device /\ m_source_reader
  /\ m_source_reader /\ m_duration > 0 => m_texture

\* Frame, loop range and texture of the decoder, at every moment.
VideoInv == VideoTypeOK /\ UpdateShowsTime /\ RangeInside /\ TextureOfDevice
==============================================================================
