--------------------------- MODULE StreamAudioPlayer ---------------------------
(***************************************************************************)
(* core::StreamAudioPlayerXAudio2: music that is decoded while it plays.   *)
(* Three threads share the player.  The engine thread calls play, pause,   *)
(* resume, stop, the two audio engine listeners and the destructor; the    *)
(* XAudio2 thread calls OnBufferEnd; the worker decodes.  The first two,   *)
(* and the worker itself at the end of the file, post messages to the      *)
(* ActionQueue, a ring of slots between two counting semaphores, from      *)
(* which the worker takes them.  Two buffers travel round: an available    *)
(* one is decoded into, submitted to the voice, played, available again.   *)
(*                                                                         *)
(* What is decoded and the loop region are abstracted: the decoder may     *)
(* fail or find the end of the file whenever it is read.                   *)
(***************************************************************************)
EXTENDS Naturals, Sequences, SequencesExt, FiniteSets

CONSTANTS
  Size,        \* slots of m_data, 64 in the code
  Buffer,      \* indices of stream_buffer, {0, 1} in the code
  EngineOps,   \* what the engine thread calls, out of "play" "pause" "resume"
               \* "stop" "exit" "reset"
  CanFail,     \* whether seek, read and create() may fail
  Overlap      \* whether two threads may be inside sendAction at once

ASSUME PlayerAssumption ==
  /\ Size \in Nat \ {0} /\ Buffer \subseteq Nat /\ IsFiniteSet(Buffer) /\ 0 \in Buffer
  /\ CanFail \in BOOLEAN /\ Overlap \in BOOLEAN

VARIABLES
  m_data, m_writer_index, m_reader_index,   \* the indices count modulo Size
  m_semaphore_space, m_semaphore_data, m_event_exit,
  sending,     \* what each thread still has to post
  slot,        \* the slot each thread has taken and not written, or Size
  m_state,     \* AudioPlayerState, written by the engine thread only
  engine,      \* "running", "joining" in the destructor, or "gone"
  m_voice,     \* whether there is a voice
  started,     \* whether it is started (XAudio2)
  submitted,   \* the buffers it holds, the one it plays first (XAudio2)
  flushed,     \* how many of them it gives back without playing (XAudio2)
  worker,      \* what the worker does next
  action,      \* the message the worker works on
  lost,        \* history: buffers lost to a full queue, a failed read or create()
  failed       \* history: a command was dropped, a seek or the resume of create()
               \* has failed

queueVars == <<m_data, m_writer_index, m_reader_index, m_semaphore_space,
               m_semaphore_data, sending, slot>>
voiceVars == <<m_voice, started, submitted, flushed>>
history   == <<lost, failed>>
vars == <<queueVars, m_event_exit, m_state, engine, voiceVars, worker, action, history>>

Thread == {"engine", "voice", "worker"}
Command == {"play", "pause", "resume", "stop"}

\* The index of a message about no buffer is 0.
Message(type, index) == [type |-> type, buffer_available_index |-> index]
Action == {Message("buffer_available", b) : b \in Buffer}
          \cup {Message(type, 0) : type \in Command \cup {"exit"}}
available(b) == Message("buffer_available", b)

\* A slot that was never written holds Action{}, whose type is exit.
NoAction == Message("exit", 0)

TypeOK ==
  /\ m_data \in [0 .. Size - 1 -> Action]
  /\ m_writer_index \in 0 .. Size - 1 /\ m_reader_index \in 0 .. Size - 1
  /\ m_semaphore_space \in 0 .. Size /\ m_semaphore_data \in 0 .. Size
  /\ m_event_exit \in BOOLEAN
  /\ sending \in [Thread -> Seq(Action)]
  /\ slot \in [Thread -> 0 .. Size]
  /\ m_state \in {"stopped", "playing", "paused"}
  /\ engine \in {"running", "joining", "gone"}
  /\ m_voice \in BOOLEAN /\ started \in BOOLEAN
  /\ submitted \in Seq(Buffer) /\ flushed \in 0 .. Len(submitted)
  /\ worker \in {"check", "wait", "handle", "start", "submit", "done"}
  /\ action \in Action
  /\ lost \subseteq Buffer /\ failed \in BOOLEAN

\* The player that create(parent, ...) returns, which ignores what create() says:
\* either the voice is there and it is being posted that the buffers are
\* available, or create() has failed, before it made the voice or after that.
Init ==
  /\ m_data = [i \in 0 .. Size - 1 |-> NoAction]
  /\ m_writer_index = 0 /\ m_reader_index = 0
  /\ m_semaphore_space = Size /\ m_semaphore_data = 0 /\ m_event_exit = FALSE
  /\ slot = [t \in Thread |-> Size]
  /\ m_state = "stopped" /\ engine = "running"
  /\ started = FALSE /\ submitted = <<>> /\ flushed = 0
  /\ worker = "check" /\ action = NoAction /\ failed = FALSE
  /\ \/ /\ m_voice = TRUE /\ lost = {}
        /\ sending = [t \in Thread |->
                        IF t = "engine" THEN SetToSeq({available(b) : b \in Buffer}) ELSE <<>>]
     \/ /\ CanFail /\ m_voice \in BOOLEAN /\ lost = Buffer
        /\ sending = [t \in Thread |-> <<>>]

------------------------------------------------------------------------------
(* Where a buffer is. *)

Count(b, s) == Cardinality({i \in DOMAIN s : s[i] = b})

\* The messages in the queue, oldest first.
Queue == [i \in 1 .. m_semaphore_data |-> m_data[(m_reader_index + i - 1) % Size]]

Places(b) ==
  Count(b, submitted) + Count(available(b), Queue)
  + Count(available(b), sending["engine"]) + Count(available(b), sending["voice"])
  + Count(available(b), sending["worker"])
  + (IF worker \in {"handle", "submit"} /\ action = available(b) THEN 1 ELSE 0)

------------------------------------------------------------------------------
(* ActionQueue::sendAction, by any thread. *)

Sends(t) == sending[t] # <<>>
Posted(t) == sending' = [sending EXCEPT ![t] = Tail(@)]

WithSpace == m_semaphore_space > 0

\* Acquires a space and takes the next slot.
TakeSlot(t) ==
  /\ Sends(t) /\ slot[t] = Size /\ WithSpace
  /\ Overlap \/ \A u \in Thread : slot[u] = Size
  /\ m_semaphore_space' = IF m_semaphore_space > 0 THEN m_semaphore_space - 1 ELSE 0
  /\ slot' = [slot EXCEPT ![t] = m_writer_index]
  /\ m_writer_index' = (m_writer_index + 1) % Size
  /\ UNCHANGED <<m_data, m_reader_index, m_semaphore_data, m_event_exit, sending,
                 m_state, engine, voiceVars, worker, action, history>>

\* Writes it and releases a data count.
WriteSlot(t) ==
  /\ slot[t] # Size
  /\ m_data' = [m_data EXCEPT ![slot[t]] = Head(sending[t])]
  /\ m_semaphore_data' = m_semaphore_data + 1
  /\ slot' = [slot EXCEPT ![t] = Size]
  /\ Posted(t)
  /\ UNCHANGED <<m_writer_index, m_reader_index, m_semaphore_space, m_event_exit,
                 m_state, engine, voiceVars, worker, action, history>>

\* Waits without a timeout, as FixedLengthMessageQueue::put does.
NeverDrops(t) == FALSE /\ UNCHANGED vars                             \* mutant

\* No space for a second: the message is dropped.
DropAction(t) ==
  /\ Sends(t) /\ slot[t] = Size /\ m_semaphore_space = 0
  /\ Posted(t)
  /\ LET v == Head(sending[t]) IN
       IF v.type = "buffer_available"
       THEN lost' = lost \cup {v.buffer_available_index} /\ UNCHANGED failed
       ELSE failed' = TRUE /\ UNCHANGED lost
  /\ UNCHANGED <<m_data, m_writer_index, m_reader_index, m_semaphore_space,
                 m_semaphore_data, slot, m_event_exit, m_state, engine, voiceVars,
                 worker, action>>

sendAction(t) == TakeSlot(t) \/ WriteSlot(t) \/ DropAction(t)

------------------------------------------------------------------------------
(* The engine thread. *)

Calls(op) == engine = "running" /\ ~ Sends("engine") /\ op \in EngineOps

\* play, pause, resume and stop; pause and resume do nothing in other states.
Request(type, from, to) ==
  /\ Calls(type) /\ m_state \in from
  /\ m_state' = to
  /\ sending' = [sending EXCEPT !["engine"] = <<Message(type, 0)>>]
  /\ UNCHANGED <<m_data, m_writer_index, m_reader_index, m_semaphore_space,
                 m_semaphore_data, slot, m_event_exit, engine, voiceVars, worker,
                 action, history>>

play   == Request("play", {"stopped", "playing", "paused"}, "playing")
pause  == Request("pause", {"playing"}, "paused")
resume == Request("resume", {"paused"}, "playing")
stop   == Request("stop", {"stopped", "playing", "paused"}, "stopped")

\* DestroyVoice waits for a running OnBufferEnd and calls it no more.
DestroyVoice ==
  /\ ~ Sends("voice")
  /\ m_voice' = FALSE /\ started' = FALSE /\ submitted' = <<>> /\ flushed' = 0

onAudioEngineDestroy ==
  /\ Calls("reset") /\ m_voice
  /\ DestroyVoice
  /\ UNCHANGED <<queueVars, m_event_exit, m_state, engine, worker, action, history>>

\* create() makes a voice and posts messages:
Created(messages) ==
  /\ Calls("reset") /\ ~ m_voice
  /\ m_voice' = TRUE
  /\ sending' = [sending EXCEPT !["engine"] = messages]
  /\ lost' = {} /\ failed' = (failed /\ m_state # "playing")
  /\ UNCHANGED <<m_data, m_writer_index, m_reader_index, m_semaphore_space,
                 m_semaphore_data, slot, m_event_exit, m_state, engine, started,
                 submitted, flushed, worker, action>>

Resumed == IF m_state = "playing" THEN <<Message("resume", 0)>> ELSE <<>>
CreatedWithoutResume ==                                              \* mutant
  Created(SetToSeq({available(b) : b \in Buffer}))

\* that both buffers are available and, if the player is playing, to resume.
onAudioEngineCreate == Created(SetToSeq({available(b) : b \in Buffer}) \o Resumed)

\* The voice is there and does not take its volume, speed or balance: create()
\* keeps it and posts nothing.  (When there is no voice either, nothing changes.)
onAudioEngineCreateFails ==
  /\ Calls("reset") /\ ~ m_voice /\ CanFail
  /\ m_voice' = TRUE
  /\ lost' = lost \cup {b \in Buffer : Places(b) = 0}
  /\ failed' = (failed \/ m_state = "playing")
  /\ UNCHANGED <<queueVars, m_event_exit, m_state, engine, started, submitted, flushed,
                 worker, action>>

\* ~StreamAudioPlayerXAudio2: notifyExit, join, destroy.
notifyExit ==
  /\ Calls("exit")
  /\ m_event_exit' = TRUE /\ engine' = "joining"
  /\ UNCHANGED <<queueVars, m_state, voiceVars, worker, action, history>>

join ==
  /\ engine = "joining" /\ worker = "done"
  /\ engine' = "gone"
  /\ DestroyVoice
  /\ UNCHANGED <<queueVars, m_event_exit, m_state, worker, action, history>>

------------------------------------------------------------------------------
(* The XAudio2 thread: a buffer has been played, or flushed. *)

OnBufferEnd ==
  /\ ~ Sends("voice") /\ submitted # <<>> /\ (started \/ flushed > 0)
  /\ submitted' = Tail(submitted)
  /\ flushed' = IF flushed > 0 THEN flushed - 1 ELSE 0
  /\ sending' = [sending EXCEPT !["voice"] = <<available(Head(submitted))>>]
  /\ UNCHANGED <<m_data, m_writer_index, m_reader_index, m_semaphore_space,
                 m_semaphore_data, slot, m_event_exit, m_state, engine, m_voice,
                 started, worker, action, history>>

------------------------------------------------------------------------------
(* The worker.  A call on the voice is made under m_voice_lock and only if   *)
(* there is a voice.                                                         *)

\* receiveAction, once the worker has posted what it had to: on_exit, or wait
\* for data for a second.
receiveCheck ==
  /\ worker = "check" /\ ~ Sends("worker")
  /\ IF m_event_exit
     THEN worker' = "handle" /\ action' = NoAction
     ELSE worker' = "wait" /\ UNCHANGED action
  /\ UNCHANGED <<queueVars, m_event_exit, m_state, engine, voiceVars, history>>

receiveTimeout ==
  /\ worker = "wait" /\ m_semaphore_data = 0
  /\ worker' = "check"
  /\ UNCHANGED <<queueVars, m_event_exit, m_state, engine, voiceVars, action, history>>

receiveData ==
  /\ worker = "wait" /\ m_semaphore_data > 0
  /\ worker' = "handle" /\ action' = m_data[m_reader_index]
  /\ m_reader_index' = (m_reader_index + 1) % Size
  /\ m_semaphore_data' = m_semaphore_data - 1
  /\ m_semaphore_space' = m_semaphore_space + 1
  /\ UNCHANGED <<m_data, m_writer_index, sending, slot, m_event_exit, m_state, engine,
                 voiceVars, history>>

\* The loop of the worker goes round; action keeps nothing it reads again.
Idle == worker' = "check" /\ action' = NoAction

Handles(type) == worker = "handle" /\ action.type = type
Flush == flushed' = IF m_voice THEN Len(submitted) ELSE flushed

on_exit ==
  /\ Handles("exit")
  /\ worker' = "done"
  /\ started' = FALSE /\ Flush
  /\ UNCHANGED <<queueVars, m_event_exit, m_state, engine, m_voice, submitted, action,
                 history>>

\* on_buffer_available reads some samples,
decode ==
  /\ Handles("buffer_available")
  /\ worker' = "submit"
  /\ UNCHANGED <<queueVars, m_event_exit, m_state, engine, voiceVars, action, history>>

\* or cannot seek or read,
decodeFails ==
  /\ Handles("buffer_available") /\ CanFail
  /\ Idle
  /\ lost' = lost \cup {action.buffer_available_index}
  /\ UNCHANGED <<queueVars, m_event_exit, m_state, engine, voiceVars, failed>>

\* or is at the end of the file and posts the buffer to itself.
EndWithoutPost ==                                                    \* mutant
  /\ Handles("buffer_available")
  /\ Idle
  /\ UNCHANGED <<queueVars, m_event_exit, m_state, engine, voiceVars, history>>

decodeEnd ==
  /\ Handles("buffer_available")
  /\ Idle
  /\ sending' = [sending EXCEPT !["worker"] = <<action>>]
  /\ UNCHANGED <<m_data, m_writer_index, m_reader_index, m_semaphore_space,
                 m_semaphore_data, slot, m_event_exit, m_state, engine, voiceVars,
                 history>>

SubmitSourceBuffer ==
  /\ worker = "submit"
  /\ Idle
  /\ submitted' = IF m_voice THEN Append(submitted, action.buffer_available_index)
                             ELSE submitted
  /\ UNCHANGED <<queueVars, m_event_exit, m_state, engine, m_voice, started, flushed,
                 history>>

\* on_play stops the voice, seeks, and then flushes and starts it.
on_play ==
  /\ Handles("play")
  /\ started' = FALSE
  /\ \/ worker' = "start" /\ UNCHANGED <<action, failed>>
     \/ CanFail /\ Idle /\ failed' = TRUE
  /\ UNCHANGED <<queueVars, m_event_exit, m_state, engine, m_voice, submitted, flushed,
                 lost>>

on_play_start ==
  /\ worker = "start"
  /\ Idle
  /\ started' = m_voice /\ Flush
  /\ UNCHANGED <<queueVars, m_event_exit, m_state, engine, m_voice, submitted, history>>

on_pause_resume_stop ==
  /\ worker = "handle" /\ action.type \in {"pause", "resume", "stop"}
  /\ Idle
  /\ started' = (m_voice /\ action.type = "resume")
  /\ UNCHANGED <<queueVars, m_event_exit, m_state, engine, m_voice, submitted, flushed,
                 history>>

Engine ==
  \/ play \/ pause \/ resume \/ stop
  \/ onAudioEngineDestroy \/ onAudioEngineCreate \/ onAudioEngineCreateFails
  \/ notifyExit

Worker ==
  \/ receiveCheck \/ receiveTimeout \/ receiveData
  \/ on_exit \/ decode \/ decodeFails \/ decodeEnd \/ SubmitSourceBuffer
  \/ on_play \/ on_play_start \/ on_pause_resume_stop

Next == (\E t \in Thread : sendAction(t)) \/ Engine \/ join \/ OnBufferEnd \/ Worker

\* Every thread is scheduled; a started voice plays.  sendAction is enabled all
\* the time unless Overlap is FALSE and another thread is between its two
\* steps, hence strong fairness.
Fairness ==
  /\ \A t \in Thread : SF_vars(sendAction(t))
  /\ WF_vars(Worker) /\ WF_vars(join) /\ WF_vars(OnBufferEnd)

Spec == Init /\ [][Next]_vars /\ Fairness

------------------------------------------------------------------------------
\* Each buffer is in exactly one place, be it the queue, a thread that posts
\* it, the worker or the voice, so the worker never decodes into a buffer that
\* is being played and no buffer drops out of the cycle, unless the queue was
\* full, a read or create() has failed (on_buffer_available, OnBufferEnd).
BufferOwned ==
  engine # "gone" => \A b \in Buffer : Places(b) = IF b \in lost THEN 0 ELSE 1

\* A new audio engine does not leave a buffer out of the cycle: those that the
\* old voice held are posted again (create), at the price that a buffer which
\* was on its way to the worker is now there twice.  Out of the cycle are, until
\* the next engine, those that a full queue or a failed read has lost since the
\* voice was made, and those that were nowhere when create() failed with it made.
BufferKept ==
  engine = "running" /\ m_voice => \A b \in Buffer : Places(b) > 0 \/ b \in lost

\* Once every message has been handled the voice is started exactly when
\* getState says playing, unless a command was dropped, a seek has failed or
\* create() has failed after the voice and before the resume of a playing player.
\* A new engine that finds the player playing puts this right.
StateFollowsVoice ==
  /\ engine = "running" /\ m_voice /\ ~ failed
  /\ worker \in {"check", "wait"} /\ m_semaphore_data = 0
  /\ \A t \in Thread : ~ Sends(t)
  => (started <=> m_state = "playing")

\* The worker exits only when notifyExit was called (comment on notifyExit;
\* notifyBufferAvailable may be called by any thread).
ExitOnlyWhenNotified == worker = "done" => m_event_exit

\* What holds between the three threads at every moment.
StreamInv == TypeOK /\ BufferOwned /\ StateFollowsVoice /\ ExitOnlyWhenNotified

\* What survives a new audio engine.
ResetInv == TypeOK /\ BufferKept /\ StateFollowsVoice

\* The destructor does not hang: whatever the worker is doing and however full
\* the queue is, it sees the exit event and join returns (~StreamAudioPlayerXAudio2).
DestructorReturns == engine = "joining" ~> engine = "gone"

\* No call of the engine thread blocks for ever, even when the worker posts to
\* the full queue that only it can empty (sendAction).
CallsReturn == Sends("engine") ~> ~ Sends("engine")

\* A buffer in the queue is handled sooner or later, unless the player goes.
BufferServed ==
  \A b \in Buffer :
    Count(available(b), Queue) > 0
    ~> worker = "done" \/ (worker = "handle" /\ action = available(b))

\* No thread waits for ever for another one, and what was handed over is served.
NobodyHangs == DestructorReturns /\ CallsReturn /\ BufferServed
==============================================================================
