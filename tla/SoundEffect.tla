------------------------------ MODULE SoundEffect ------------------------------
(***************************************************************************)
(* A sound effect: ResourceSoundEffectImpl, which keeps the last command   *)
(* of a frame and a state of its own, the AudioPlayerXAudio2 behind it,    *)
(* and the voice of XAudio2, whose thread reports the end of the stream.   *)
(* The engine thread runs the scripts, flushes the command once per frame  *)
(* and delivers the events of the audio engine.                            *)
(***************************************************************************)
EXTENDS Sequences

CONSTANT CallsFail       \* whether a call of the voice may fail

ASSUME CallsFailAssumption == CallsFail \in BOOLEAN

VARIABLES
  m_last_command, effect_state,   \* ResourceSoundEffectImpl
  player_state, m_voice,          \* AudioPlayerXAudio2: m_state, m_voice # nullptr
  todo,          \* what the engine thread has left of FlushCommand, in order
  voice,         \* the voice: whether it runs and whether a buffer is queued
  ending,        \* OnStreamEnd: "no", "fresh" or "overtaken" (by a newer state)
  excused        \* history: since the last play or stop an OnStreamEnd was
                 \* overtaken, or a call of the voice failed

effectVars == <<m_last_command, effect_state>>
playerVars == <<player_state, m_voice>>
soundVars  == <<m_last_command, effect_state, player_state, m_voice, todo, voice,
                ending, excused>>

PlayState == {"stopped", "paused", "playing"}
Silent    == [running |-> FALSE, queued |-> FALSE]
VoiceCall == {"Stop", "FlushSourceBuffers", "SubmitSourceBuffer", "Start"}

SoundTypeOK ==
  /\ m_last_command \in {"none", "play", "pause", "resume", "stop"}
  /\ effect_state \in PlayState /\ player_state \in PlayState
  /\ m_voice \in BOOLEAN /\ excused \in BOOLEAN
  /\ todo \in Seq(VoiceCall \cup PlayState \cup {"read"})
  /\ voice \in [running : BOOLEAN, queued : BOOLEAN]
  /\ ending \in {"no", "fresh", "overtaken"}

SoundInit ==
  /\ m_last_command = "none" /\ effect_state = "stopped"
  /\ player_state = "stopped" /\ m_voice \in BOOLEAN
  /\ todo = << >> /\ voice = Silent /\ ending = "no" /\ excused = FALSE

Idle == todo = << >>

------------------------------------------------------------------------------
\* The script, between two flushes.
Remember(c, s) ==
  /\ Idle
  /\ m_last_command' = c /\ effect_state' = s
  /\ UNCHANGED <<player_state, m_voice, todo, voice, ending, excused>>

Play   == Remember("play", "playing")
Resume == effect_state = "paused" /\ Remember("resume", "playing")
Pause  == effect_state = "playing" /\ Remember("pause", "paused")
Stop   == Remember("stop", "stopped")

------------------------------------------------------------------------------
\* The player.  A call tests m_state, writes it, and then drives the voice; an
\* OnStreamEnd may come in between any two of these.
VoiceCallsOfPlay(c) ==                                              \* mutant
  IF c = "play" THEN <<"Stop", "FlushSourceBuffers", "SubmitSourceBuffer", "Start">>
  ELSE << >>

VoiceCalls(c) ==
  CASE c = "play"   -> <<"Stop", "FlushSourceBuffers", "SubmitSourceBuffer", "Start">>
    [] c = "pause"  -> <<"Stop">>
    [] c = "resume" -> <<"Start">>
    [] c = "stop"   -> <<"Stop", "FlushSourceBuffers">>
    [] OTHER        -> << >>

IfVoice(calls) == IF m_voice THEN calls ELSE << >>

\* FlushCommand up to the test in pause() and resume(); "read" is its tail.
Command(c) ==
  CASE c = "play"   -> <<"playing">> \o IfVoice(VoiceCalls("play"))
    [] c = "stop"   -> <<"stopped">> \o IfVoice(VoiceCalls("stop"))
    [] c = "pause" /\ player_state = "playing" -> <<"paused">> \o IfVoice(VoiceCalls("pause"))
    [] c = "resume" /\ player_state = "paused" -> <<"playing">> \o IfVoice(VoiceCalls("resume"))
    [] OTHER        -> << >>

FlushCommand ==
  /\ Idle
  /\ todo' = Command(m_last_command) \o <<"read">>
  /\ m_last_command' = "none"
  /\ excused' = (excused /\ ~ (m_last_command \in {"play", "stop"} /\ ending = "no"))
  /\ UNCHANGED <<effect_state, player_state, m_voice, voice, ending>>

SetState ==
  /\ ~ Idle /\ Head(todo) \in PlayState
  /\ player_state' = Head(todo)
  /\ ending' = IF ending = "no" THEN "no" ELSE "overtaken"
  /\ todo' = Tail(todo)
  /\ UNCHANGED <<m_last_command, effect_state, m_voice, voice, excused>>

\* FlushSourceBuffers drops the buffer of a stopped voice without an end of
\* stream; play() and stop() stop the voice first.
After(call) ==
  CASE call = "Stop"               -> [voice EXCEPT !.running = FALSE]
    [] call = "Start"              -> [voice EXCEPT !.running = TRUE]
    [] call = "SubmitSourceBuffer" -> [voice EXCEPT !.queued = TRUE]
    [] call = "FlushSourceBuffers" -> [voice EXCEPT !.queued = FALSE]

CallVoice ==
  /\ ~ Idle /\ Head(todo) \in VoiceCall
  /\ voice' = After(Head(todo))
  /\ todo' = Tail(todo)
  /\ UNCHANGED <<effectVars, playerVars, ending, excused>>

\* A failed call makes play(), pause(), resume() or stop() return at once.
CallFails ==
  /\ CallsFail /\ ~ Idle /\ Head(todo) \in VoiceCall
  /\ todo' = <<"read">> /\ excused' = TRUE
  /\ UNCHANGED <<effectVars, playerVars, voice, ending>>

\* Mutant: as before v0.21.14, the state of the player is never read.
ReadNothing ==
  /\ ~ Idle /\ Head(todo) = "read"
  /\ todo' = << >>
  /\ UNCHANGED <<effectVars, playerVars, voice, ending, excused>>

\* The tail of FlushCommand: an effect whose player has stopped is stopped.
ReadState ==
  /\ ~ Idle /\ Head(todo) = "read"
  /\ effect_state' = IF player_state = "stopped" THEN "stopped" ELSE effect_state
  /\ todo' = << >>
  /\ UNCHANGED <<m_last_command, playerVars, voice, ending, excused>>

------------------------------------------------------------------------------
\* The thread of XAudio2 reaches the end of the buffer, then calls back.
BufferEnds ==
  /\ m_voice /\ voice.running /\ voice.queued /\ ending = "no"
  /\ voice' = [voice EXCEPT !.queued = FALSE]
  /\ ending' = IF ~ Idle /\ Head(todo) \in VoiceCall THEN "overtaken" ELSE "fresh"
  /\ UNCHANGED <<effectVars, playerVars, todo, excused>>

OnStreamEnd ==
  /\ ending # "no"
  /\ player_state' = "stopped"
  /\ excused' = (excused \/ ending = "overtaken"
                 \/ (~ Idle /\ Head(todo) = "paused"))
  /\ ending' = "no"
  /\ UNCHANGED <<effectVars, m_voice, todo, voice>>

------------------------------------------------------------------------------
\* The audio engine closes and opens its endpoint.  DestroyVoice waits for a
\* callback in progress.  create() gives a silent voice, whatever m_state says.
onAudioEngineDestroy ==
  /\ Idle /\ m_voice /\ ending = "no"
  /\ m_voice' = FALSE /\ voice' = Silent
  /\ UNCHANGED <<effectVars, player_state, todo, ending, excused>>

onAudioEngineCreate ==
  /\ Idle /\ ~ m_voice
  /\ m_voice' = TRUE
  /\ UNCHANGED <<effectVars, player_state, todo, voice, ending, excused>>

FlushStep == SetState \/ CallVoice \/ CallFails \/ ReadState
Script    == Play \/ Resume \/ Pause \/ Stop

SoundNext ==
  \/ Play \/ Resume \/ Pause \/ Stop
  \/ FlushCommand \/ SetState \/ CallVoice \/ CallFails \/ ReadState
  \/ BufferEnds \/ OnStreamEnd
  \/ onAudioEngineDestroy \/ onAudioEngineCreate

\* The frame loop goes on, and XAudio2 plays what it is given.
SoundFairness ==
  /\ WF_soundVars(FlushCommand) /\ WF_soundVars(FlushStep)
  /\ WF_soundVars(BufferEnds) /\ WF_soundVars(OnStreamEnd)

SoundSpec == SoundInit /\ [][SoundNext]_soundVars /\ SoundFairness

------------------------------------------------------------------------------
\* After a flush the state a script reads is the state of the player, or the
\* player has stopped since: the two state machines, each with guards of its
\* own, never come apart in any other way, whatever sequence of commands
\* overwrote each other within a frame (ResourceSoundEffectImpl, FlushCommand).
EffectFollowsPlayer ==
  Idle /\ m_last_command = "none" => player_state \in {effect_state, "stopped"}

\* A sound that a script reads as paused is silent, even when OnStreamEnd came
\* late or between the test and the write in pause() (AudioPlayerXAudio2).
PausedIsSilent ==
  Idle /\ m_last_command = "none" /\ effect_state = "paused" /\ m_voice
    => ~ voice.running \/ (CallsFail /\ excused)

\* What is heard is reported as playing: a running voice with a buffer belongs
\* to a player that says so, unless OnStreamEnd of the previous play() was
\* overtaken by it or a call failed.
AudibleIsPlaying ==
  Idle /\ voice.running /\ voice.queued /\ ~ excused => player_state = "playing"

\* What holds of an effect at every moment: script, player and voice agree as
\* far as the code can make them.
EffectInv == SoundTypeOK /\ EffectFollowsPlayer /\ PausedIsSilent /\ AudibleIsPlaying

\* Once the script leaves the effect alone, what it reads is in the end the
\* state of the player, for good: the end of a sound is not missed.
StatesAgree ==
  <>[][~ Script]_soundVars => <>[](effect_state = player_state)
==============================================================================
