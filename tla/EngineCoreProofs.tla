-------------------------- MODULE EngineCoreProofs --------------------------
(***************************************************************************)
(* Parts of the engine that do not interact with each other: the fixed     *)
(* object pool, the super pause, sound effects, the audio engine, the      *)
(* resources of the graphics device, and those that scripts load.          *)
(***************************************************************************)
EXTENDS Sound, FixedObjectPool, SuperPause, GraphicsResources, ResourcePool,
        FiniteSetTheorems, SequenceTheorems, TLAPS

------------------------------------------------------------------------------
(* The fixed object pool, of any size.                                     *)

SlotsInv == PoolTypeOK /\ FreeStackInv /\ SizeInv

LEMMA UsedFinite == IsFiniteSet(used)
<1>1. IsFiniteSet(Id)
  BY NAssumption, FS_Interval DEF Id
<1> QED BY <1>1, FS_Subset DEF used

\* The all-free state establishes the invariant.
LEMMA ClearedSlots ==
  ASSUME Cleared, result' \in Id \cup {Invalid} PROVE SlotsInv'
<1>1. PoolTypeOK'
  BY NAssumption DEF Cleared, PoolTypeOK, Id, Invalid
<1>2. FreeStackInv'
  <2>1. \A id \in Id : (N - 1) - id \in 0 .. N - 1 /\ (N - 1) - ((N - 1) - id) = id
    BY NAssumption DEF Id
  <2> QED BY <2>1, NAssumption DEF Cleared, FreeStackInv, Id
<1>3. SizeInv'
  <2>1. used' = {}
    BY DEF Cleared, used
  <2>2. size' = 0
    BY NAssumption DEF Cleared, size
  <2> QED BY <2>1, <2>2, FS_EmptySet DEF SizeInv
<1> QED BY <1>1, <1>2, <1>3 DEF SlotsInv

LEMMA InitSlots == PoolInit => SlotsInv
<1> SUFFICES ASSUME PoolInit PROVE SlotsInv
  OBVIOUS
<1>1. PoolTypeOK
  BY NAssumption DEF PoolInit, PoolTypeOK, Id, Invalid
<1>2. FreeStackInv
  <2>1. \A id \in Id : (N - 1) - id \in 0 .. N - 1 /\ (N - 1) - ((N - 1) - id) = id
    BY NAssumption DEF Id
  <2> QED BY <2>1, NAssumption DEF PoolInit, FreeStackInv, Id
<1>3. SizeInv
  <2>1. used = {}
    BY DEF PoolInit, used
  <2>2. size = 0
    BY NAssumption DEF PoolInit, size
  <2> QED BY <2>1, <2>2, FS_EmptySet DEF SizeInv
<1> QED BY <1>1, <1>2, <1>3 DEF SlotsInv

LEMMA AllocSlots == SlotsInv /\ alloc => SlotsInv'
<1> SUFFICES ASSUME SlotsInv, alloc PROVE SlotsInv'
  OBVIOUS
<1> DEFINE top == m_free_count - 1
           id  == m_free_indices[top]
<1>1. /\ top \in 0 .. m_free_count - 1 /\ top \in Id /\ id \in Id /\ ~ m_used[id]
      /\ m_free_count' = top /\ top \in 0 .. N /\ result' = id
      /\ m_used' = [m_used EXCEPT ![id] = TRUE]
      /\ m_free_indices' = [m_free_indices EXCEPT ![top] = Invalid]
  BY NAssumption DEF SlotsInv, PoolTypeOK, FreeStackInv, alloc, Id
<1>2. PoolTypeOK'
  BY <1>1 DEF SlotsInv, PoolTypeOK
<1>3. FreeStackInv'
  <2>1. \A i \in 0 .. top - 1 : i \in Id /\ i \in 0 .. m_free_count - 1 /\ i # top
                                  /\ m_free_indices'[i] = m_free_indices[i]
    BY <1>1, NAssumption DEF SlotsInv, PoolTypeOK, Id
  <2>2. \A i \in 0 .. top - 1 : m_free_indices[i] # id
    BY <1>1, <2>1 DEF SlotsInv, FreeStackInv
  <2>3. \A i \in 0 .. top - 1 : m_free_indices'[i] \in Id /\ ~ m_used'[m_free_indices'[i]]
    BY <1>1, <2>1, <2>2 DEF SlotsInv, FreeStackInv, PoolTypeOK
  <2>4. \A x \in Id : m_used'[x] \/ \E i \in 0 .. top - 1 : m_free_indices'[i] = x
    <3> SUFFICES ASSUME NEW x \in Id, ~ m_used'[x]
                 PROVE \E i \in 0 .. top - 1 : m_free_indices'[i] = x
      OBVIOUS
    <3>1. x # id /\ ~ m_used[x]
      BY <1>1 DEF SlotsInv, PoolTypeOK
    <3>2. PICK i \in 0 .. m_free_count - 1 : m_free_indices[i] = x
      BY <3>1 DEF SlotsInv, FreeStackInv
    <3>3. i \in 0 .. top - 1
      BY <1>1, <3>1, <3>2 DEF SlotsInv, PoolTypeOK
    <3> QED BY <2>1, <3>2, <3>3
  <2>5. \A i, j \in 0 .. top - 1 : m_free_indices'[i] = m_free_indices'[j] => i = j
    BY <2>1 DEF SlotsInv, FreeStackInv
  <2> QED BY <1>1, <2>3, <2>4, <2>5 DEF FreeStackInv
<1>4. SizeInv'
  <2>1. used' = used \cup {id} /\ id \notin used
    BY <1>1 DEF used, SlotsInv, PoolTypeOK
  <2>2. Cardinality(used') = Cardinality(used) + 1
    BY <2>1, UsedFinite, FS_AddElement
  <2> QED BY <1>1, <2>2, NAssumption DEF SlotsInv, SizeInv, size, PoolTypeOK
<1> QED BY <1>2, <1>3, <1>4 DEF SlotsInv

\* There is room on the stack whenever some slot is in use, because the stack
\* holds as many entries as there are slots not in use.
LEMMA FreeSlots == ASSUME SlotsInv, NEW id \in Id, free(id) PROVE SlotsInv'
<1>1. m_free_count < N
  <2>1. id \in used
    BY DEF free, used
  <2>2. Cardinality(used) # 0 /\ Cardinality(used) \in Nat
    BY <2>1, UsedFinite, FS_EmptySet, FS_CardinalityType
  <2> QED BY <2>2, NAssumption DEF SlotsInv, SizeInv, size, PoolTypeOK
<1> DEFINE c == m_free_count
<1>2. /\ c \in Id /\ c \in Nat /\ m_used[id] /\ m_free_count' = c + 1
      /\ m_used' = [m_used EXCEPT ![id] = FALSE]
      /\ m_free_indices' = [m_free_indices EXCEPT ![c] = id]
  BY <1>1, NAssumption DEF free, SlotsInv, PoolTypeOK, Id
<1>3. PoolTypeOK'
  BY <1>1, <1>2, NAssumption DEF SlotsInv, PoolTypeOK, free
<1>4. /\ 0 .. (c + 1) - 1 = (0 .. c - 1) \cup {c}
      /\ m_free_indices'[c] = id
      /\ \A i \in 0 .. c - 1 : i # c /\ i \in Id /\ m_free_indices'[i] = m_free_indices[i]
  BY <1>1, <1>2, NAssumption DEF SlotsInv, PoolTypeOK, Id
<1>5. FreeStackInv'
  <2>1. \A i \in 0 .. c - 1 : m_free_indices[i] \in Id /\ m_free_indices[i] # id
    BY <1>2 DEF SlotsInv, FreeStackInv
  <2>2. \A i \in 0 .. (c + 1) - 1 : m_free_indices'[i] \in Id /\ ~ m_used'[m_free_indices'[i]]
    BY <1>2, <1>4, <2>1 DEF SlotsInv, FreeStackInv, PoolTypeOK
  <2>3. \A i, j \in 0 .. (c + 1) - 1 : m_free_indices'[i] = m_free_indices'[j] => i = j
    BY <1>4, <2>1 DEF SlotsInv, FreeStackInv
  <2>4. \A x \in Id : m_used'[x] \/ \E i \in 0 .. (c + 1) - 1 : m_free_indices'[i] = x
    <3> SUFFICES ASSUME NEW x \in Id, ~ m_used'[x]
                 PROVE \E i \in 0 .. (c + 1) - 1 : m_free_indices'[i] = x
      OBVIOUS
    <3>1. CASE x = id
      BY <3>1, <1>4
    <3>2. CASE x # id
      BY <3>2, <1>2, <1>4 DEF SlotsInv, FreeStackInv, PoolTypeOK
    <3> QED BY <3>1, <3>2
  <2> QED BY <1>2, <2>2, <2>3, <2>4 DEF FreeStackInv
<1>6. SizeInv'
  <2>1. used' = used \ {id} /\ id \in used
    BY <1>2 DEF used, SlotsInv, PoolTypeOK
  <2>2. Cardinality(used') = Cardinality(used) - 1
    BY <2>1, UsedFinite, FS_RemoveElement
  <2> QED BY <1>2, <2>2, UsedFinite, FS_CardinalityType, NAssumption
      DEF SlotsInv, SizeInv, size, PoolTypeOK
<1> QED BY <1>3, <1>5, <1>6 DEF SlotsInv

LEMMA SlotsStep == SlotsInv /\ [PoolNext]_poolVars => SlotsInv'
<1> SUFFICES ASSUME SlotsInv, [PoolNext]_poolVars PROVE SlotsInv'
  OBVIOUS
<1>1. CASE alloc
  BY <1>1, AllocSlots
<1>2. CASE allocFails
  BY <1>2 DEF allocFails, SlotsInv, PoolTypeOK, FreeStackInv, SizeInv, size, used
<1>3. ASSUME NEW id \in Id \cup {N}, free(id) PROVE SlotsInv'
  <2>1. id \in Id
    BY <1>3 DEF free
  <2> QED BY <1>3, <2>1, FreeSlots
<1>4. ASSUME NEW id \in Id \cup {N}, freeIgnored(id) PROVE SlotsInv'
  BY <1>4 DEF freeIgnored, poolVars, SlotsInv, PoolTypeOK, FreeStackInv, SizeInv, size, used
<1>5. CASE clear
  <2>1. Cleared /\ result' \in Id \cup {Invalid}
    BY <1>5 DEF clear, SlotsInv, PoolTypeOK
  <2> QED BY <2>1, ClearedSlots
<1>6. CASE UNCHANGED poolVars
  BY <1>6 DEF poolVars, SlotsInv, PoolTypeOK, FreeStackInv, SizeInv, size, used
<1> QED BY <1>1, <1>2, <1>3, <1>4, <1>5, <1>6 DEF PoolNext

\* For every capacity, the free stack holds exactly the unused slots, each
\* once (FreeStackInv), and size() counts the used ones (SizeInv).
THEOREM FreeStackExact == PoolSpec => [](FreeStackInv /\ SizeInv)
<1>1. SlotsInv => FreeStackInv /\ SizeInv
  BY DEF SlotsInv
<1> QED BY InitSlots, SlotsStep, <1>1, PTL DEF PoolSpec

\* Every behaviour of the pool is one of the abstract allocator
\* (ImplementsSlotAllocator).
THEOREM PoolImplementsAllocator == PoolSpec => ImplementsSlotAllocator
<1>1. PoolInit => Slots!Init
  BY DEF PoolInit, Slots!Init, used
<1>2. SlotsInv /\ [PoolNext]_poolVars => [Slots!Next]_used
  <2> SUFFICES ASSUME SlotsInv, [PoolNext]_poolVars PROVE [Slots!Next]_used
    OBVIOUS
  <2>1. CASE alloc
    <3> DEFINE id == m_free_indices[m_free_count - 1]
    <3>1. id \in Id /\ ~ m_used[id] /\ m_used' = [m_used EXCEPT ![id] = TRUE]
      BY <2>1, NAssumption DEF alloc, SlotsInv, PoolTypeOK, FreeStackInv
    <3>2. id \notin used /\ used' = used \cup {id}
      BY <3>1 DEF used, SlotsInv, PoolTypeOK
    <3> QED BY <3>1, <3>2 DEF Slots!Next, Slots!Alloc
  <2>2. ASSUME NEW id \in Id \cup {N}, free(id) PROVE Slots!Next
    <3>1. id \in used /\ used' = used \ {id}
      BY <2>2 DEF free, used, SlotsInv, PoolTypeOK
    <3> QED BY <3>1 DEF Slots!Next, Slots!Free, used
  <2>3. CASE clear
    BY <2>3 DEF clear, Cleared, used, Slots!Next, Slots!Clear
  <2>4. CASE allocFails \/ UNCHANGED poolVars \/ \E id \in Id \cup {N} : freeIgnored(id)
    BY <2>4 DEF allocFails, freeIgnored, poolVars, used
  <2> QED BY <2>1, <2>2, <2>3, <2>4 DEF PoolNext
<1> QED BY InitSlots, SlotsStep, <1>1, <1>2, PTL DEF PoolSpec, ImplementsSlotAllocator, Slots!Spec

------------------------------------------------------------------------------
(* The super pause, for pauses of any length, set at any moment.           *)

\* Between the two passes of a frame the object has been moved once more than
\* its timer has been ticked, unless the first version froze it.
MidFrame ==
  due = "AfterFrame" =>
    lead = IF version = 1 /\ m_superpause > 0 THEN 0 ELSE 1

\* The two counters belong to the same pause until a script asks for another.
Counting ==
  ~ pending => m_nextsuperpause = IF m_superpause > 0 THEN m_superpause - 1 ELSE 0

PauseInv == PauseTypeOK /\ NoDrift /\ MidFrame /\ Counting /\ PauseIsExact

LEMMA InitPauseInv == PauseInit => PauseInv
<1> SUFFICES ASSUME PauseInit PROVE PauseInv
  OBVIOUS
<1>1. PauseTypeOK
  <2>1. pending \in BOOLEAN
    BY DEF PauseInit
  <2> QED BY <2>1, PauseAssumption DEF PauseInit, PauseTypeOK
<1>2. NoDrift /\ MidFrame /\ Counting /\ PauseIsExact
  BY DEF PauseInit, NoDrift, MidFrame, Counting, PauseIsExact, Left
<1> QED BY <1>1, <1>2 DEF PauseInv

LEMMA PauseStep == PauseInv /\ [PauseNext]_pauseVars => PauseInv'
<1> SUFFICES ASSUME PauseInv, [PauseNext]_pauseVars PROVE PauseInv'
  OBVIOUS
<1> USE PauseAssumption DEF PauseInv, PauseTypeOK, NoDrift, MidFrame, Counting, PauseIsExact, Left
<1>1. CASE ObjFrame
  <2>1. CASE version = 1
    <3>1. PauseTypeOK'
      <4>1. ~ pending' /\ version' = version
        BY <1>1, <2>1 DEF ObjFrame, UpdateIn, UpdateSuperPause
      <4>2. asked' \in 0 .. PauseBound
        BY <1>1, <2>1 DEF ObjFrame, UpdateIn, UpdateSuperPause
      <4>3. /\ due' \in {"ObjFrame", "AfterFrame"} /\ lead' \in Int /\ frozen' \in Nat
            /\ m_superpause' \in 0 .. PauseBound /\ m_nextsuperpause' \in 0 .. PauseBound
        BY <1>1, <2>1 DEF ObjFrame, UpdateIn, UpdateSuperPause
      <4>4. pending' \in BOOLEAN
        <5>1. UpdateSuperPause
          BY <1>1, <2>1 DEF ObjFrame, UpdateIn
        <5> QED BY <5>1, Zenon DEF UpdateSuperPause
      <4> QED BY <4>1, <4>2, <4>3, <4>4
    <3>2. NoDrift' /\ MidFrame'
      BY <1>1, <2>1 DEF ObjFrame, UpdateIn, UpdateSuperPause
    <3>3. Counting'
      BY <1>1, <2>1 DEF ObjFrame, UpdateIn, UpdateSuperPause
    <3>4. PauseIsExact'
      <4>1. CASE pending
        BY <4>1, <1>1, <2>1 DEF ObjFrame, UpdateIn, UpdateSuperPause
      <4>2. CASE ~ pending
        BY <4>2, <1>1, <2>1 DEF ObjFrame, UpdateIn, UpdateSuperPause
      <4> QED BY <4>1, <4>2
    <3> QED BY <3>1, <3>2, <3>3, <3>4
  <2>2. CASE version = 2
    BY <1>1, <2>2 DEF ObjFrame, UpdateIn, KeepSuperPause
  <2> QED BY <2>1, <2>2
<1>2. CASE AfterFrame
  <2>1. CASE version = 1
    BY <1>2, <2>1 DEF AfterFrame, UpdateIn, KeepSuperPause
  <2>2. CASE version = 2
    <3>1. PauseTypeOK'
      <4>1. ~ pending' /\ version' = version
        BY <1>2, <2>2 DEF AfterFrame, UpdateIn, UpdateSuperPause
      <4>2. asked' \in 0 .. PauseBound
        BY <1>2, <2>2 DEF AfterFrame, UpdateIn, UpdateSuperPause
      <4>3. /\ due' \in {"ObjFrame", "AfterFrame"} /\ lead' \in Int /\ frozen' \in Nat
            /\ m_superpause' \in 0 .. PauseBound /\ m_nextsuperpause' \in 0 .. PauseBound
        BY <1>2, <2>2 DEF AfterFrame, UpdateIn, UpdateSuperPause
      <4>4. pending' \in BOOLEAN
        <5>1. UpdateSuperPause
          BY <1>2, <2>2 DEF AfterFrame, UpdateIn
        <5> QED BY <5>1, Zenon DEF UpdateSuperPause
      <4> QED BY <4>1, <4>2, <4>3, <4>4
    <3>2. NoDrift' /\ MidFrame'
      BY <1>2, <2>2 DEF AfterFrame, UpdateIn, UpdateSuperPause
    <3>3. Counting'
      BY <1>2, <2>2 DEF AfterFrame, UpdateIn, UpdateSuperPause
    <3>4. PauseIsExact'
      <4>1. CASE pending
        BY <4>1, <1>2, <2>2 DEF AfterFrame, UpdateIn, UpdateSuperPause
      <4>2. CASE ~ pending
        BY <4>2, <1>2, <2>2 DEF AfterFrame, UpdateIn, UpdateSuperPause
      <4> QED BY <4>1, <4>2
    <3> QED BY <3>1, <3>2, <3>3, <3>4
  <2> QED BY <2>1, <2>2
<1>3. ASSUME NEW t \in 0 .. PauseBound, SetNextFrameSuperPauseTime(t) PROVE PauseInv'
  BY <1>3 DEF SetNextFrameSuperPauseTime
<1>4. CASE UNCHANGED pauseVars
  BY <1>4 DEF pauseVars
<1> QED BY <1>1, <1>2, <1>3, <1>4 DEF PauseNext

\* No sequence of pauses makes movement and timers drift apart (UpdateSuperPause
\* in updateMovementsLegacy and in updateNext).
THEOREM PausesDoNotDrift == PauseSpec => []NoDrift
<1>1. PauseInv => NoDrift
  BY DEF PauseInv
<1> QED BY InitPauseInv, PauseStep, <1>1, PTL DEF PauseSpec

\* A pause of t frames freezes exactly t frames (SetNextFrameSuperPauseTime).
THEOREM PausesAreExact == PauseSpec => []PauseIsExact
<1>1. PauseInv => PauseIsExact
  BY DEF PauseInv
<1> QED BY InitPauseInv, PauseStep, <1>1, PTL DEF PauseSpec
------------------------------------------------------------------------------
(* A sound effect, with calls of the voice that fail or never do.          *)

Pending(c) == \E i \in 1 .. Len(todo) : todo[i] = c

\* What is left of a flush: at most one state to write, then calls of the
\* voice, if there is one, then the reading of the state.  A pause and a stop
\* stop the voice; only what plays starts it.
FlushInv ==
  /\ todo # << >> => m_last_command = "none" /\ todo[Len(todo)] = "read"
  /\ \A i \in 1 .. Len(todo) : todo[i] = "read" => i = Len(todo)
  /\ \A i \in 2 .. Len(todo) : todo[i] \notin PlayState
  /\ ~ m_voice => voice = Silent /\ \A i \in 1 .. Len(todo) : todo[i] \notin VoiceCall
  /\ todo # << >> /\ todo[1] \in {"paused", "stopped"} /\ m_voice => Pending("Stop")
  /\ todo # << >> /\ todo[1] \in {"paused", "stopped"} => ~ Pending("Start")
  /\ \A i \in 1 .. Len(todo) :
       todo[i] = "SubmitSourceBuffer" => \E j \in i + 1 .. Len(todo) : todo[j] = "Start"

\* The state the player will have: the one still to be written, or the one it
\* has.
Planned == IF todo # << >> /\ todo[1] \in PlayState THEN todo[1] ELSE player_state

\* The command to flush belongs to the state the script reads.
CommandInv ==
  /\ m_last_command \in {"play", "resume"} => effect_state = "playing"
  /\ m_last_command = "pause" => effect_state = "paused"
  /\ m_last_command = "stop" => effect_state = "stopped"
  /\ m_last_command = "none" => Planned \in {effect_state, "stopped"}

\* Between the writing of a state and the start of the voice, only an end that
\* was overtaken can still change the state.
EndingInv ==
  /\ todo # << >> /\ todo[1] \in VoiceCall => ending # "fresh"
  /\ Pending("Start") /\ todo[1] \notin PlayState => player_state = "playing" \/ (player_state = "stopped" /\ excused)
  /\ ending = "fresh" => ~ voice.queued

\* Unless a stop is still to come, a paused player has a silent voice, and what
\* is heard has a player that plays.
VoiceInv ==
  ~ Pending("Stop") =>
    /\ player_state = "paused" => ~ voice.running \/ (CallsFail /\ excused)
    /\ m_last_command = "none" /\ effect_state = "paused" /\ todo = << >>
         => ~ voice.running \/ (CallsFail /\ excused)
    /\ voice.running /\ voice.queued /\ ~ excused => player_state = "playing"

EffectIInv == SoundTypeOK /\ FlushInv /\ CommandInv /\ EndingInv /\ VoiceInv

\* The program that a flush leaves for a command.
StateOf(c) ==
  CASE c \in {"play", "resume"} -> "playing"
    [] c = "pause"              -> "paused"
    [] OTHER                    -> "stopped"

LEMMA CallsTyped ==
  \A c \in {"play", "pause", "resume", "stop"} :
    /\ VoiceCalls(c) \in Seq(VoiceCall) /\ IfVoice(VoiceCalls(c)) \in Seq(VoiceCall)
<1>1. << >> \in Seq(VoiceCall)
  OBVIOUS
<1>2. \A c \in {"play", "pause", "resume", "stop"} : VoiceCalls(c) \in Seq(VoiceCall)
  <2>1. VoiceCalls("play") \in Seq(VoiceCall)
    BY DEF VoiceCalls, VoiceCall
  <2>2. VoiceCalls("pause") \in Seq(VoiceCall)
    BY DEF VoiceCalls, VoiceCall
  <2>3. VoiceCalls("resume") \in Seq(VoiceCall)
    BY DEF VoiceCalls, VoiceCall
  <2>4. VoiceCalls("stop") \in Seq(VoiceCall)
    BY DEF VoiceCalls, VoiceCall
  <2> QED BY <2>1, <2>2, <2>3, <2>4
<1> QED BY <1>1, <1>2 DEF IfVoice

LEMMA FlushPrograms ==
  ASSUME SoundTypeOK, FlushCommand
  PROVE  \/ /\ m_last_command \in {"none", "pause", "resume"}
            /\ m_last_command = "pause" => player_state # "playing"
            /\ m_last_command = "resume" => player_state # "paused"
            /\ todo' = <<"read">>
         \/ /\ m_last_command \in {"play", "pause", "resume", "stop"}
            /\ todo' = (<<StateOf(m_last_command)>> \o IfVoice(VoiceCalls(m_last_command)))
                       \o <<"read">>
<1>0. /\ m_last_command \in {"none", "play", "pause", "resume", "stop"}
      /\ todo' = Command(m_last_command) \o <<"read">>
  BY DEF SoundTypeOK, FlushCommand
<1>1. CASE \/ m_last_command = "none"
           \/ m_last_command = "pause" /\ player_state # "playing"
           \/ m_last_command = "resume" /\ player_state # "paused"
  <2>1. Command(m_last_command) = << >>
    BY <1>1 DEF Command
  <2>2. << >> \o <<"read">> = <<"read">>
    OBVIOUS
  <2> QED BY <1>0, <1>1, <2>1, <2>2
<1>2. CASE \/ m_last_command \in {"play", "stop"}
           \/ m_last_command = "pause" /\ player_state = "playing"
           \/ m_last_command = "resume" /\ player_state = "paused"
  <2>1. Command(m_last_command) =
          <<StateOf(m_last_command)>> \o IfVoice(VoiceCalls(m_last_command))
    BY <1>2 DEF Command, StateOf
  <2> QED BY <1>0, <1>2, <2>1
<1> QED BY <1>0, <1>1, <1>2

\* One state, the calls of the voice, the reading.
LEMMA ProgramParts ==
  ASSUME NEW s \in PlayState, NEW calls \in Seq(VoiceCall),
         NEW t, t = (<<s>> \o calls) \o <<"read">>
  PROVE  /\ t \in Seq(VoiceCall \cup PlayState \cup {"read"})
         /\ Len(t) = Len(calls) + 2 /\ Len(calls) \in Nat
         /\ t[1] = s /\ t[Len(t)] = "read"
         /\ \A i \in 2 .. Len(t) - 1 : i - 1 \in 1 .. Len(calls) /\ t[i] = calls[i - 1]
         /\ \A i \in 1 .. Len(calls) : i + 1 \in 2 .. Len(t) - 1 /\ t[i + 1] = calls[i]
<1> DEFINE S == VoiceCall \cup PlayState \cup {"read"}
<1>1. calls \in Seq(S) /\ <<s>> \in Seq(S) /\ <<"read">> \in Seq(S)
  <2>1. calls \in Seq(S)
    BY SeqMonotonic
  <2>2. <<s>> \in Seq(S)
    OBVIOUS
  <2>3. <<"read">> \in Seq(S)
    OBVIOUS
  <2> QED BY <2>1, <2>2, <2>3
<1>2. Len(<<s>>) = 1 /\ <<s>>[1] = s /\ Len(<<"read">>) = 1 /\ <<"read">>[1] = "read"
  OBVIOUS
<1>3. Len(calls) \in Nat
  BY LenProperties
<1> DEFINE u == <<s>> \o calls
<1>4. /\ u \in Seq(S) /\ Len(u) = 1 + Len(calls)
      /\ \A i \in 1 .. 1 + Len(calls) : u[i] = IF i <= 1 THEN <<s>>[i] ELSE calls[i - 1]
  <2> HIDE DEF S
  <2> QED BY <1>1, <1>2, ConcatProperties
<1>5. t = u \o <<"read">>
  OBVIOUS
<1>6. /\ t \in Seq(S) /\ Len(t) = Len(u) + 1
      /\ \A i \in 1 .. Len(u) + 1 : t[i] = IF i <= Len(u) THEN u[i] ELSE <<"read">>[i - Len(u)]
  <2> HIDE DEF S, u
  <2> QED BY <1>1, <1>2, <1>4, <1>5, ConcatProperties
<1>7. t[1] = s
  <2>1. u[1] = s
    BY <1>2, <1>3, <1>4
  <2>2. 1 \in 1 .. Len(u) + 1 /\ 1 <= Len(u)
    BY <1>3, <1>4
  <2> HIDE DEF u
  <2> QED BY <1>6, <2>1, <2>2
<1>8. t[Len(t)] = "read"
  <2>1. Len(t) \in 1 .. Len(u) + 1 /\ ~ (Len(t) <= Len(u)) /\ Len(t) - Len(u) = 1
    BY <1>3, <1>4, <1>6
  <2> HIDE DEF u
  <2> QED BY <1>2, <1>6, <2>1
<1>9. \A i \in 2 .. Len(t) - 1 : i - 1 \in 1 .. Len(calls) /\ t[i] = calls[i - 1]
  <2> SUFFICES ASSUME NEW i \in 2 .. Len(t) - 1
               PROVE  i - 1 \in 1 .. Len(calls) /\ t[i] = calls[i - 1]
    OBVIOUS
  <2>1. /\ i \in 1 .. Len(u) + 1 /\ i <= Len(u) /\ i \in 1 .. 1 + Len(calls) /\ ~ (i <= 1)
        /\ i - 1 \in 1 .. Len(calls)
    BY <1>3, <1>4, <1>6
  <2>2. u[i] = calls[i - 1]
    BY <1>4, <2>1
  <2> HIDE DEF u
  <2> QED BY <1>6, <2>1, <2>2
<1>10. \A i \in 1 .. Len(calls) : i + 1 \in 2 .. Len(t) - 1 /\ (i + 1) - 1 = i
  BY <1>3, <1>4, <1>6
<1>11. \A i \in 1 .. Len(calls) : t[i + 1] = calls[i]
  BY <1>9, <1>10
<1> HIDE DEF u
<1> QED BY <1>3, <1>4, <1>6, <1>7, <1>8, <1>9, <1>10, <1>11

\* What a flush leaves is a flush; the voice is stopped by all but a resume.
LEMMA FlushLeaves ==
  ASSUME SoundTypeOK, FlushCommand
  PROVE  /\ todo' \in Seq(VoiceCall \cup PlayState \cup {"read"})
         /\ todo' # << >> /\ todo'[1] \in PlayState \cup {"read"} /\ todo'[Len(todo')] = "read"
         /\ \A i \in 1 .. Len(todo') : todo'[i] = "read" => i = Len(todo')
         /\ \A i \in 2 .. Len(todo') : todo'[i] \notin PlayState
         /\ ~ m_voice => \A i \in 1 .. Len(todo') : todo'[i] \notin VoiceCall
         /\ todo'[1] \in {"paused", "stopped"} /\ m_voice => Pending("Stop")'
         /\ todo'[1] \in {"paused", "stopped"} => ~ Pending("Start")'
         /\ \A i \in 1 .. Len(todo') :
              todo'[i] = "SubmitSourceBuffer" => \E j \in i + 1 .. Len(todo') : todo'[j] = "Start"
         /\ m_last_command \in {"play", "stop"} /\ m_voice => Pending("Stop")'
         /\ Pending("Start")' => todo'[1] \in PlayState
         /\ \/ /\ m_last_command \in {"none", "pause", "resume"}
               /\ m_last_command = "pause" => player_state # "playing"
               /\ m_last_command = "resume" => player_state # "paused"
               /\ todo'[1] = "read"
            \/ /\ m_last_command \in {"play", "pause", "resume", "stop"}
               /\ todo'[1] = StateOf(m_last_command)
<1>1. CASE todo' = <<"read">>
  <2>1. Len(todo') = 1 /\ todo'[1] = "read" /\ todo' # << >>
    BY <1>1
  <2>2. /\ todo' \in Seq(VoiceCall \cup PlayState \cup {"read"})
    BY <1>1
  <2>3. \A i \in 1 .. Len(todo') : i = 1 /\ todo'[i] = "read"
    BY <2>1
  <2>4. todo' # (<<StateOf(m_last_command)>> \o IfVoice(VoiceCalls(m_last_command))) \o <<"read">>
        \/ m_last_command \notin {"play", "pause", "resume", "stop"}
    <3> SUFFICES ASSUME m_last_command \in {"play", "pause", "resume", "stop"},
                        todo' = (<<StateOf(m_last_command)>> \o IfVoice(VoiceCalls(m_last_command)))
                                \o <<"read">>
                 PROVE  FALSE
      OBVIOUS
    <3>1. StateOf(m_last_command) \in PlayState /\ IfVoice(VoiceCalls(m_last_command)) \in Seq(VoiceCall)
      BY CallsTyped DEF StateOf, PlayState
    <3>2. todo'[1] = StateOf(m_last_command)
      BY <3>1, ProgramParts
    <3> QED BY <2>1, <3>1, <3>2 DEF PlayState
  <2>5. /\ m_last_command \in {"none", "pause", "resume"}
        /\ m_last_command = "pause" => player_state # "playing"
        /\ m_last_command = "resume" => player_state # "paused"
    BY <2>4, FlushPrograms
  <2> QED BY <2>1, <2>2, <2>3, <2>5 DEF Pending, VoiceCall, PlayState
<1>2. CASE /\ m_last_command \in {"play", "pause", "resume", "stop"}
           /\ todo' = (<<StateOf(m_last_command)>> \o IfVoice(VoiceCalls(m_last_command)))
                      \o <<"read">>
  <2> DEFINE s == StateOf(m_last_command)
             calls == IfVoice(VoiceCalls(m_last_command))
  <2>1. s \in PlayState /\ calls \in Seq(VoiceCall) /\ m_voice \in BOOLEAN
    BY <1>2, CallsTyped DEF StateOf, PlayState, SoundTypeOK
  <2>2. /\ todo' \in Seq(VoiceCall \cup PlayState \cup {"read"})
        /\ Len(todo') = Len(calls) + 2 /\ Len(calls) \in Nat
        /\ todo'[1] = s /\ todo'[Len(todo')] = "read"
        /\ \A i \in 2 .. Len(todo') - 1 : i - 1 \in 1 .. Len(calls) /\ todo'[i] = calls[i - 1]
        /\ \A i \in 1 .. Len(calls) : i + 1 \in 2 .. Len(todo') - 1 /\ todo'[i + 1] = calls[i]
    <3> HIDE DEF s, calls
    <3>1. todo' = (<<s>> \o calls) \o <<"read">>
      BY <1>2 DEF s, calls
    <3> QED BY <2>1, <3>1, ProgramParts
  <2>3. \A i \in 1 .. Len(calls) : calls[i] \in VoiceCall
    BY <2>1, ElementOfSeq
  <2>4. /\ ~ m_voice => Len(calls) = 0
        /\ m_voice /\ m_last_command = "play"
             => Len(calls) = 4 /\ calls[1] = "Stop" /\ calls[2] = "FlushSourceBuffers"
                /\ calls[3] = "SubmitSourceBuffer" /\ calls[4] = "Start"
        /\ m_voice /\ m_last_command = "stop"
             => Len(calls) = 2 /\ calls[1] = "Stop" /\ calls[2] = "FlushSourceBuffers"
        /\ m_voice /\ m_last_command = "pause" => Len(calls) = 1 /\ calls[1] = "Stop"
        /\ m_voice /\ m_last_command = "resume" => Len(calls) = 1 /\ calls[1] = "Start"
    BY <1>2, <2>1, EmptySeq DEF IfVoice, VoiceCalls
  <2> HIDE DEF s, calls
  <2>5. \A i \in 1 .. Len(todo') : i = 1 \/ i = Len(todo') \/ i \in 2 .. Len(todo') - 1
    BY <2>2
  <2>6. /\ \A i \in 1 .. Len(todo') : todo'[i] = "read" => i = Len(todo')
        /\ \A i \in 2 .. Len(todo') : todo'[i] \notin PlayState
    <3>1. \A i \in 2 .. Len(todo') - 1 : todo'[i] \in VoiceCall
      BY <2>2, <2>3
    <3>2. todo'[1] \in PlayState /\ todo'[Len(todo')] = "read"
      BY <2>1, <2>2
    <3>3. \A i \in 2 .. Len(todo') : i = Len(todo') \/ i \in 2 .. Len(todo') - 1
      BY <2>2
    <3>4. "read" \notin VoiceCall \cup PlayState /\ VoiceCall \cap PlayState = {}
      BY DEF VoiceCall, PlayState
    <3> QED BY <2>5, <3>1, <3>2, <3>3, <3>4
  <2>7. \A c \in VoiceCall : Pending(c)' <=> \E i \in 1 .. Len(calls) : calls[i] = c
    <3>1. ASSUME NEW c \in VoiceCall, NEW i \in 1 .. Len(todo'), todo'[i] = c
          PROVE  \E j \in 1 .. Len(calls) : calls[j] = c
      BY <3>1, <2>1, <2>2, <2>5 DEF VoiceCall, PlayState
    <3>2. ASSUME NEW c \in VoiceCall, NEW i \in 1 .. Len(calls), calls[i] = c
          PROVE  \E j \in 1 .. Len(todo') : todo'[j] = c
      <4>1. i + 1 \in 1 .. Len(todo') /\ todo'[i + 1] = c
        BY <3>2, <2>2
      <4> QED BY <4>1
    <3> QED BY <3>1, <3>2 DEF Pending
  <2>8. ~ m_voice => \A i \in 1 .. Len(todo') : todo'[i] \notin VoiceCall
    BY <2>1, <2>2, <2>4, <2>5 DEF VoiceCall, PlayState
  <2>9. /\ s \in {"paused", "stopped"} => m_last_command \in {"pause", "stop"}
        /\ m_last_command \in {"play", "pause", "resume", "stop"}
    BY <1>2 DEF StateOf, s
  <2>10. /\ Pending("Stop")' <=> m_voice /\ m_last_command # "resume"
         /\ Pending("Start")' <=> m_voice /\ m_last_command \in {"play", "resume"}
    <3>1. /\ "Stop" \in VoiceCall /\ "Start" \in VoiceCall /\ "SubmitSourceBuffer" \in VoiceCall
      BY DEF VoiceCall
    <3>2. CASE ~ m_voice
      BY <3>1, <3>2, <2>2, <2>4, <2>7
    <3>3. CASE m_voice /\ m_last_command = "play"
      <4>1. 1 \in 1 .. Len(calls) /\ 4 \in 1 .. Len(calls)
        BY <2>1, <2>4, <3>3
      <4> QED BY <3>1, <3>3, <2>4, <2>7, <4>1
    <3>4. CASE m_voice /\ m_last_command = "stop"
      <4>0. Len(calls) = 2
        BY <2>4, <3>4
      <4>1. 1 \in 1 .. Len(calls) /\ \A i \in 1 .. Len(calls) : i = 1 \/ i = 2
        BY <4>0
      <4> QED BY <3>1, <3>4, <2>4, <2>7, <4>1
    <3>5. CASE m_voice /\ m_last_command = "pause"
      <4>0. Len(calls) = 1
        BY <2>4, <3>5
      <4>1. 1 \in 1 .. Len(calls) /\ \A i \in 1 .. Len(calls) : i = 1
        BY <4>0
      <4> QED BY <3>1, <3>5, <2>4, <2>7, <4>1
    <3>6. CASE m_voice /\ m_last_command = "resume"
      <4>0. Len(calls) = 1
        BY <2>4, <3>6
      <4>1. 1 \in 1 .. Len(calls) /\ \A i \in 1 .. Len(calls) : i = 1
        BY <4>0
      <4> QED BY <3>1, <3>6, <2>4, <2>7, <4>1
    <3> QED BY <2>1, <2>9, <3>2, <3>3, <3>4, <3>5, <3>6
  <2>12. \A i \in 1 .. Len(todo') :
           todo'[i] = "SubmitSourceBuffer" => \E j \in i + 1 .. Len(todo') : todo'[j] = "Start"
    <3> SUFFICES ASSUME NEW i \in 1 .. Len(todo'), todo'[i] = "SubmitSourceBuffer"
                 PROVE  \E j \in i + 1 .. Len(todo') : todo'[j] = "Start"
      OBVIOUS
    <3>1. i \in 2 .. Len(todo') - 1 /\ calls[i - 1] = "SubmitSourceBuffer" /\ i - 1 \in 1 .. Len(calls)
      BY <2>1, <2>2, <2>5 DEF PlayState
    <3>2. m_voice /\ m_last_command = "play"
      <4>1. m_voice
        BY <2>1, <2>2, <2>4, <3>1
      <4>2. m_last_command # "pause"
        <5> SUFFICES ASSUME m_last_command = "pause" PROVE FALSE
          OBVIOUS
        <5>1. Len(calls) = 1 /\ calls[1] = "Stop"
          BY <2>4, <4>1
        <5>2. i - 1 = 1
          BY <3>1, <5>1
        <5> QED BY <3>1, <5>1, <5>2
      <4>3. m_last_command # "resume"
        <5> SUFFICES ASSUME m_last_command = "resume" PROVE FALSE
          OBVIOUS
        <5>1. Len(calls) = 1 /\ calls[1] = "Start"
          BY <2>4, <4>1
        <5>2. i - 1 = 1
          BY <3>1, <5>1
        <5> QED BY <3>1, <5>1, <5>2
      <4>4. m_last_command # "stop"
        <5> SUFFICES ASSUME m_last_command = "stop" PROVE FALSE
          OBVIOUS
        <5>1. Len(calls) = 2 /\ calls[1] = "Stop" /\ calls[2] = "FlushSourceBuffers"
          BY <2>4, <4>1
        <5>2. i - 1 = 1 \/ i - 1 = 2
          BY <3>1, <5>1
        <5> QED BY <3>1, <5>1, <5>2
      <4> QED BY <1>2, <4>1, <4>2, <4>3, <4>4
    <3>3. Len(calls) = 4 /\ calls[1] = "Stop" /\ calls[2] = "FlushSourceBuffers" /\ calls[4] = "Start"
      BY <2>4, <3>2
    <3>4. i - 1 # 1 /\ i - 1 # 2 /\ i - 1 # 4
      BY <3>1, <3>3
    <3>5. 5 \in i + 1 .. Len(todo') /\ 4 \in 1 .. Len(calls)
      BY <2>2, <3>1, <3>3, <3>4
    <3> QED BY <2>2, <3>3, <3>5
  <2>11. todo' # << >>
    BY <2>2, EmptySeq
  <2> QED BY <2>1, <2>2, <2>6, <2>8, <2>9, <2>10, <2>11, <2>12 DEF s
<1> QED BY <1>1, <1>2, FlushPrograms

LEMMA FlushStarts == ASSUME EffectIInv, FlushCommand PROVE EffectIInv'
<1>0. SoundTypeOK /\ FlushInv /\ CommandInv /\ EndingInv /\ VoiceInv /\ todo = << >>
  BY DEF EffectIInv, FlushCommand, Idle
<1>a. Len(<< >>) = 0
  BY EmptySeq
<1>b. /\ ~ Pending("Stop") /\ ~ Pending("Start") /\ Planned = player_state
  BY <1>0, <1>a DEF Pending, Planned
<1>1. /\ m_last_command' = "none"
      /\ UNCHANGED <<effect_state, player_state, m_voice, voice, ending>>
      /\ excused' \in BOOLEAN
      /\ excused => excused' \/ m_last_command \in {"play", "stop"}
  BY <1>0 DEF FlushCommand, SoundTypeOK
<1>2. excused' => excused
  BY <1>0 DEF FlushCommand, SoundTypeOK
<1>4. SoundTypeOK' /\ FlushInv'
  <2>1. SoundTypeOK'
    BY <1>0, <1>1, FlushLeaves DEF SoundTypeOK
  <2>2. FlushInv'
    BY <1>0, <1>1, FlushLeaves DEF FlushInv
  <2> QED BY <2>1, <2>2
<1>5. CommandInv'
  <2>1. Planned' \in {effect_state, "stopped"}
    <3>1. CASE todo'[1] = "read"
      <4>1. Planned' = player_state
        BY <1>0, <1>1, <3>1 DEF Planned, PlayState
      <4>2. \/ m_last_command = "none"
            \/ m_last_command = "pause" /\ player_state # "playing"
            \/ m_last_command = "resume" /\ player_state # "paused"
        BY <1>0, <3>1, FlushLeaves DEF StateOf
      <4> QED BY <1>0, <1>b, <4>1, <4>2 DEF CommandInv, SoundTypeOK, PlayState
    <3>2. CASE todo'[1] = StateOf(m_last_command) /\ m_last_command # "none"
      <4>1. Planned' = StateOf(m_last_command)
        BY <1>0, <3>2, FlushLeaves DEF Planned, StateOf, PlayState
      <4> QED BY <1>0, <3>2, <4>1 DEF CommandInv, StateOf, SoundTypeOK
    <3> QED BY <1>0, <3>1, <3>2, FlushLeaves
  <2> QED BY <1>1, <2>1 DEF CommandInv
<1>6. EndingInv'
  <2>1. todo'[1] \notin VoiceCall /\ (Pending("Start")' => todo'[1] \in PlayState)
    BY <1>0, FlushLeaves DEF VoiceCall, PlayState
  <2> QED BY <1>0, <1>1, <2>1 DEF EndingInv
<1>7. VoiceInv'
  <2>1. CASE m_last_command \in {"play", "stop"} /\ m_voice
    BY <1>0, <2>1, FlushLeaves DEF VoiceInv
  <2>2. CASE ~ m_voice
    <3>1. ~ voice'.running /\ ~ voice'.queued
      BY <1>0, <1>1, <2>2 DEF FlushInv, Silent
    <3> QED BY <3>1 DEF VoiceInv
  <2>3. CASE m_last_command \notin {"play", "stop"}
    <3>1. excused' = excused
      BY <1>0, <1>1, <1>2, <2>3 DEF SoundTypeOK
    <3>2. todo' # << >>
      BY <1>0, FlushLeaves
    <3> QED BY <1>0, <1>1, <1>b, <3>1, <3>2 DEF VoiceInv
  <2> QED BY <1>0, <2>1, <2>2, <2>3 DEF SoundTypeOK
<1> QED BY <1>4, <1>5, <1>6, <1>7 DEF EffectIInv

\* What a step of the program does to what is left of it.
LEMMA StepLeaves ==
  ASSUME SoundTypeOK, FlushInv, todo # << >>, todo' = Tail(todo)
  PROVE  /\ todo' \in Seq(VoiceCall \cup PlayState \cup {"read"})
         /\ Len(todo) \in Nat \ {0} /\ Head(todo) = todo[1]
         /\ Len(todo') = Len(todo) - 1
         /\ 1 \in 1 .. Len(todo)
         /\ \A i \in 1 .. Len(todo') : i + 1 \in 1 .. Len(todo) /\ todo'[i] = todo[i + 1]
         /\ \A c : Pending(c)' => Pending(c)
         /\ \A c : Pending(c) /\ c # todo[1] => Pending(c)'
         /\ todo' # << >> => Len(todo') > 0 /\ todo'[1] \notin PlayState
                             /\ todo'[Len(todo')] = "read"
         /\ todo[1] # "read" => todo' # << >>
         /\ \A i \in 1 .. Len(todo') : todo'[i] = "read" => i = Len(todo')
         /\ \A i \in 2 .. Len(todo') : todo'[i] \notin PlayState
         /\ \A i \in 1 .. Len(todo') :
              todo'[i] = "SubmitSourceBuffer" => \E j \in i + 1 .. Len(todo') : todo'[j] = "Start"
<1> DEFINE S == VoiceCall \cup PlayState \cup {"read"}
<1>1. todo \in Seq(S) /\ Len(todo) \in Nat \ {0}
  BY EmptySeq DEF SoundTypeOK
<1>2. /\ todo' \in Seq(S) /\ Len(todo') = Len(todo) - 1
      /\ \A i \in 1 .. Len(todo') : todo'[i] = todo[i + 1]
  <2> HIDE DEF S
  <2> QED BY <1>1, HeadTailProperties
<1>3. Head(todo) = todo[1]
  BY <1>1
<1>4. \A i \in 1 .. Len(todo') : i + 1 \in 2 .. Len(todo) /\ i + 1 \in 1 .. Len(todo)
  BY <1>1, <1>2
<1>5. \A c : Pending(c)' => Pending(c)
  BY <1>2, <1>4 DEF Pending
<1>6. \A c : Pending(c) /\ c # todo[1] => Pending(c)'
  <2> SUFFICES ASSUME NEW c, NEW i \in 1 .. Len(todo), todo[i] = c, c # todo[1]
               PROVE  \E j \in 1 .. Len(todo') : todo'[j] = c
    BY DEF Pending
  <2>1. i - 1 \in 1 .. Len(todo') /\ (i - 1) + 1 = i
    BY <1>1, <1>2
  <2> QED BY <1>2, <2>1
<1>7. todo' # << >> => Len(todo') > 0
  BY <1>2, EmptySeq
<1>8. Len(todo') > 0 => todo'[1] \notin PlayState /\ todo'[Len(todo')] = "read"
  <2> SUFFICES ASSUME Len(todo') > 0 PROVE todo'[1] \notin PlayState /\ todo'[Len(todo')] = "read"
    OBVIOUS
  <2>1. /\ 1 \in 1 .. Len(todo') /\ Len(todo') \in 1 .. Len(todo') /\ Len(todo') + 1 = Len(todo)
    BY <1>1, <1>2
  <2> QED BY <1>1, <1>2, <1>4, <2>1 DEF FlushInv
<1>9. todo[1] # "read" => todo' # << >>
  <2> SUFFICES ASSUME todo[1] # "read" PROVE Len(todo') # 0
    BY EmptySeq
  <2>1. todo[Len(todo)] = "read"
    BY DEF FlushInv
  <2>2. Len(todo) # 1
    BY <2>1
  <2> QED BY <1>1, <1>2, <2>2
<1>10. \A i \in 1 .. Len(todo') : todo'[i] = "read" => i = Len(todo')
  <2> SUFFICES ASSUME NEW i \in 1 .. Len(todo'), todo'[i] = "read" PROVE i = Len(todo')
    OBVIOUS
  <2>1. i + 1 = Len(todo)
    BY <1>2, <1>4 DEF FlushInv
  <2>2. i \in Nat /\ Len(todo) \in Nat /\ Len(todo') = Len(todo) - 1
    BY <1>1, <1>2
  <2> QED BY <2>1, <2>2
<1>11. \A i \in 2 .. Len(todo') : todo'[i] \notin PlayState
  <2> SUFFICES ASSUME NEW i \in 2 .. Len(todo') PROVE todo'[i] \notin PlayState
    OBVIOUS
  <2>1. i \in 1 .. Len(todo')
    BY <1>1, <1>2
  <2> QED BY <1>2, <1>4, <2>1 DEF FlushInv
<1>12. \A i \in 1 .. Len(todo') :
         todo'[i] = "SubmitSourceBuffer" => \E j \in i + 1 .. Len(todo') : todo'[j] = "Start"
  <2> SUFFICES ASSUME NEW i \in 1 .. Len(todo'), todo'[i] = "SubmitSourceBuffer"
               PROVE  \E j \in i + 1 .. Len(todo') : todo'[j] = "Start"
    OBVIOUS
  <2>1. PICK j \in (i + 1) + 1 .. Len(todo) : todo[j] = "Start"
    BY <1>2, <1>4 DEF FlushInv
  <2>2. j - 1 \in i + 1 .. Len(todo') /\ j - 1 \in 1 .. Len(todo') /\ (j - 1) + 1 = j
    BY <1>1, <1>2
  <2> QED BY <1>2, <2>1, <2>2
<1>13. 1 \in 1 .. Len(todo)
  BY <1>1
<1> QED BY <1>1, <1>2, <1>3, <1>4, <1>5, <1>6, <1>7, <1>8, <1>9, <1>10, <1>11, <1>12, <1>13

LEMMA SetStateKeeps == ASSUME EffectIInv, SetState PROVE EffectIInv'
<1>0. SoundTypeOK /\ FlushInv /\ CommandInv /\ EndingInv /\ VoiceInv /\ todo # << >>
  BY DEF EffectIInv, SetState, Idle
<1>1. todo' = Tail(todo)
  BY DEF SetState
<1>2. /\ todo[1] \in PlayState /\ player_state' = todo[1]
      /\ ending' = (IF ending = "no" THEN "no" ELSE "overtaken")
      /\ UNCHANGED <<m_last_command, effect_state, m_voice, voice, excused>>
      /\ m_last_command = "none"
  BY <1>0, <1>1, StepLeaves DEF SetState, FlushInv
<1>3. todo[1] \notin VoiceCall \cup {"read"}
  BY <1>2 DEF PlayState, VoiceCall
<1>4. todo' # << >> /\ todo'[1] \notin PlayState
  BY <1>0, <1>1, <1>3, StepLeaves
<1>5. \A c \in VoiceCall : Pending(c)' <=> Pending(c)
  BY <1>0, <1>1, <1>3, StepLeaves
<1>5a. Pending("Stop")' <=> Pending("Stop")
  BY <1>5 DEF VoiceCall
<1>5b. Pending("Start")' <=> Pending("Start")
  BY <1>5 DEF VoiceCall
<1>6. SoundTypeOK'
  BY <1>0, <1>1, <1>2, StepLeaves DEF SoundTypeOK
<1>7. FlushInv'
  <2>1. ~ m_voice => \A i \in 1 .. Len(todo') : todo'[i] \notin VoiceCall
    <3> SUFFICES ASSUME ~ m_voice, NEW i \in 1 .. Len(todo') PROVE todo'[i] \notin VoiceCall
      OBVIOUS
    <3>1. i + 1 \in 1 .. Len(todo) /\ todo'[i] = todo[i + 1]
      BY <1>0, <1>1, StepLeaves
    <3> QED BY <1>0, <3>1 DEF FlushInv
  <2>2. todo'[1] \notin {"paused", "stopped"}
    BY <1>4 DEF PlayState
  <2> QED BY <1>0, <1>1, <1>2, <1>4, <1>5b, <2>1, <2>2, StepLeaves DEF FlushInv
<1>8. CommandInv'
  BY <1>0, <1>2, <1>4 DEF CommandInv, Planned
<1>9. EndingInv'
  <2>1. ending' # "fresh"
    BY <1>2
  <2>2. Pending("Start")' => player_state' = "playing"
    BY <1>0, <1>2, <1>5b DEF FlushInv, PlayState
  <2> QED BY <2>1, <2>2 DEF EndingInv
<1>10. VoiceInv'
  <2> SUFFICES ASSUME ~ Pending("Stop") PROVE VoiceInv'
    BY <1>5a DEF VoiceInv
  <2>1. todo[1] = "playing" \/ (~ voice.running /\ ~ m_voice)
    BY <1>0, <1>2 DEF FlushInv, PlayState, Silent, SoundTypeOK
  <2>2. CASE todo[1] = "playing"
    BY <1>2, <1>4, <2>2 DEF VoiceInv
  <2>3. CASE ~ voice.running
    BY <1>2, <2>3 DEF VoiceInv
  <2> QED BY <2>1, <2>2, <2>3
<1> QED BY <1>6, <1>7, <1>8, <1>9, <1>10 DEF EffectIInv

LEMMA CallVoiceKeeps == ASSUME EffectIInv, CallVoice PROVE EffectIInv'
<1>0. SoundTypeOK /\ FlushInv /\ CommandInv /\ EndingInv /\ VoiceInv /\ todo # << >>
  BY DEF EffectIInv, CallVoice, Idle
<1>1. todo' = Tail(todo)
  BY DEF CallVoice
<1>2. /\ todo[1] \in VoiceCall /\ voice' = After(todo[1])
      /\ UNCHANGED <<m_last_command, effect_state, player_state, m_voice, ending, excused>>
      /\ m_last_command = "none"
  BY <1>0, <1>1, StepLeaves DEF CallVoice, FlushInv, effectVars, playerVars
<1>3. todo[1] \notin PlayState \cup {"read"} /\ todo' # << >> /\ todo'[1] \notin PlayState
  <2>1. todo[1] \notin PlayState \cup {"read"}
    BY <1>2 DEF PlayState, VoiceCall
  <2> QED BY <1>0, <1>1, <2>1, StepLeaves
<1>4. m_voice
  <2>1. 1 \in 1 .. Len(todo)
    BY <1>0, <1>1, StepLeaves
  <2> QED BY <1>0, <1>2, <2>1 DEF FlushInv
<1>5. Pending(todo[1])
  <2>1. 1 \in 1 .. Len(todo)
    BY <1>0, <1>1, StepLeaves
  <2> QED BY <2>1 DEF Pending
<1>6. \A c : Pending(c)' => Pending(c)
  BY <1>0, <1>1, StepLeaves
<1>7. \A c : Pending(c) /\ c # todo[1] => Pending(c)'
  BY <1>0, <1>1, StepLeaves
<1>8. /\ voice' \in [running : BOOLEAN, queued : BOOLEAN]
      /\ todo[1] = "Stop" => ~ voice'.running
      /\ todo[1] = "Start" => voice'.queued = voice.queued
      /\ todo[1] \in {"FlushSourceBuffers", "SubmitSourceBuffer"} => voice'.running = voice.running
      /\ todo[1] = "FlushSourceBuffers" => ~ voice'.queued
      /\ todo[1] # "SubmitSourceBuffer" => (voice'.queued => voice.queued)
  BY <1>0, <1>2 DEF SoundTypeOK, After, VoiceCall
<1>9. SoundTypeOK'
  BY <1>0, <1>1, <1>2, <1>8, StepLeaves DEF SoundTypeOK
<1>10. FlushInv'
  <2>1. todo'[1] \notin {"paused", "stopped"}
    BY <1>3 DEF PlayState
  <2> QED BY <1>0, <1>1, <1>2, <1>3, <1>4, <2>1, StepLeaves DEF FlushInv
<1>11. CommandInv'
  BY <1>0, <1>2, <1>3 DEF CommandInv, Planned
<1>12. EndingInv'
  <2>1. ending # "fresh"
    BY <1>0, <1>2 DEF EndingInv
  <2>2. Pending("Start")' => player_state = "playing" \/ (player_state = "stopped" /\ excused)
    BY <1>0, <1>3, <1>6 DEF EndingInv
  <2> QED BY <1>2, <2>1, <2>2 DEF EndingInv
<1>13. VoiceInv'
  <2> SUFFICES ASSUME ~ Pending("Stop")' PROVE VoiceInv'
    BY DEF VoiceInv
  <2>1. CASE todo[1] = "Stop"
    BY <1>8, <2>1 DEF VoiceInv
  <2>2. CASE todo[1] \in {"Start", "SubmitSourceBuffer"}
    <3>1. Pending("Start")
      <4>1. CASE todo[1] = "Start"
        BY <1>5, <4>1
      <4>2. CASE todo[1] = "SubmitSourceBuffer"
        <5>1. 1 \in 1 .. Len(todo) /\ Len(todo) \in Nat
          BY <1>0, <1>1, StepLeaves
        <5>2. PICK j \in 1 + 1 .. Len(todo) : todo[j] = "Start"
          BY <1>0, <4>2, <5>1 DEF FlushInv
        <5> QED BY <5>1, <5>2 DEF Pending
      <4> QED BY <2>2, <4>1, <4>2
    <3>2. player_state = "playing" \/ (player_state = "stopped" /\ excused)
      BY <1>0, <1>3, <3>1 DEF EndingInv
    <3> QED BY <1>2, <1>3, <3>2 DEF VoiceInv
  <2>3. CASE todo[1] = "FlushSourceBuffers"
    <3>1. ~ Pending("Stop")
      BY <1>7, <2>3
    <3> QED BY <1>0, <1>2, <1>3, <1>8, <2>3, <3>1 DEF VoiceInv
  <2> QED BY <1>2, <2>1, <2>2, <2>3 DEF VoiceCall
<1> QED BY <1>9, <1>10, <1>11, <1>12, <1>13 DEF EffectIInv

\* A failed call leaves the reading only.
LEMMA CallFailsKeeps == ASSUME EffectIInv, CallFails PROVE EffectIInv'
<1>0. SoundTypeOK /\ FlushInv /\ CommandInv /\ EndingInv /\ VoiceInv /\ todo # << >>
  BY DEF EffectIInv, CallFails, Idle
<1>1. /\ UNCHANGED <<m_last_command, effect_state, player_state, m_voice, voice, ending>>
      /\ todo' = <<"read">> /\ excused' /\ CallsFail /\ m_last_command = "none"
      /\ Head(todo) \in VoiceCall /\ Head(todo) = todo[1]
  BY <1>0 DEF CallFails, effectVars, playerVars, FlushInv, SoundTypeOK
<1>2. /\ Len(todo') = 1 /\ todo'[1] = "read" /\ todo' # << >>
      /\ todo' \in Seq(VoiceCall \cup PlayState \cup {"read"})
  BY <1>1
<1>3. \A i \in 1 .. Len(todo') : todo'[i] = "read" /\ i = Len(todo') /\ i \notin 2 .. Len(todo')
  BY <1>2
<1>4. "read" \notin PlayState \cup VoiceCall \cup {"paused", "stopped", "Start", "Stop", "SubmitSourceBuffer"}
  BY DEF PlayState, VoiceCall
<1>5. SoundTypeOK'
  BY <1>0, <1>1, <1>2 DEF SoundTypeOK
<1>6. FlushInv'
  <2>1. \A i \in 2 .. Len(todo') : i \in 1 .. Len(todo')
    BY <1>2
  <2> QED BY <1>0, <1>1, <1>2, <1>3, <1>4, <2>1 DEF FlushInv, Pending
<1>7. CommandInv'
  <2>1. Planned = player_state /\ Planned' = player_state
    BY <1>1, <1>2, <1>4 DEF Planned, PlayState, VoiceCall
  <2> QED BY <1>0, <1>1, <2>1 DEF CommandInv
<1>8. EndingInv'
  BY <1>0, <1>1, <1>2, <1>3, <1>4 DEF EndingInv, Pending
<1>9. VoiceInv'
  BY <1>1 DEF VoiceInv
<1> QED BY <1>5, <1>6, <1>7, <1>8, <1>9 DEF EffectIInv

LEMMA ReadStateKeeps == ASSUME EffectIInv, ReadState PROVE EffectIInv'
<1>0. SoundTypeOK /\ FlushInv /\ CommandInv /\ EndingInv /\ VoiceInv /\ todo # << >>
  BY DEF EffectIInv, ReadState, Idle
<1>1. /\ UNCHANGED <<m_last_command, player_state, m_voice, voice, ending, excused>>
      /\ effect_state' = (IF player_state = "stopped" THEN "stopped" ELSE effect_state)
      /\ todo' = << >> /\ m_last_command = "none"
      /\ todo[1] = "read"
  BY <1>0 DEF ReadState, playerVars, FlushInv, SoundTypeOK
<1>2. Len(todo') = 0 /\ todo' \in Seq(VoiceCall \cup PlayState \cup {"read"})
  BY <1>1, EmptySeq
<1>3. Len(todo) = 1
  <2>1. Len(todo) \in Nat \ {0} /\ 1 \in 1 .. Len(todo)
    BY <1>0, EmptySeq DEF SoundTypeOK
  <2> QED BY <1>0, <1>1, <2>1 DEF FlushInv
<1>4. ~ Pending("Stop") /\ Planned = player_state /\ Planned' = player_state
  BY <1>1, <1>3 DEF Pending, Planned, PlayState
<1>5. SoundTypeOK'
  BY <1>0, <1>1, <1>2 DEF SoundTypeOK, PlayState
<1>6. FlushInv'
  BY <1>0, <1>1, <1>2 DEF FlushInv, Pending
<1>7. CommandInv'
  BY <1>0, <1>1, <1>4 DEF CommandInv
<1>8. EndingInv'
  BY <1>0, <1>1, <1>2 DEF EndingInv, Pending
<1>9. VoiceInv'
  <2>1. effect_state' = "paused" => player_state = "paused"
    BY <1>0, <1>1, <1>4 DEF CommandInv
  <2> QED BY <1>0, <1>1, <1>4, <2>1 DEF VoiceInv
<1> QED BY <1>5, <1>6, <1>7, <1>8, <1>9 DEF EffectIInv

LEMMA RememberKeeps ==
  ASSUME EffectIInv, Play \/ Resume \/ Pause \/ Stop
  PROVE  EffectIInv'
<1>0. SoundTypeOK /\ FlushInv /\ CommandInv /\ EndingInv /\ VoiceInv /\ todo = << >>
  BY DEF EffectIInv, Play, Resume, Pause, Stop, Remember, Idle
<1>1. /\ UNCHANGED <<player_state, m_voice, todo, voice, ending, excused>>
      /\ m_last_command' \in {"play", "pause", "resume", "stop"}
      /\ m_last_command' \in {"play", "resume"} => effect_state' = "playing"
      /\ m_last_command' = "pause" => effect_state' = "paused"
      /\ m_last_command' = "stop" => effect_state' = "stopped"
  BY DEF Play, Resume, Pause, Stop, Remember
<1>2. SoundTypeOK'
  BY <1>0, <1>1 DEF SoundTypeOK, PlayState
<1>3. FlushInv' /\ EndingInv'
  BY <1>0, <1>1 DEF FlushInv, EndingInv, Pending
<1>4. CommandInv'
  BY <1>1 DEF CommandInv
<1>5. VoiceInv'
  BY <1>0, <1>1 DEF VoiceInv, Pending
<1> QED BY <1>2, <1>3, <1>4, <1>5 DEF EffectIInv

\* The thread of XAudio2.
LEMMA EndsKeep == ASSUME EffectIInv, BufferEnds \/ OnStreamEnd PROVE EffectIInv'
<1>0. SoundTypeOK /\ FlushInv /\ CommandInv /\ EndingInv /\ VoiceInv
  BY DEF EffectIInv
<1>h. todo # << >> => Head(todo) = todo[1]
  BY <1>0 DEF SoundTypeOK
<1>1. CASE BufferEnds
  <2>1. /\ UNCHANGED <<m_last_command, effect_state, player_state, m_voice, todo, excused>>
        /\ voice' \in [running : BOOLEAN, queued : BOOLEAN]
        /\ ~ voice'.queued /\ voice'.running = voice.running /\ m_voice
    BY <1>0, <1>1 DEF BufferEnds, effectVars, playerVars, SoundTypeOK
  <2>2. /\ ending' \in {"fresh", "overtaken"}
        /\ todo # << >> /\ todo[1] \in VoiceCall => ending' = "overtaken"
    BY <1>1, <1>h DEF BufferEnds, Idle
  <2>3. SoundTypeOK'
    BY <1>0, <2>1, <2>2 DEF SoundTypeOK
  <2>4. FlushInv'
    BY <1>0, <2>1 DEF FlushInv, Pending
  <2>5. CommandInv'
    BY <1>0, <2>1 DEF CommandInv, Planned
  <2>6. EndingInv'
    BY <1>0, <2>1, <2>2 DEF EndingInv, Pending
  <2>7. VoiceInv'
    BY <1>0, <2>1 DEF VoiceInv, Pending
  <2> QED BY <2>3, <2>4, <2>5, <2>6, <2>7 DEF EffectIInv
<1>2. CASE OnStreamEnd
  <2>1. /\ UNCHANGED <<m_last_command, effect_state, m_voice, todo, voice>>
        /\ player_state' = "stopped" /\ ending' = "no"
    BY <1>2 DEF OnStreamEnd, effectVars
  <2>2. /\ excused' \in BOOLEAN /\ (excused => excused')
        /\ ending = "overtaken" => excused'
        /\ ending \in {"fresh", "overtaken"}
    BY <1>0, <1>2 DEF OnStreamEnd, SoundTypeOK
  <2>3. SoundTypeOK'
    BY <1>0, <2>1, <2>2 DEF SoundTypeOK, PlayState
  <2>4. FlushInv'
    BY <1>0, <2>1 DEF FlushInv, Pending
  <2>5. CommandInv'
    BY <1>0, <2>1 DEF CommandInv, Planned
  <2>6. EndingInv'
    <3>1. Pending("Start") /\ todo[1] \notin PlayState => excused'
      <4> SUFFICES ASSUME Pending("Start"), todo[1] \notin PlayState PROVE excused'
        OBVIOUS
      <4>1. todo # << >> /\ 1 \in 1 .. Len(todo)
        <5>1. PICK i \in 1 .. Len(todo) : todo[i] = "Start"
          BY DEF Pending
        <5>2. Len(todo) \in Nat
          BY <1>0, LenProperties DEF SoundTypeOK
        <5> QED BY <5>1, <5>2, EmptySeq
      <4>2. todo[1] # "read"
        <5>1. PICK i \in 1 .. Len(todo) : todo[i] = "Start"
          BY DEF Pending
        <5>2. Len(todo) \in Nat
          BY <1>0, LenProperties DEF SoundTypeOK
        <5>3. todo[1] = "read" => Len(todo) = 1
          BY <1>0, <4>1 DEF FlushInv
        <5> QED BY <5>1, <5>2, <5>3
      <4>3. todo[1] \in VoiceCall
        BY <1>0, <4>1, <4>2, ElementOfSeq DEF SoundTypeOK
      <4> QED BY <1>0, <2>2, <4>1, <4>3 DEF EndingInv
    <3>2. Pending("Start")' <=> Pending("Start")
      BY <2>1 DEF Pending
    <3> QED BY <1>0, <2>1, <3>1, <3>2 DEF EndingInv
  <2>7. VoiceInv'
    <3>1. ending = "fresh" => ~ voice.queued
      BY <1>0 DEF EndingInv
    <3>2. Pending("Stop")' <=> Pending("Stop")
      BY <2>1 DEF Pending
    <3> QED BY <1>0, <2>1, <2>2, <3>1, <3>2 DEF VoiceInv
  <2> QED BY <2>3, <2>4, <2>5, <2>6, <2>7 DEF EffectIInv
<1> QED BY <1>1, <1>2

\* The events of the audio engine.
LEMMA EventsKeep ==
  ASSUME EffectIInv, onAudioEngineDestroy \/ onAudioEngineCreate
  PROVE  EffectIInv'
<1>0. SoundTypeOK /\ FlushInv /\ CommandInv /\ EndingInv /\ VoiceInv
  BY DEF EffectIInv
<1>1. /\ UNCHANGED <<m_last_command, effect_state, player_state, todo, ending, excused>>
      /\ m_voice' \in BOOLEAN /\ voice' = Silent /\ todo = << >>
  BY <1>0 DEF onAudioEngineDestroy, onAudioEngineCreate, effectVars, Idle, FlushInv
<1>2. voice' \in [running : BOOLEAN, queued : BOOLEAN] /\ ~ voice'.running /\ ~ voice'.queued
  BY <1>1 DEF Silent
<1>3. Len(todo) = 0
  BY <1>1, EmptySeq
<1>4. SoundTypeOK'
  BY <1>0, <1>1, <1>2 DEF SoundTypeOK
<1>5. FlushInv'
  BY <1>0, <1>1, <1>3 DEF FlushInv, Pending
<1>6. CommandInv'
  BY <1>0, <1>1 DEF CommandInv, Planned
<1>7. EndingInv'
  BY <1>0, <1>1, <1>2, <1>3 DEF EndingInv, Pending
<1>8. VoiceInv'
  BY <1>2 DEF VoiceInv
<1> QED BY <1>4, <1>5, <1>6, <1>7, <1>8 DEF EffectIInv

LEMMA EffectInit == SoundInit => EffectIInv
<1> SUFFICES ASSUME SoundInit PROVE EffectIInv
  OBVIOUS
<1>1. Len(todo) = 0 /\ todo \in Seq(VoiceCall \cup PlayState \cup {"read"})
  BY EmptySeq DEF SoundInit
<1>2. SoundTypeOK
  BY <1>1 DEF SoundInit, SoundTypeOK, PlayState, Silent
<1>3. FlushInv /\ CommandInv /\ EndingInv /\ VoiceInv
  BY <1>1 DEF SoundInit, FlushInv, CommandInv, EndingInv, VoiceInv, Pending, Planned, Silent
<1> QED BY <1>2, <1>3 DEF EffectIInv

LEMMA EffectStep == EffectIInv /\ [SoundNext]_soundVars => EffectIInv'
<1> SUFFICES ASSUME EffectIInv, [SoundNext]_soundVars PROVE EffectIInv'
  OBVIOUS
<1>1. CASE UNCHANGED soundVars
  BY <1>1 DEF soundVars, EffectIInv, SoundTypeOK, FlushInv, CommandInv, EndingInv, VoiceInv,
              Pending, Planned
<1> QED BY <1>1, RememberKeeps, FlushStarts, SetStateKeeps, CallVoiceKeeps, CallFailsKeeps,
           ReadStateKeeps, EndsKeep, EventsKeep DEF SoundNext

LEMMA EffectSafe == EffectIInv => EffectInv
<1> SUFFICES ASSUME EffectIInv PROVE EffectInv
  OBVIOUS
<1>0. SoundTypeOK /\ CommandInv /\ VoiceInv
  BY DEF EffectIInv
<1>1. Idle => ~ Pending("Stop") /\ Planned = player_state
  BY EmptySeq DEF Idle, Pending, Planned
<1>2. EffectFollowsPlayer
  BY <1>0, <1>1 DEF EffectFollowsPlayer, CommandInv
<1>3. PausedIsSilent
  BY <1>0, <1>1 DEF PausedIsSilent, VoiceInv, Idle
<1>4. AudibleIsPlaying
  BY <1>0, <1>1 DEF AudibleIsPlaying, VoiceInv
<1> QED BY <1>0, <1>2, <1>3, <1>4 DEF EffectInv

------------------------------------------------------------------------------
(* The audio engine, for any number of players.                            *)

\* Nothing exists without IXAudio2, and no voice is left once the players have
\* been told.
ClosingInv ==
  /\ ~ m_endpoint => m_mixing_channels = {} /\ closing = "no"
  /\ closing = "dispatched" => m_voices = {}

AudioIInv == AudioInv /\ ClosingInv

\* Erasing keeps the entries that are not erased, each where it comes.
LEMMA ErasedList ==
  ASSUME NEW S, NEW s \in Seq(S), NEW X
  PROVE  LET C == Cardinality(Kept(s, X)) IN
         \E f \in Bijection(1 .. C, Kept(s, X)) :
           C \in Nat /\ Erased(s, X) = [n \in 1 .. C |-> s[f[n]]]
<1> DEFINE K == Kept(s, X)
           C == Cardinality(K)
           P(i) == Place(s, X, i)
           Upto(i) == {j \in K : j <= i}
           m == Len(s)
<1>0. \A i : P(i) = Cardinality(Upto(i))
  BY DEF Place
<1>1. K \subseteq 1 .. m /\ m \in Nat
  BY LenProperties DEF Kept
<1> HIDE DEF K, m, P
<1>2. IsFiniteSet(K) /\ Cardinality(K) \in Nat
  <2>1. IsFiniteSet(1 .. m)
    BY <1>1, FS_Interval
  <2>2. IsFiniteSet(K)
    BY <1>1, <2>1, FS_Subset
  <2> QED BY <2>2, FS_CardinalityType
<1>3. \A i \in K : IsFiniteSet(Upto(i)) /\ Cardinality(Upto(i)) \in 1 .. C
  <2> SUFFICES ASSUME NEW i \in K
               PROVE  IsFiniteSet(Upto(i)) /\ Cardinality(Upto(i)) \in 1 .. C
    OBVIOUS
  <2>1. Upto(i) \in SUBSET K /\ i \in Upto(i)
    BY <1>1
  <2> HIDE DEF Upto
  <2>2. IsFiniteSet(Upto(i)) /\ Cardinality(Upto(i)) <= C /\ Cardinality(Upto(i)) \in Nat
    BY <1>2, <2>1, FS_Subset, FS_CardinalityType
  <2>3. Cardinality(Upto(i)) # 0
    BY <2>1, <2>2, FS_EmptySet
  <2> QED BY <1>2, <2>2, <2>3
<1>4. \A i, j \in K : P(i) = P(j) => i = j
  <2>1. ASSUME NEW i \in K, NEW j \in K, i < j PROVE P(i) # P(j)
    <3>1. Upto(i) \in SUBSET Upto(j) /\ j \in Upto(j) /\ j \notin Upto(i)
      <4>1. i \in Int /\ j \in Int /\ \A k \in K : k \in Int
        BY <1>1
      <4>2. \A k \in K : k <= i => k <= j
        BY <2>1, <4>1
      <4>3. j <= j /\ ~ (j <= i)
        BY <2>1, <4>1
      <4> QED BY <4>2, <4>3
    <3>2. P(i) = Cardinality(Upto(i)) /\ P(j) = Cardinality(Upto(j))
      BY <1>0
    <3> HIDE DEF Upto
    <3> QED BY <1>3, <3>1, <3>2, FS_Subset
  <2>2. \A i, j \in K : i < j \/ j < i \/ i = j
    BY <1>1
  <2> QED BY <2>1, <2>2
<1> DEFINE g == [i \in K |-> P(i)]
<1>5. g \in Injection(K, 1 .. C)
  BY <1>0, <1>3, <1>4 DEF Injection, IsInjective
<1>6. g \in Surjection(K, 1 .. C)
  <2>1. IsFiniteSet(1 .. C) /\ Cardinality(1 .. C) = C
    BY <1>2, FS_Interval
  <2> HIDE DEF g
  <2> QED BY <1>2, <1>5, <2>1, FS_Injection
<1> DEFINE f == [n \in 1 .. C |-> CHOOSE i \in K : P(i) = n]
<1>7. \A n \in 1 .. C : f[n] \in K /\ P(f[n]) = n
  <2> SUFFICES ASSUME NEW n \in 1 .. C PROVE f[n] \in K /\ P(f[n]) = n
    OBVIOUS
  <2>1. \E i \in K : P(i) = n
    BY <1>6 DEF Surjection
  <2> QED BY <2>1
<1>8. f \in Bijection(1 .. C, K)
  <2>1. f \in [1 .. C -> K]
    BY <1>7
  <2>2. \A n, k \in 1 .. C : f[n] = f[k] => n = k
    BY <1>7
  <2>3. \A i \in K : \E n \in 1 .. C : f[n] = i
    <3> SUFFICES ASSUME NEW i \in K PROVE \E n \in 1 .. C : f[n] = i
      OBVIOUS
    <3>1. P(i) \in 1 .. C
      BY <1>0, <1>3
    <3> QED BY <1>4, <1>7, <3>1
  <2> HIDE DEF f
  <2> QED BY <2>1, <2>2, <2>3 DEF Bijection, Injection, Surjection, IsInjective
<1>9. Erased(s, X) = [n \in 1 .. C |-> s[f[n]]]
  BY DEF Erased, P, K
<1> QED BY <1>2, <1>8, <1>9 DEF K

\* Erasing keeps what is not erased, and a list without doubles has none after.
LEMMA ErasedKeeps ==
  ASSUME NEW S, NEW s \in Seq(S), NEW X
  PROVE  LET e == Erased(s, X) IN
         /\ e \in Seq(S)
         /\ \A n \in DOMAIN e : e[n] \notin X /\ \E i \in DOMAIN s : e[n] = s[i]
         /\ \A i \in DOMAIN s : s[i] \notin X => \E n \in DOMAIN e : e[n] = s[i]
         /\ (\A i, j \in Kept(s, X) : s[i] = s[j] => i = j)
              => \A n, k \in DOMAIN e : e[n] = e[k] => n = k
<1> DEFINE e == Erased(s, X)
           K == Kept(s, X)
           C == Cardinality(K)
<1>1. PICK f \in Bijection(1 .. C, K) : C \in Nat /\ e = [n \in 1 .. C |-> s[f[n]]]
  BY ErasedList
<1>2. DOMAIN s = 1 .. Len(s) /\ \A i \in DOMAIN s : s[i] \in S
  BY LenProperties, ElementOfSeq
<1>3. K = {i \in DOMAIN s : s[i] \notin X}
  BY DEF Kept
<1> HIDE DEF C, K, e
<1>4. /\ \A n \in 1 .. C : f[n] \in K
      /\ \A n, k \in 1 .. C : f[n] = f[k] => n = k
      /\ \A i \in K : \E n \in 1 .. C : f[n] = i
  BY DEF Bijection, Injection, Surjection, IsInjective
<1>5. DOMAIN e = 1 .. C /\ \A n \in 1 .. C : e[n] = s[f[n]]
  BY <1>1
<1>6. e \in Seq(S)
  <2>1. e \in [1 .. C -> S]
    BY <1>1, <1>2, <1>3, <1>4
  <2> QED BY <1>1, <2>1, SeqDef
<1>7. \A n \in DOMAIN e : e[n] \notin X /\ \E i \in DOMAIN s : e[n] = s[i]
  BY <1>3, <1>4, <1>5
<1>8. \A i \in DOMAIN s : s[i] \notin X => \E n \in DOMAIN e : e[n] = s[i]
  BY <1>3, <1>4, <1>5
<1>9. (\A i, j \in K : s[i] = s[j] => i = j)
        => \A n, k \in DOMAIN e : e[n] = e[k] => n = k
  BY <1>4, <1>5
<1> QED BY <1>6, <1>7, <1>8, <1>9 DEF e, K

\* A rebuilt list tells the same players, each once.
LEMMA CompactedKeeps ==
  ASSUME AudioTypeOK, ListenersInv, m_listeners' = Compacted, UNCHANGED channel
  PROVE  ListenersInv' /\ m_listeners' \in Seq(Player \cup {Nobody})
<1> DEFINE S == Player \cup {Nobody}
           s == m_listeners
           e == m_listeners'
<1>1. s \in Seq(S) /\ e = Erased(s, {Nobody})
  BY DEF AudioTypeOK, Compacted
<1>2. \A i \in DOMAIN s : s[i] \in S
  BY <1>1, LenProperties, ElementOfSeq
<1> HIDE DEF s, e, S
<1>3. /\ e \in Seq(S)
      /\ \A n \in DOMAIN e : e[n] \notin {Nobody} /\ \E i \in DOMAIN s : e[n] = s[i]
      /\ \A i \in DOMAIN s : s[i] \notin {Nobody} => \E n \in DOMAIN e : e[n] = s[i]
      /\ (\A i, j \in Kept(s, {Nobody}) : s[i] = s[j] => i = j)
              => \A n, k \in DOMAIN e : e[n] = e[k] => n = k
  <2> DEFINE Y == {Nobody}
  <2> HIDE DEF Y
  <2>1. s \in Seq(S) /\ e = Erased(s, Y)
    BY <1>1 DEF Y
  <2>2. LET z == Erased(s, Y) IN
        /\ z \in Seq(S)
        /\ \A n \in DOMAIN z : z[n] \notin Y /\ \E i \in DOMAIN s : z[n] = s[i]
        /\ \A i \in DOMAIN s : s[i] \notin Y => \E n \in DOMAIN z : z[n] = s[i]
        /\ (\A i, j \in Kept(s, Y) : s[i] = s[j] => i = j)
             => \A n, k \in DOMAIN z : z[n] = z[k] => n = k
    BY <2>1, ErasedKeeps
  <2> QED BY <2>1, <2>2 DEF Y
<1>4. \A i, j \in Kept(s, {Nobody}) : s[i] = s[j] => i = j
  BY <1>2 DEF ListenersInv, Kept, s, S
<1>5. \A p \in Player : p # Nobody
  BY ListenerAssumption DEF Nobody
<1>6. Listed' = Listed
  BY <1>3, <1>5 DEF Listed, s, e
<1>7. \A n, k \in DOMAIN e : e[n] = e[k] => n = k
  BY <1>3, <1>4
<1> QED BY <1>3, <1>6, <1>7 DEF ListenersInv, Alive, s, e, S

LEMMA CreateKeeps == ASSUME AudioIInv, createFails \/ create PROVE AudioIInv'
<1>0. AudioTypeOK /\ ListenersInv /\ VoicesHaveChannels /\ NothingRefused /\ ClosingInv
      /\ ~ m_endpoint /\ m_voices = {}
  BY DEF AudioIInv, AudioInv, VoicesHaveChannels, createFails, create
<1>1. CASE createFails
  <2>1. /\ m_endpoint' = TRUE /\ m_mixing_channels' \in SUBSET Channel
        /\ UNCHANGED <<m_listeners, channel, m_voices, closing, refused>>
    <3>1. PICK i \in DOMAIN Stages : m_endpoint' = TRUE /\ m_mixing_channels' = Stages[i]
      BY <1>1 DEF createFails
    <3>2. DOMAIN Stages = 1 .. 4
      BY DEF Stages
    <3>3. Stages[1] = {} /\ Stages[2] = {"direct"} /\ Stages[3] = {"direct", "sound_effect"}
          /\ Stages[4] = Channel
      BY DEF Stages
    <3>4. Stages[i] \in SUBSET Channel
      BY <3>2, <3>3 DEF Channel
    <3> QED BY <1>1, <3>1, <3>4 DEF createFails
  <2>2. AudioTypeOK' /\ ListenersInv'
    BY <1>0, <2>1 DEF AudioTypeOK, ListenersInv, Listed, Alive
  <2> QED BY <1>0, <2>1, <2>2 DEF AudioIInv, AudioInv, VoicesHaveChannels, NothingRefused, ClosingInv
<1>2. CASE create
  <2>1. /\ m_endpoint' = TRUE /\ m_mixing_channels' = Channel /\ closing' = "no"
        /\ UNCHANGED <<channel, refused>> /\ m_listeners' = Compacted
        /\ m_voices' \in SUBSET Listed
    BY <1>0, <1>2 DEF create
  <2>2. ListenersInv' /\ m_listeners' \in Seq(Player \cup {Nobody})
    BY <1>0, <2>1, CompactedKeeps
  <2>3. Listed \subseteq Player /\ Listed = Alive
    BY <1>0 DEF Listed, ListenersInv
  <2>4. AudioTypeOK'
    BY <1>0, <2>1, <2>2, <2>3 DEF AudioTypeOK
  <2>5. VoicesHaveChannels'
    BY <1>0, <2>1, <2>3 DEF VoicesHaveChannels, Alive, AudioTypeOK, Channel
  <2> QED BY <1>0, <2>1, <2>2, <2>4, <2>5 DEF AudioIInv, AudioInv, NothingRefused, ClosingInv
<1> QED BY <1>1, <1>2

LEMMA CloseKeeps ==
  ASSUME AudioIInv, dispatchDestroy \/ closeMixingChannel \/ releaseEndpoint
  PROVE  AudioIInv'
<1>0. AudioTypeOK /\ ListenersInv /\ VoicesHaveChannels /\ NothingRefused /\ ClosingInv
  BY DEF AudioIInv, AudioInv
<1>1. CASE dispatchDestroy
  <2>1. /\ m_voices' = {} /\ m_listeners' = Compacted /\ closing' = "dispatched"
        /\ m_endpoint /\ UNCHANGED <<m_endpoint, m_mixing_channels, channel, refused>>
    BY <1>0, <1>1 DEF dispatchDestroy, Destroyed, VoicesHaveChannels, ListenersInv
  <2>2. ListenersInv' /\ m_listeners' \in Seq(Player \cup {Nobody})
    BY <1>0, <2>1, CompactedKeeps
  <2>3. AudioTypeOK'
    BY <1>0, <2>1, <2>2 DEF AudioTypeOK
  <2> QED BY <1>0, <2>1, <2>2, <2>3
      DEF AudioIInv, AudioInv, VoicesHaveChannels, NothingRefused, ClosingInv
<1>2. CASE closeMixingChannel
  <2>1. /\ m_mixing_channels # {} /\ m_mixing_channels' = m_mixing_channels \ {LastChannel}
        /\ m_voices = {} /\ refused' = (refused \/ Sends(LastChannel)) /\ m_endpoint
        /\ UNCHANGED <<m_endpoint, m_listeners, channel, m_voices, closing>>
    BY <1>0, <1>2 DEF closeMixingChannel, ClosingInv
  <2>2. \E c \in m_mixing_channels : c = "direct" => m_mixing_channels = {"direct"}
    BY <2>1
  <2>3. LastChannel = "direct" => m_mixing_channels = {"direct"}
    BY <2>2 DEF LastChannel
  <2>4. ~ Sends(LastChannel)
    BY <2>1, <2>3 DEF Sends
  <2>5. AudioTypeOK' /\ ListenersInv'
    BY <1>0, <2>1, <2>4 DEF AudioTypeOK, NothingRefused, ListenersInv, Listed, Alive
  <2> QED BY <1>0, <2>1, <2>4, <2>5
      DEF AudioIInv, AudioInv, VoicesHaveChannels, NothingRefused, ClosingInv
<1>3. CASE releaseEndpoint
  <2>1. /\ m_endpoint' = FALSE /\ closing' = "no" /\ m_mixing_channels = {} /\ m_voices = {}
        /\ UNCHANGED <<m_mixing_channels, m_listeners, channel, m_voices, refused>>
    BY <1>0, <1>3 DEF releaseEndpoint, ClosingInv
  <2>2. AudioTypeOK' /\ ListenersInv'
    BY <1>0, <2>1 DEF AudioTypeOK, ListenersInv, Listed, Alive
  <2> QED BY <1>0, <2>1, <2>2
      DEF AudioIInv, AudioInv, VoicesHaveChannels, NothingRefused, ClosingInv
<1> QED BY <1>1, <1>2, <1>3

\* The address of a new player may be that of one the list still has as null.
LEMMA CreatePlayerKeeps ==
  ASSUME AudioIInv, NEW p \in Player, NEW c \in Channel \ {"direct"}, createPlayer(p, c)
  PROVE  AudioIInv'
<1>0. AudioTypeOK /\ ListenersInv /\ VoicesHaveChannels /\ NothingRefused /\ ClosingInv
      /\ closing = "no" /\ p \notin Alive /\ p \notin Listed
  BY DEF AudioIInv, AudioInv, createPlayer, ListenersInv
<1>1. /\ m_listeners' = Append(m_listeners, p) /\ channel' = [channel EXCEPT ![p] = c]
      /\ UNCHANGED <<m_endpoint, m_mixing_channels, closing, refused>>
      /\ \/ c \in m_mixing_channels /\ m_voices' = m_voices \cup {p}
         \/ m_voices' = m_voices
  BY <1>0 DEF createPlayer, addEventListener
<1> DEFINE n == Len(m_listeners)
<1>2. /\ n \in Nat /\ m_listeners' \in Seq(Player \cup {Nobody}) /\ Len(m_listeners') = n + 1
      /\ \A i \in 1 .. n : m_listeners'[i] = m_listeners[i]
      /\ m_listeners'[n + 1] = p
  BY <1>0, <1>1, AppendProperties, LenProperties DEF AudioTypeOK
<1>3. DOMAIN m_listeners = 1 .. n /\ DOMAIN m_listeners' = 1 .. n + 1
  BY <1>0, <1>2, LenProperties DEF AudioTypeOK
<1>4. \A i \in 1 .. n + 1 : i \in 1 .. n \/ i = n + 1
  BY <1>2
<1>5. Listed' = Listed \cup {p}
  <2>1. ASSUME NEW q \in Player, NEW i \in 1 .. n, m_listeners[i] = q
        PROVE  \E j \in 1 .. n + 1 : m_listeners'[j] = q
    BY <1>2, <2>1
  <2>2. n + 1 \in 1 .. n + 1
    BY <1>2
  <2> HIDE DEF n
  <2> QED BY <1>2, <1>3, <1>4, <2>1, <2>2 DEF Listed
<1>6. Alive' = Alive \cup {p}
  BY <1>0, <1>1 DEF Alive, AudioTypeOK, Channel
<1>7. \A i \in 1 .. n : m_listeners[i] # p
  BY <1>0, <1>3 DEF Listed
<1>8. ListenersInv'
  <2>1. \A i, j \in 1 .. n + 1 :
          m_listeners'[i] = m_listeners'[j] /\ m_listeners'[i] # Nobody => i = j
    <3> HIDE DEF n
    <3> QED BY <1>0, <1>2, <1>3, <1>4, <1>7 DEF ListenersInv
  <2> QED BY <1>0, <1>3, <1>5, <1>6, <2>1 DEF ListenersInv
<1>9. AudioTypeOK'
  BY <1>0, <1>1, <1>2 DEF AudioTypeOK
<1>10. VoicesHaveChannels'
  <2>1. c \in m_mixing_channels => m_endpoint
    BY <1>0 DEF ClosingInv
  <2>2. channel'[p] = c /\ \A q \in Alive : channel'[q] = channel[q]
    BY <1>0, <1>1 DEF AudioTypeOK, Alive
  <2> QED BY <1>0, <1>1, <1>6, <2>1, <2>2 DEF VoicesHaveChannels
<1> QED BY <1>0, <1>1, <1>8, <1>9, <1>10 DEF AudioIInv, AudioInv, NothingRefused, ClosingInv

LEMMA DestroyPlayerKeeps ==
  ASSUME AudioIInv, NEW p \in Player, destroyPlayer(p)
  PROVE  AudioIInv'
<1>0. AudioTypeOK /\ ListenersInv /\ VoicesHaveChannels /\ NothingRefused /\ ClosingInv
      /\ p \in Alive /\ p # Nobody
  BY ListenerAssumption DEF AudioIInv, AudioInv, destroyPlayer, Nobody
<1>1. /\ m_listeners' = [i \in DOMAIN m_listeners |->
                           IF m_listeners[i] = p THEN Nobody ELSE m_listeners[i]]
      /\ m_voices' = m_voices \ {p} /\ channel' = [channel EXCEPT ![p] = "none"]
      /\ UNCHANGED <<m_endpoint, m_mixing_channels, closing, refused>>
  BY DEF destroyPlayer, removeEventListener
<1>2. m_listeners' \in Seq(Player \cup {Nobody})
  <2>1. /\ DOMAIN m_listeners = 1 .. Len(m_listeners) /\ Len(m_listeners) \in Nat
        /\ m_listeners \in [1 .. Len(m_listeners) -> Player \cup {Nobody}]
    BY <1>0, LenProperties DEF AudioTypeOK
  <2>2. m_listeners' \in [1 .. Len(m_listeners) -> Player \cup {Nobody}]
    BY <1>1, <2>1
  <2> QED BY <2>1, <2>2, SeqDef
<1>3. DOMAIN m_listeners' = DOMAIN m_listeners
  BY <1>1
<1>4. Listed' = Listed \ {p}
  <2>1. ASSUME NEW q \in Player, NEW i \in DOMAIN m_listeners
        PROVE  m_listeners'[i] = q <=> m_listeners[i] = q /\ q # p
    <3>1. q # Nobody
      BY ListenerAssumption DEF Nobody
    <3> QED BY <1>1, <3>1
  <2> QED BY <1>3, <2>1 DEF Listed
<1>5. Alive' = Alive \ {p}
  BY <1>0, <1>1 DEF Alive, AudioTypeOK
<1>6. ListenersInv'
  BY <1>0, <1>1, <1>3, <1>4, <1>5 DEF ListenersInv
<1>7. AudioTypeOK'
  BY <1>0, <1>1, <1>2 DEF AudioTypeOK
<1>8. VoicesHaveChannels'
  BY <1>0, <1>1, <1>5 DEF VoicesHaveChannels, AudioTypeOK
<1> QED BY <1>0, <1>1, <1>6, <1>7, <1>8 DEF AudioIInv, AudioInv, NothingRefused, ClosingInv

LEMMA AudioInitIInv == AudioInit => AudioIInv
<1> SUFFICES ASSUME AudioInit PROVE AudioIInv
  OBVIOUS
<1>1. m_listeners \in Seq(Player \cup {Nobody}) /\ DOMAIN m_listeners = {}
  BY DEF AudioInit
<1>2. AudioTypeOK
  BY <1>1 DEF AudioInit, AudioTypeOK, Channel
<1>3. ListenersInv
  BY <1>1 DEF AudioInit, ListenersInv, Listed, Alive
<1> QED BY <1>2, <1>3 DEF AudioInit, AudioIInv, AudioInv, VoicesHaveChannels, NothingRefused, ClosingInv

LEMMA AudioStep == AudioIInv /\ [AudioNext]_audioVars => AudioIInv'
<1> SUFFICES ASSUME AudioIInv, [AudioNext]_audioVars PROVE AudioIInv'
  OBVIOUS
<1>1. CASE UNCHANGED audioVars
  BY <1>1 DEF audioVars, AudioIInv, AudioInv, AudioTypeOK, ListenersInv, Listed, Alive,
              VoicesHaveChannels, NothingRefused, ClosingInv
<1> QED BY <1>1, CreateKeeps, CloseKeeps, CreatePlayerKeeps, DestroyPlayerKeeps DEF AudioNext

\* What a script reads of an effect, the state of its player and what its voice
\* does agree whenever no flush is under way, with any calls failing and the
\* end of the sound reported at any moment (ResourceSoundEffectImpl,
\* AudioPlayerXAudio2); and for any number of players the engine tells exactly
\* those alive, each once, and no voice outlives its channel (AudioEngineXAudio2).
THEOREM SoundsAgree == SoundSpec /\ AudioSpec => []SoundInv
<1>1. SoundSpec => []EffectInv
  BY EffectInit, EffectStep, EffectSafe, PTL DEF SoundSpec
<1>2. AudioIInv => AudioInv
  BY DEF AudioIInv
<1>3. AudioSpec => []AudioInv
  BY AudioInitIInv, AudioStep, <1>2, PTL DEF AudioSpec
<1>4. EffectInv /\ AudioInv => SoundInv
  BY DEF SoundInv
<1> QED BY <1>1, <1>3, <1>4, PTL
------------------------------------------------------------------------------
(* The resources of the graphics device.  Everything is said of each       *)
(* listener by whether it has been told: before, it holds what it held;    *)
(* after, nothing or, when creation is told, all its parts.                *)

\* The kinds that are no part of the auto-sized target.
Single == {"texture", "buffer", "pipeline"}

Value == {"none", "current", "stale"}
PartsType(k) == [PartSet(k) -> Value]

Distinct(s) == \A i, j \in DOMAIN s : s[i] = s[j] => i = j

\* The listeners told so far, and those still to be told.
Told == {m_event_listeners[i] : i \in 1 .. told[2]}
Untold == {m_event_listeners[i] : i \in told[2] + 1 .. Len(m_event_listeners)}

Fits == "target" \in m_initialized => size_of["target"] = canvas /\ size_of["depth"] = canvas

ResShape ==
  /\ ResourcesTypeOK /\ native = [k \in Kinds |-> native[k]] /\ told = <<told[1], told[2]>>
  /\ Distinct(m_event_listeners) /\ Range(m_event_listeners) = m_initialized \cup {Swap}
  /\ "target" \in m_initialized <=> "depth" \in m_initialized

\* What resources hold, by whether they were told.
ResParts ==
  /\ \A k \in Kinds \ m_initialized : native[k] = Nothing(k)
  /\ NoStale(Single) /\ (d3d11_device # "ready" => NoStale(Kinds))
  /\ told[1] = "none" =>
       /\ told[2] = 0
       /\ ~ failed => Fits /\ \A k \in m_initialized : Complete(k)
  /\ told[1] = "destroy" => \A k \in Told \ {Swap} : native[k] = Nothing(k)
  /\ told[1] = "create" =>
       /\ d3d11_device = "ready"
       /\ \A k \in Untold \cap Single : native[k] = Nothing(k)
       /\ ~ failed => (Swap \in Told => Fits) /\ \A k \in Told \ {Swap} : Complete(k)

ResIInv == ResShape /\ ResParts

\* What a resource holds after creation, whatever it held before.
LEMMA CreatedParts ==
  ASSUME NEW k \in Kinds, NEW before \in PartsType(k), NEW parts \in createResource(k, before)
  PROVE  /\ parts \in PartsType(k)
         /\ before = Nothing(k) => \A p \in PartSet(k) : parts[p] # "stale"
         /\ Whole(parts) => \A p \in PartSet(k) : parts[p] = "current"
<1> DEFINE Comes(q, p) == \/ q \in {"current", "none"}
                          \/ q = "stale" /\ before[p] = "current"
                          \/ q = before[p]
<1>1. \A n : \A p \in PartSet(k) : Comes(Made(k, before, n)[p], p)
  <2> SUFFICES ASSUME NEW n, NEW p \in PartSet(k) PROVE Comes(Made(k, before, n)[p], p)
    OBVIOUS
  <2> DEFINE i == CHOOSE i \in DOMAIN PartsOf(k) : PartsOf(k)[i] = p
  <2>1. Made(k, before, n)[p] = CASE i <= n    -> "current"
                                  [] i = n + 1 -> "none"
                                  [] OTHER     -> IF before[p] = "current" /\ k # "pipeline"
                                                  THEN "stale" ELSE before[p]
    BY DEF Made
  <2> HIDE DEF i
  <2> QED BY <2>1
<1>2. \A n : Made(k, before, n) = [p \in PartSet(k) |-> Made(k, before, n)[p]]
  BY DEF Made
<1>3. parts = before \/ \E n : parts = Made(k, before, n)
  BY DEF createResource
<1>4. \A p \in PartSet(k) : Comes(parts[p], p)
  BY <1>1, <1>3
<1>5. parts = [p \in PartSet(k) |-> parts[p]]
  BY <1>2, <1>3 DEF PartsType
<1>6. parts \in PartsType(k)
  BY <1>4, <1>5 DEF PartsType, Value
<1>7. before = Nothing(k) => \A p \in PartSet(k) : parts[p] # "stale"
  BY <1>4 DEF Nothing
<1> QED BY <1>5, <1>6, <1>7 DEF Whole

\* Vectors of listeners without doubles, under push_back and std::erase.
LEMMA ListenerAppended ==
  ASSUME NEW S, NEW s \in Seq(S), NEW k \in S, Distinct(s), k \notin Range(s)
  PROVE  LET t == Append(s, k) IN
         t \in Seq(S) /\ Distinct(t) /\ Range(t) = Range(s) \cup {k} /\ Len(t) \in Nat
<1> DEFINE t == Append(s, k)
           n == Len(s)
<1>1. /\ t \in Seq(S) /\ Len(t) = n + 1 /\ t[n + 1] = k /\ \A i \in 1 .. n : t[i] = s[i]
      /\ n \in Nat /\ DOMAIN s = 1 .. n
  BY AppendProperties, LenProperties
<1>2. DOMAIN t = 1 .. n + 1
  BY <1>1, LenProperties
<1> HIDE DEF n, t
<1>3. \A i \in 1 .. n + 1 : i \in 1 .. n \/ i = n + 1
  BY <1>1
<1>4. 1 .. n \subseteq 1 .. n + 1 /\ n + 1 \in 1 .. n + 1 /\ n + 1 \in Nat
  BY <1>1
<1>5. \A i \in 1 .. n : t[i] # k
  BY <1>1 DEF Range
<1>6. Distinct(t)
  BY <1>1, <1>2, <1>3, <1>5 DEF Distinct
<1>7. Range(t) = Range(s) \cup {k}
  BY <1>1, <1>2, <1>3, <1>4 DEF Range
<1> QED BY <1>1, <1>4, <1>6, <1>7 DEF t

LEMMA ListenerErased ==
  ASSUME NEW S, NEW s \in Seq(S), NEW X, Distinct(s)
  PROVE  LET t == Erased(s, X) IN
         t \in Seq(S) /\ Distinct(t) /\ Range(t) = Range(s) \ X /\ Len(t) \in Nat
<1> DEFINE t == Erased(s, X)
<1>1. /\ t \in Seq(S)
      /\ \A n \in DOMAIN t : t[n] \notin X /\ \E i \in DOMAIN s : t[n] = s[i]
      /\ \A i \in DOMAIN s : s[i] \notin X => \E n \in DOMAIN t : t[n] = s[i]
      /\ (\A i, j \in Kept(s, X) : s[i] = s[j] => i = j)
              => \A n, k \in DOMAIN t : t[n] = t[k] => n = k
  BY ErasedKeeps
<1>2. \A i, j \in Kept(s, X) : s[i] = s[j] => i = j
  BY DEF Distinct, Kept
<1>3. Len(t) \in Nat
  BY <1>1, LenProperties
<1> HIDE DEF t
<1>4. Range(t) = Range(s) \ X
  BY <1>1 DEF Range
<1> QED BY <1>1, <1>2, <1>3, <1>4 DEF Distinct, t

\* Where the entries of the vector come from, and what resources may hold.
LEMMA ResTypes ==
  ASSUME ResShape
  PROVE  /\ m_event_listeners \in Seq(Kinds \cup {Swap}) /\ Len(m_event_listeners) \in Nat
         /\ DOMAIN m_event_listeners = 1 .. Len(m_event_listeners)
         /\ told[2] \in 0 .. Len(m_event_listeners)
         /\ \A k \in Kinds : native[k] \in PartsType(k) /\ Nothing(k) \in PartsType(k)
         /\ Swap \notin Kinds /\ Single \subseteq Kinds /\ {"target", "depth"} \subseteq Kinds
         /\ m_initialized \subseteq Kinds
         /\ \A i \in 1 .. Len(m_event_listeners) : m_event_listeners[i] \in m_initialized \cup {Swap}
         /\ \A k \in m_initialized \cup {Swap} :
              \E i \in 1 .. Len(m_event_listeners) : m_event_listeners[i] = k
<1>1. m_event_listeners \in Seq(Kinds \cup {Swap})
  BY DEF ResShape, ResourcesTypeOK
<1>2. /\ Len(m_event_listeners) \in Nat
      /\ DOMAIN m_event_listeners = 1 .. Len(m_event_listeners)
  BY <1>1, LenProperties
<1>3. told[2] \in 0 .. Len(m_event_listeners) /\ m_initialized \subseteq Kinds
  BY DEF ResShape, ResourcesTypeOK
<1>4. \A k \in Kinds : native[k] \in PartsType(k) /\ Nothing(k) \in PartsType(k)
  BY DEF ResShape, ResourcesTypeOK, PartsType, Value, Nothing
<1>5. Swap \notin Kinds /\ Single \subseteq Kinds /\ {"target", "depth"} \subseteq Kinds
  BY DEF Swap, Kinds, Single
<1>6. \A i \in 1 .. Len(m_event_listeners) : m_event_listeners[i] \in Range(m_event_listeners)
  BY <1>2 DEF Range
<1>7. \A k \in Range(m_event_listeners) :
        \E i \in 1 .. Len(m_event_listeners) : m_event_listeners[i] = k
  BY <1>2 DEF Range
<1> QED BY <1>1, <1>2, <1>3, <1>4, <1>5, <1>6, <1>7 DEF ResShape

\* With the swap chain as the only listener there is nothing to make.
LEMMA ResStarts == ResourcesInit => ResIInv
<1> SUFFICES ASSUME ResourcesInit PROVE ResIInv
  OBVIOUS
<1>1. /\ m_event_listeners \in Seq(Kinds \cup {Swap}) /\ Len(m_event_listeners) = 1
      /\ DOMAIN m_event_listeners = {1} /\ m_event_listeners[1] = Swap
  BY DEF ResourcesInit
<1>2. Distinct(m_event_listeners) /\ Range(m_event_listeners) = {} \cup {Swap}
  BY <1>1 DEF Distinct, Range
<1>3. \A k \in Kinds : native[k] = Nothing(k)
  BY DEF ResourcesInit
<1>4. ResShape
  <2>1. told = <<told[1], told[2]>> /\ told[1] = "none" /\ told[2] = 0
    BY DEF ResourcesInit
  <2>2. \A k \in Kinds : native[k] \in [PartSet(k) -> {"none", "current", "stale"}]
    BY <1>3 DEF Nothing
  <2>3. size_of \in [{"target", "depth"} -> ScreenSizes]
    BY DEF ResourcesInit
  <2>4. native = [k \in Kinds |-> native[k]]
    BY DEF ResourcesInit
  <2>5. ResourcesTypeOK
    <3>1. /\ d3d11_device \in {"none", "ready", "mute"} /\ m_initialized \in SUBSET Kinds
          /\ m_graphics_pipeline_cache \subseteq {"pipeline"}
          /\ canvas \in ScreenSizes /\ failed \in BOOLEAN
      BY DEF ResourcesInit
    <3>2. told[1] \in {"none", "create", "destroy"} /\ told[2] \in 0 .. Len(m_event_listeners)
      BY <1>1, <2>1
    <3> QED BY <1>1, <2>2, <2>3, <3>1, <3>2 DEF ResourcesTypeOK
  <2> QED BY <1>2, <2>1, <2>4, <2>5 DEF ResShape, ResourcesInit
<1>5. NoStale(Kinds) /\ NoStale(Single)
  BY <1>3 DEF NoStale, Nothing, Kinds, Single
<1> QED BY <1>3, <1>4, <1>5 DEF ResIInv, ResParts, ResourcesInit, Fits

\* A resource made at once is whole before it registers.
LEMMA InitializeKeeps ==
  ASSUME ResIInv, NEW k \in Kinds, initialize(k) PROVE ResIInv'
<1>1. /\ told = <<"none", 0>> /\ told' = told /\ k \in Single /\ k \notin m_initialized
      /\ m_initialized' = m_initialized \cup {k} /\ m_event_listeners' = Registered(k)
      /\ UNCHANGED <<d3d11_device, size_of, canvas, failed>>
  BY DEF initialize, Quiet, Single
<1>2. PICK parts \in createResource(k, Nothing(k)) :
        Whole(parts) /\ native' = [native EXCEPT ![k] = parts]
  BY DEF initialize
<1>3. parts \in PartsType(k) /\ \A p \in PartSet(k) : parts[p] = "current"
  BY <1>2, ResTypes, CreatedParts DEF ResIInv
<1>4. /\ native' = [j \in Kinds |-> native'[j]] /\ native'[k] = parts
      /\ \A j \in Kinds \ {k} : native'[j] = native[j]
  BY <1>2 DEF ResIInv, ResShape
<1>5. /\ m_event_listeners' \in Seq(Kinds \cup {Swap}) /\ Distinct(m_event_listeners')
      /\ Range(m_event_listeners') = m_initialized' \cup {Swap}
      /\ Len(m_event_listeners') \in Nat
  <2> DEFINE s == m_event_listeners
             e == Erased(s, {k})
             S == Kinds \cup {Swap}
             X == {k}
  <2>0. s \in Seq(S) /\ Distinct(s) /\ Range(s) = m_initialized \cup {Swap}
    BY ResTypes DEF ResIInv, ResShape
  <2>1. e \in Seq(S) /\ Distinct(e) /\ Range(e) = Range(s) \ X
    <3> HIDE DEF s, S, X
    <3>1. LET t == Erased(s, X) IN t \in Seq(S) /\ Distinct(t) /\ Range(t) = Range(s) \ X
      BY <2>0, ListenerErased
    <3> QED BY <3>1 DEF X
  <2>2. k \in S /\ k \notin Range(e)
    BY <2>1
  <2>3. m_event_listeners' = Append(e, k)
    BY <1>1 DEF Registered
  <2>4. LET t == Append(e, k) IN
        t \in Seq(S) /\ Distinct(t) /\ Range(t) = Range(e) \cup {k} /\ Len(t) \in Nat
    <3> HIDE DEF e, S
    <3> QED BY <2>1, <2>2, ListenerAppended
  <2> HIDE DEF e, s
  <2> QED BY <1>1, <2>0, <2>1, <2>3, <2>4
<1>6. /\ m_graphics_pipeline_cache' \subseteq {"pipeline"}
      /\ \A j \in Kinds : native'[j] \in PartsType(j)
  BY <1>3, <1>4, ResTypes DEF initialize, ResIInv, ResShape, ResourcesTypeOK
<1>7. ResShape'
  BY <1>1, <1>4, <1>5, <1>6 DEF ResIInv, ResShape, ResourcesTypeOK, PartsType, Value, Single
<1>8. ResParts'
  <2>1. Complete(k)'
    BY <1>3, <1>4 DEF Complete
  <2>2. \A j \in m_initialized : Complete(j)' <=> Complete(j)
    BY <1>1, <1>4, ResTypes DEF Complete, ResIInv
  <2>3. NoStale(Single)' /\ (d3d11_device # "ready" => NoStale(Kinds)')
    BY <1>1, <1>3, <1>4, ResTypes DEF NoStale, ResIInv, ResParts
  <2>4. \A j \in Kinds \ m_initialized' : native'[j] = Nothing(j)
    BY <1>1, <1>4 DEF ResIInv, ResParts
  <2>5. Fits' <=> Fits
    BY <1>1 DEF Fits, Single
  <2> QED BY <1>1, <2>1, <2>2, <2>3, <2>4, <2>5 DEF ResIInv, ResParts
<1> QED BY <1>7, <1>8 DEF ResIInv

\* The target and its depth register together, in the size of the canvas.
LEMMA CreateTargetKeeps ==
  ASSUME ResIInv, createAutoSizeTarget PROVE ResIInv'
<1>1. /\ told = <<"none", 0>> /\ told' = told
      /\ "target" \notin m_initialized /\ "depth" \notin m_initialized
      /\ m_initialized' = m_initialized \cup {"target", "depth"}
      /\ m_event_listeners' = Append(Append(m_event_listeners, "target"), "depth")
      /\ size_of' = [k \in {"target", "depth"} |-> canvas]
      /\ UNCHANGED <<d3d11_device, m_graphics_pipeline_cache, canvas, failed>>
  BY DEF createAutoSizeTarget, Quiet
<1>2. /\ native' = [j \in Kinds |-> native'[j]]
      /\ \A j \in {"target", "depth"} : native'[j] = [p \in PartSet(j) |-> "current"]
      /\ \A j \in Kinds \ {"target", "depth"} : native'[j] = native[j]
  BY ResTypes DEF createAutoSizeTarget, ResIInv, ResShape
<1>3. /\ m_event_listeners' \in Seq(Kinds \cup {Swap}) /\ Distinct(m_event_listeners')
      /\ Range(m_event_listeners') = m_initialized' \cup {Swap}
      /\ Len(m_event_listeners') \in Nat
  <2> DEFINE s == m_event_listeners
             t == Append(s, "target")
             S == Kinds \cup {Swap}
  <2>1. /\ s \in Seq(S) /\ Distinct(s) /\ Range(s) = m_initialized \cup {Swap}
        /\ "target" \in S /\ "depth" \in S
        /\ "target" \notin Range(s) /\ "depth" \notin Range(s)
    BY <1>1, ResTypes DEF ResIInv, ResShape, Swap
  <2>2. t \in Seq(S) /\ Distinct(t) /\ Range(t) = Range(s) \cup {"target"}
    <3> HIDE DEF s, S
    <3> QED BY <2>1, ListenerAppended
  <2>3. "depth" \notin Range(t)
    BY <2>1, <2>2
  <2>4. LET u == Append(t, "depth") IN
        u \in Seq(S) /\ Distinct(u) /\ Range(u) = Range(t) \cup {"depth"} /\ Len(u) \in Nat
    <3> HIDE DEF t, S
    <3> QED BY <2>1, <2>2, <2>3, ListenerAppended
  <2> QED BY <1>1, <2>1, <2>2, <2>4
<1>4. \A j \in Kinds : native'[j] \in PartsType(j)
  <2>1. \A j \in Kinds : [p \in PartSet(j) |-> "current"] \in PartsType(j)
    BY DEF PartsType, Value
  <2> QED BY <1>2, <2>1, ResTypes DEF ResIInv
<1>5. ResShape'
  <2>1. told' = <<told'[1], told'[2]>> /\ told'[1] = "none" /\ told'[2] = 0
    BY <1>1
  <2>2. size_of' \in [{"target", "depth"} -> ScreenSizes]
    BY <1>1 DEF ResIInv, ResShape, ResourcesTypeOK
  <2>3. m_initialized' \subseteq Kinds
    BY <1>1, ResTypes DEF ResIInv
  <2>4. ResourcesTypeOK'
    BY <1>1, <1>3, <1>4, <2>1, <2>2, <2>3
       DEF ResIInv, ResShape, ResourcesTypeOK, PartsType, Value
  <2> QED BY <1>1, <1>2, <1>3, <2>1, <2>4 DEF ResShape
<1>6. ResParts'
  <2>1. \A j \in m_initialized : Complete(j)' <=> Complete(j)
    BY <1>1, <1>2, ResTypes DEF Complete, ResIInv
  <2>2. Complete("target")' /\ Complete("depth")'
    BY <1>2 DEF Complete
  <2>3. NoStale(Single)' /\ (d3d11_device # "ready" => NoStale(Kinds)')
    <3>1. \A j \in {"target", "depth"} : \A p \in PartSet(j) : native'[j][p] # "stale"
      BY <1>2
    <3> QED BY <1>2, <3>1, ResTypes DEF NoStale, ResIInv, ResParts, Single
  <2>4. \A j \in Kinds \ m_initialized' : native'[j] = Nothing(j)
    BY <1>1, <1>2 DEF ResIInv, ResParts
  <2>5. Fits'
    BY <1>1 DEF Fits
  <2> QED BY <1>1, <2>1, <2>2, <2>3, <2>4, <2>5 DEF ResIInv, ResParts
<1> QED BY <1>5, <1>6 DEF ResIInv

\* A resource destroyed leaves the vector, whatever place it had.
LEMMA DestroyKeeps ==
  ASSUME ResIInv, NEW K, destroy(K) PROVE ResIInv'
<1>1. /\ told = <<"none", 0>> /\ told' = told /\ K \subseteq m_initialized
      /\ m_initialized' = m_initialized \ K
      /\ m_event_listeners' = Erased(m_event_listeners, K)
      /\ UNCHANGED <<d3d11_device, size_of, canvas, failed>>
      /\ m_graphics_pipeline_cache' \subseteq m_graphics_pipeline_cache
      /\ ("target" \in K <=> "depth" \in K)
  BY DEF destroy, Quiet
<1>2. /\ native' = [j \in Kinds |-> native'[j]]
      /\ \A j \in Kinds \cap K : native'[j] = Nothing(j)
      /\ \A j \in Kinds \ K : native'[j] = native[j]
  BY DEF destroy
<1>3. /\ m_event_listeners' \in Seq(Kinds \cup {Swap}) /\ Distinct(m_event_listeners')
      /\ Range(m_event_listeners') = m_initialized' \cup {Swap}
      /\ Len(m_event_listeners') \in Nat
  <2> DEFINE s == m_event_listeners
             S == Kinds \cup {Swap}
  <2>1. s \in Seq(S) /\ Distinct(s) /\ Range(s) = m_initialized \cup {Swap} /\ Swap \notin K
    BY <1>1, ResTypes DEF ResIInv, ResShape
  <2>2. LET t == Erased(s, K) IN
        t \in Seq(S) /\ Distinct(t) /\ Range(t) = Range(s) \ K /\ Len(t) \in Nat
    <3> HIDE DEF s, S
    <3> QED BY <2>1, ListenerErased
  <2> QED BY <1>1, <2>1, <2>2
<1>4. \A j \in Kinds : native'[j] \in PartsType(j)
  BY <1>2, ResTypes DEF ResIInv
<1>5. ResShape'
  <2>1. told' = <<told'[1], told'[2]>> /\ told'[1] = "none" /\ told'[2] = 0
    BY <1>1
  <2>3. m_initialized' \subseteq Kinds
    BY <1>1, ResTypes DEF ResIInv
  <2>4. ResourcesTypeOK'
    BY <1>1, <1>3, <1>4, <2>1, <2>3 DEF ResIInv, ResShape, ResourcesTypeOK, PartsType, Value
  <2> QED BY <1>1, <1>2, <1>3, <2>1, <2>4 DEF ResIInv, ResShape
<1>6. ResParts'
  <2>1. \A j \in m_initialized' : Complete(j)' <=> Complete(j)
    BY <1>1, <1>2, ResTypes DEF Complete, ResIInv
  <2>3. NoStale(Single)' /\ (d3d11_device # "ready" => NoStale(Kinds)')
    <3>1. \A j \in Kinds \cap K : \A p \in PartSet(j) : native'[j][p] # "stale"
      BY <1>2 DEF Nothing
    <3> QED BY <1>2, <3>1, ResTypes DEF NoStale, ResIInv, ResParts
  <2>4. \A j \in Kinds \ m_initialized' : native'[j] = Nothing(j)
    BY <1>1, <1>2 DEF ResIInv, ResParts
  <2>5. Fits => Fits'
    BY <1>1 DEF Fits
  <2> QED BY <1>1, <2>1, <2>3, <2>4, <2>5 DEF ResIInv, ResParts
<1> QED BY <1>5, <1>6 DEF ResIInv

\* The auto-sized target after an attempt to give it the size s.
LEMMA Resized ==
  ASSUME ResIInv, NEW s \in ScreenSizes, ResizeAutoSizeRenderTarget(s)
  PROVE  /\ native' = [j \in Kinds |-> native'[j]]
         /\ \A j \in Kinds : native'[j] \in PartsType(j)
         /\ \A j \in Kinds : j \in Single \/ j \notin m_initialized => native'[j] = native[j]
         /\ size_of' \in [{"target", "depth"} -> ScreenSizes] /\ failed' \in BOOLEAN
         /\ ~ failed' =>
              /\ ~ failed
              /\ "target" \in m_initialized =>
                   /\ size_of'["target"] = s /\ size_of'["depth"] = s
                   /\ Complete("target")' /\ Complete("depth")'
<1>0. /\ \A j \in Kinds : native[j] \in PartsType(j) /\ Nothing(j) \in PartsType(j)
      /\ native = [j \in Kinds |-> native[j]]
      /\ size_of \in [{"target", "depth"} -> ScreenSizes] /\ failed \in BOOLEAN
      /\ "target" \in Kinds /\ "depth" \in Kinds
      /\ "target" \in m_initialized <=> "depth" \in m_initialized
  BY ResTypes DEF ResIInv, ResShape, ResourcesTypeOK
<1>1. CASE "target" \notin m_initialized
  BY <1>0, <1>1 DEF ResizeAutoSizeRenderTarget
<1>2. CASE "target" \in m_initialized
  <2>1. PICK t \in createResource("target", Nothing("target")) :
          IF Whole(t)
          THEN \E d \in createResource("depth", Nothing("depth")) :
                 /\ native' = [native EXCEPT !["target"] = t, !["depth"] = d]
                 /\ failed' = (failed \/ ~ Whole(d))
                 /\ size_of' = [k \in {"target", "depth"} |-> s]
          ELSE /\ native' = [native EXCEPT !["target"] = t] /\ failed' = TRUE
               /\ size_of' = [size_of EXCEPT !["target"] = s]
    BY <1>2 DEF ResizeAutoSizeRenderTarget, AutoSizeResized
  <2>2. t \in PartsType("target") /\ (Whole(t) => \A p \in PartSet("target") : t[p] = "current")
    BY <1>0, CreatedParts
  <2>3. CASE ~ Whole(t)
    <3>1. /\ native' = [native EXCEPT !["target"] = t] /\ failed' = TRUE
          /\ size_of' = [size_of EXCEPT !["target"] = s]
      BY <2>1, <2>3
    <3> QED BY <1>0, <1>2, <2>2, <3>1 DEF Single
  <2>4. CASE Whole(t)
    <3>1. PICK d \in createResource("depth", Nothing("depth")) :
            /\ native' = [native EXCEPT !["target"] = t, !["depth"] = d]
            /\ failed' = (failed \/ ~ Whole(d))
            /\ size_of' = [k \in {"target", "depth"} |-> s]
      BY <2>1, <2>4
    <3>2. d \in PartsType("depth") /\ (Whole(d) => \A p \in PartSet("depth") : d[p] = "current")
      BY <1>0, CreatedParts
    <3>3. /\ native' = [j \in Kinds |-> native'[j]]
          /\ native'["target"] = t /\ native'["depth"] = d
          /\ \A j \in Kinds \ {"target", "depth"} : native'[j] = native[j]
      BY <1>0, <3>1
    <3>4. /\ size_of' \in [{"target", "depth"} -> ScreenSizes] /\ failed' \in BOOLEAN
          /\ size_of'["target"] = s /\ size_of'["depth"] = s
          /\ ~ failed' => ~ failed /\ Whole(d)
      BY <1>0, <3>1
    <3>5. Whole(d) => Complete("target")' /\ Complete("depth")'
      BY <2>2, <2>4, <3>2, <3>3 DEF Complete
    <3> QED BY <1>0, <1>2, <2>2, <3>2, <3>3, <3>4, <3>5 DEF Single
  <2> QED BY <2>3, <2>4
<1> QED BY <1>1, <1>2

\* What an event that is dispatched has reached.
LEMMA NextTold ==
  ASSUME ResShape, told[2] < Len(m_event_listeners), NEW e, told' = <<e, told[2] + 1>>,
         UNCHANGED m_event_listeners
  PROVE  /\ Next_ \in m_initialized \cup {Swap}
         /\ Told' = Told \cup {Next_} /\ Untold' \subseteq Untold
         /\ Next_ \in Untold /\ Next_ \notin Untold'
         /\ told'[1] = e /\ told'[2] \in 0 .. Len(m_event_listeners')
         /\ told' = <<told'[1], told'[2]>>
<1> DEFINE s == m_event_listeners
           n == Len(s)
           i == told[2]
<1>1. /\ n \in Nat /\ i \in 0 .. n /\ i < n /\ DOMAIN s = 1 .. n
      /\ \A j \in 1 .. n : s[j] \in m_initialized \cup {Swap}
      /\ \A j, k \in 1 .. n : s[j] = s[k] => j = k
  BY ResTypes DEF ResShape, Distinct
<1>2. told'[1] = e /\ told'[2] = i + 1 /\ told' = <<told'[1], told'[2]>> /\ s' = s
  OBVIOUS
<1>3. /\ Told = {s[j] : j \in 1 .. i} /\ Untold = {s[j] : j \in i + 1 .. n}
      /\ Told' = {s[j] : j \in 1 .. i + 1} /\ Untold' = {s[j] : j \in (i + 1) + 1 .. n}
      /\ Next_ = s[i + 1]
  BY <1>2 DEF Told, Untold, Next_
<1> HIDE DEF s, n, i
<1>4. /\ i + 1 \in 1 .. n /\ i + 1 \in i + 1 .. n /\ i + 1 \notin (i + 1) + 1 .. n
      /\ (i + 1) + 1 .. n \subseteq i + 1 .. n /\ i + 1 .. n \subseteq 1 .. n
      /\ i + 1 \in 0 .. n
      /\ 1 .. i + 1 = (1 .. i) \cup {i + 1}
  BY <1>1
<1>5. Told' = Told \cup {Next_}
  BY <1>3, <1>4
<1>6. Next_ \notin Untold'
  BY <1>1, <1>3, <1>4
<1>7. Untold' \subseteq Untold /\ Next_ \in Untold
  BY <1>3, <1>4
<1>8. Next_ \in m_initialized \cup {Swap}
  BY <1>1, <1>3, <1>4
<1> QED BY <1>2, <1>4, <1>5, <1>6, <1>7, <1>8 DEF s, n, i

\* At the end of an event all were told, at the beginning none.
LEMMA AllTold ==
  ASSUME ResShape
  PROVE  /\ told[2] = Len(m_event_listeners) => m_initialized \cup {Swap} \subseteq Told
         /\ told[2] = 0 => Told = {} /\ Untold \subseteq m_initialized \cup {Swap}
BY ResTypes DEF Told, Untold

\* The target follows a new canvas or the failure is remembered.
LEMMA CanvasKeeps ==
  ASSUME ResIInv, NEW s \in ScreenSizes, changeCanvasSize(s) PROVE ResIInv'
<1>1. /\ told = <<"none", 0>> /\ d3d11_device = "ready" /\ canvas' = s
      /\ UNCHANGED <<d3d11_device, m_event_listeners, told, m_initialized,
                     m_graphics_pipeline_cache>>
      /\ ResizeAutoSizeRenderTarget(s)
  BY DEF changeCanvasSize, Quiet
<1>2. /\ native' = [j \in Kinds |-> native'[j]]
      /\ \A j \in Kinds : native'[j] \in PartsType(j)
      /\ \A j \in Kinds : j \in Single \/ j \notin m_initialized => native'[j] = native[j]
      /\ size_of' \in [{"target", "depth"} -> ScreenSizes] /\ failed' \in BOOLEAN
      /\ ~ failed' =>
           /\ ~ failed
           /\ "target" \in m_initialized =>
                /\ size_of'["target"] = s /\ size_of'["depth"] = s
                /\ Complete("target")' /\ Complete("depth")'
  BY <1>1, Resized
<1>3. ResShape'
  BY <1>1, <1>2 DEF ResIInv, ResShape, ResourcesTypeOK, PartsType, Value
<1>4. ResParts'
  <2>1. NoStale(Single)'
    BY <1>2, ResTypes DEF ResIInv, ResParts, NoStale
  <2>2. \A j \in Kinds \ m_initialized : native'[j] = Nothing(j)
    BY <1>2 DEF ResIInv, ResParts
  <2>3. ~ failed' => Fits'
    BY <1>1, <1>2 DEF Fits
  <2>4. \A j \in Kinds : j \in Single => (Complete(j)' <=> Complete(j))
    BY <1>2 DEF Complete
  <2>5. \A j \in m_initialized : j \in Single \/ j \in {"target", "depth"}
    BY ResTypes DEF ResIInv, Single, Kinds
  <2>6. ~ failed' => \A j \in m_initialized : Complete(j)'
    BY <1>1, <1>2, <2>4, <2>5, ResTypes DEF ResIInv, ResShape, ResParts
  <2> QED BY <1>1, <2>1, <2>2, <2>3, <2>6 DEF ResIInv, ResParts
<1> QED BY <1>3, <1>4 DEF ResIInv

\* The next listener in order of registration gives up its parts.
LEMMA DestructionKeeps ==
  ASSUME ResIInv, dispatchEventDestroy \/ tellOfDestruction PROVE ResIInv'
<1>1. CASE dispatchEventDestroy
  <2>1. /\ told' = <<"destroy", 0>> /\ told'[1] = "destroy" /\ told'[2] = 0
        /\ UNCHANGED <<d3d11_device, m_event_listeners, m_initialized, native, size_of,
                       m_graphics_pipeline_cache, canvas, failed>>
    BY <1>1 DEF dispatchEventDestroy
  <2>2. ResShape'
    BY <2>1, ResTypes DEF ResIInv, ResShape, ResourcesTypeOK
  <2>3. Told' = {}
    BY <2>1 DEF Told
  <2>4. NoStale(Single)' /\ (d3d11_device # "ready" => NoStale(Kinds)')
    BY <2>1 DEF NoStale, ResIInv, ResParts
  <2> QED BY <2>1, <2>2, <2>3, <2>4 DEF ResIInv, ResParts, Nothing
<1>2. CASE tellOfDestruction
  <2>1. /\ told[1] = "destroy" /\ told[2] < Len(m_event_listeners)
        /\ told' = <<"destroy", told[2] + 1>>
        /\ native' = IF Next_ = Swap THEN native ELSE [native EXCEPT ![Next_] = Nothing(Next_)]
        /\ UNCHANGED <<d3d11_device, m_event_listeners, m_initialized, size_of,
                       m_graphics_pipeline_cache, canvas, failed>>
    BY <1>2 DEF tellOfDestruction, Emptied
  <2>2. /\ Next_ \in m_initialized \cup {Swap} /\ Told' = Told \cup {Next_}
        /\ told'[1] = "destroy" /\ told'[2] \in 0 .. Len(m_event_listeners')
        /\ told' = <<told'[1], told'[2]>>
    BY <2>1, NextTold DEF ResIInv
  <2>3. /\ native' = [j \in Kinds |-> native'[j]]
        /\ \A j \in Kinds : native'[j] = IF j = Next_ THEN Nothing(j) ELSE native[j]
    BY <2>1, ResTypes DEF ResIInv, ResShape
  <2>4. \A j \in Kinds : native'[j] \in PartsType(j)
    BY <2>3, ResTypes DEF ResIInv
  <2>5. ResShape'
    BY <2>1, <2>2, <2>3, <2>4 DEF ResIInv, ResShape, ResourcesTypeOK, PartsType, Value
  <2>6. NoStale(Single)' /\ (d3d11_device # "ready" => NoStale(Kinds)')
    <3>1. \A j \in Kinds : \A p \in PartSet(j) : Nothing(j)[p] # "stale"
      BY DEF Nothing
    <3> QED BY <2>1, <2>3, <3>1, ResTypes DEF NoStale, ResIInv, ResParts
  <2>7. \A j \in Told' \ {Swap} : native'[j] = Nothing(j)
    BY <2>1, <2>2, <2>3, ResTypes DEF ResIInv, ResParts
  <2>8. \A j \in Kinds \ m_initialized' : native'[j] = Nothing(j)'
    BY <2>1, <2>3 DEF ResIInv, ResParts, Nothing
  <2> QED BY <2>1, <2>2, <2>5, <2>6, <2>7, <2>8 DEF ResIInv, ResParts
<1> QED BY <1>1, <1>2

\* A new device comes when everyone has been told of the end of the old one.
LEMMA ReplaceKeeps ==
  ASSUME ResIInv, replaceDevice PROVE ResIInv'
<1>1. /\ told = <<"destroy", Len(m_event_listeners)>>
      /\ told[1] = "destroy" /\ told[2] = Len(m_event_listeners)
      /\ native' = [k \in Kinds |-> [p \in PartSet(k) |->
                      IF native[k][p] = "none" THEN "none" ELSE "stale"]]
      /\ \/ d3d11_device' = "ready" /\ told' = <<"create", 0>> /\ failed' = FALSE
         \/ d3d11_device' \in {"none", "mute"} /\ told' = <<"none", 0>> /\ failed' = TRUE
      /\ UNCHANGED <<m_event_listeners, m_initialized, size_of, m_graphics_pipeline_cache, canvas>>
  BY DEF replaceDevice
<1>2. \A k \in Kinds : native[k] = Nothing(k)
  <2>1. \A k \in m_initialized : k \in Told /\ k # Swap
    BY <1>1, AllTold, ResTypes DEF ResIInv
  <2> QED BY <1>1, <2>1 DEF ResIInv, ResParts
<1>3. \A k \in Kinds : native'[k] = Nothing(k)
  <2>1. \A k \in Kinds : native'[k] = [p \in PartSet(k) |->
                                        IF native[k][p] = "none" THEN "none" ELSE "stale"]
    BY <1>1
  <2> QED BY <1>2, <2>1 DEF Nothing
<1>4. told' = <<told'[1], told'[2]>> /\ told'[1] \in {"none", "create"} /\ told'[2] = 0
  BY <1>1
<1>5. ResShape'
  <2>1. native' = [k \in Kinds |-> native'[k]]
    BY <1>1
  <2>2. \A k \in Kinds : native'[k] \in PartsType(k)
    BY <1>3, ResTypes DEF ResIInv
  <2>3. ResourcesTypeOK'
    <3>1. d3d11_device' \in {"none", "ready", "mute"} /\ failed' \in BOOLEAN
      BY <1>1
    <3>2. 0 \in 0 .. Len(m_event_listeners)
      BY ResTypes DEF ResIInv
    <3> QED BY <1>1, <1>4, <2>2, <3>1, <3>2
            DEF ResIInv, ResShape, ResourcesTypeOK, PartsType, Value
  <2> QED BY <1>1, <1>4, <2>1, <2>3 DEF ResIInv, ResShape
<1>6. Told' = {} /\ Untold' \subseteq m_initialized' \cup {Swap}
  <2>1. 1 .. 0 = {} /\ \A j \in 0 + 1 .. Len(m_event_listeners) : j \in 1 .. Len(m_event_listeners)
    BY ResTypes DEF ResIInv
  <2> QED BY <1>1, <1>4, <2>1, ResTypes DEF Told, Untold, ResIInv
<1>7. NoStale(Kinds)' /\ NoStale(Single)'
  BY <1>3, ResTypes DEF NoStale, Nothing, ResIInv
<1>8. (told'[1] = "none" => failed') /\ (told'[1] = "create" => d3d11_device' = "ready")
  BY <1>1
<1> QED BY <1>3, <1>4, <1>5, <1>6, <1>7, <1>8, ResTypes DEF ResIInv, ResParts, Nothing

\* The next listener makes its parts, the swap chain resizes the target.
LEMMA CreationKeeps ==
  ASSUME ResIInv, tellOfCreation PROVE ResIInv'
<1>1. /\ told[1] = "create" /\ told[2] < Len(m_event_listeners)
      /\ told' = <<"create", told[2] + 1>>
      /\ UNCHANGED <<d3d11_device, m_event_listeners, m_initialized, m_graphics_pipeline_cache,
                     canvas>>
  BY DEF tellOfCreation
<1>2. /\ Next_ \in m_initialized \cup {Swap} /\ Told' = Told \cup {Next_}
      /\ Untold' \subseteq Untold /\ Next_ \in Untold /\ Next_ \notin Untold'
      /\ told'[1] = "create" /\ told'[2] \in 0 .. Len(m_event_listeners')
      /\ told' = <<told'[1], told'[2]>>
  BY <1>1, NextTold DEF ResIInv
<1>3. CASE Next_ = Swap
  <2>1. ResizeAutoSizeRenderTarget(canvas) /\ canvas \in ScreenSizes
    BY <1>3 DEF tellOfCreation, ResIInv, ResShape, ResourcesTypeOK
  <2>2. /\ native' = [j \in Kinds |-> native'[j]]
        /\ \A j \in Kinds : native'[j] \in PartsType(j)
        /\ \A j \in Kinds : j \in Single \/ j \notin m_initialized => native'[j] = native[j]
        /\ size_of' \in [{"target", "depth"} -> ScreenSizes] /\ failed' \in BOOLEAN
        /\ ~ failed' =>
             /\ ~ failed
             /\ "target" \in m_initialized =>
                  /\ size_of'["target"] = canvas /\ size_of'["depth"] = canvas
                  /\ Complete("target")' /\ Complete("depth")'
    BY <2>1, Resized
  <2>3. ResShape'
    BY <1>1, <1>2, <2>2 DEF ResIInv, ResShape, ResourcesTypeOK, PartsType, Value
  <2>4. NoStale(Single)'
    BY <2>2, ResTypes DEF ResIInv, ResParts, NoStale
  <2>5. ~ failed' => Fits' /\ \A k \in Told' \ {Swap} : Complete(k)'
    <3>1. \A k \in Kinds : k \in Single => (Complete(k)' <=> Complete(k))
      BY <2>2 DEF Complete
    <3>2. \A k \in Kinds : k \in Single \/ k \in {"target", "depth"}
      BY DEF Single, Kinds
    <3>3. \A k \in Told : k \in m_initialized \cup {Swap}
      BY ResTypes DEF Told, ResIInv
    <3>4. ~ failed' => Fits'
      BY <1>1, <2>2 DEF Fits
    <3>5. ~ failed => \A k \in Told \ {Swap} : Complete(k)
      BY <1>1 DEF ResIInv, ResParts
    <3>6. \A k \in Told' \ {Swap} : k \in Told \ {Swap} /\ k \in m_initialized /\ k \in Kinds
      BY <1>2, <1>3, <3>3, ResTypes DEF ResIInv
    <3>7. "target" \in m_initialized <=> "depth" \in m_initialized
      BY DEF ResIInv, ResShape
    <3> QED BY <2>2, <3>1, <3>2, <3>4, <3>5, <3>6, <3>7
  <2>6. \A k \in Untold' \cap Single : native'[k] = Nothing(k)
    BY <1>1, <1>2, <2>2, ResTypes DEF ResIInv, ResParts
  <2>7. \A k \in Kinds \ m_initialized' : native'[k] = Nothing(k)
    BY <1>1, <2>2 DEF ResIInv, ResParts
  <2>8. d3d11_device' = "ready"
    BY <1>1 DEF ResIInv, ResParts
  <2> QED BY <1>2, <2>3, <2>4, <2>5, <2>6, <2>7, <2>8 DEF ResIInv, ResParts, Nothing
<1>4. CASE Next_ # Swap
  <2>1. PICK parts \in createResource(Next_, native[Next_]) :
          native' = [native EXCEPT ![Next_] = parts] /\ failed' = (failed \/ ~ Whole(parts))
    BY <1>4 DEF tellOfCreation
  <2>2. Next_ \in Kinds /\ Next_ \in m_initialized /\ UNCHANGED size_of
    BY <1>2, <1>4, ResTypes DEF tellOfCreation, ResIInv
  <2>3. /\ parts \in PartsType(Next_)
        /\ native[Next_] = Nothing(Next_) => \A p \in PartSet(Next_) : parts[p] # "stale"
        /\ Whole(parts) => \A p \in PartSet(Next_) : parts[p] = "current"
    <3>1. native[Next_] \in PartsType(Next_)
      BY <2>2, ResTypes DEF ResIInv
    <3> QED BY <2>1, <2>2, <3>1, CreatedParts
  <2>4. /\ native' = [j \in Kinds |-> native'[j]]
        /\ \A j \in Kinds : native'[j] = IF j = Next_ THEN parts ELSE native[j]
    BY <2>1 DEF ResIInv, ResShape
  <2>5. ResShape'
    <3>1. \A j \in Kinds : native'[j] \in PartsType(j)
      BY <2>3, <2>4, ResTypes DEF ResIInv
    <3>2. failed' \in BOOLEAN
      BY <2>1 DEF ResIInv, ResShape, ResourcesTypeOK
    <3> QED BY <1>1, <1>2, <2>2, <2>4, <3>1, <3>2
            DEF ResIInv, ResShape, ResourcesTypeOK, PartsType, Value
  <2>6. NoStale(Single)'
    <3>1. Next_ \in Single => native[Next_] = Nothing(Next_)
      BY <1>1, <1>2 DEF ResIInv, ResParts
    <3> QED BY <2>3, <2>4, <3>1, ResTypes DEF NoStale, ResIInv, ResParts
  <2>7. ~ failed' => (Swap \in Told' => Fits') /\ \A k \in Told' \ {Swap} : Complete(k)'
    <3>1. \A k \in Kinds \ {Next_} : Complete(k)' <=> Complete(k)
      BY <2>4 DEF Complete
    <3>2. \A k \in Told : k \in m_initialized \cup {Swap}
      BY ResTypes DEF Told, ResIInv
    <3>3. ~ failed' => ~ failed /\ \A p \in PartSet(Next_) : native'[Next_][p] = "current"
      <4>1. failed \in BOOLEAN
        BY DEF ResIInv, ResShape, ResourcesTypeOK
      <4>2. ~ failed' => ~ failed /\ Whole(parts)
        BY <2>1, <4>1
      <4> QED BY <2>2, <2>3, <2>4, <4>2
    <3>4. Fits' <=> Fits
      BY <1>1, <2>2 DEF Fits
    <3>5. ~ failed => (Swap \in Told => Fits) /\ \A k \in Told \ {Swap} : Complete(k)
      BY <1>1 DEF ResIInv, ResParts
    <3>6. \A k \in Told' \ {Swap} : k \in Kinds /\ (k = Next_ \/ k \in Told \ {Swap})
      BY <1>2, <2>2, <3>2, ResTypes DEF ResIInv
    <3>7. ~ failed' => \A k \in Told' \ {Swap} : Complete(k)'
      <4> SUFFICES ASSUME ~ failed', NEW k \in Told' \ {Swap} PROVE Complete(k)'
        OBVIOUS
      <4>1. CASE k = Next_
        BY <1>1, <3>3, <4>1 DEF Complete
      <4>2. CASE k # Next_
        BY <3>1, <3>3, <3>5, <3>6, <4>2
      <4> QED BY <4>1, <4>2
    <3>8. Swap \in Told' => Swap \in Told
      BY <1>2, <1>4
    <3> QED BY <3>3, <3>4, <3>5, <3>7, <3>8
  <2>8. \A k \in Untold' \cap Single : native'[k] = Nothing(k)
    BY <1>1, <1>2, <2>4, ResTypes DEF ResIInv, ResParts
  <2>9. \A k \in Kinds \ m_initialized' : native'[k] = Nothing(k)
    BY <1>1, <2>2, <2>4 DEF ResIInv, ResParts
  <2>10. d3d11_device' = "ready"
    BY <1>1 DEF ResIInv, ResParts
  <2> QED BY <1>2, <2>5, <2>6, <2>7, <2>8, <2>9, <2>10 DEF ResIInv, ResParts, Nothing
<1> QED BY <1>3, <1>4

\* Everyone told of the creation, the event is over.
LEMMA DispatchEnds ==
  ASSUME ResIInv, dispatchEnd PROVE ResIInv'
<1>1. /\ told[1] = "create" /\ told[2] = Len(m_event_listeners) /\ told' = <<"none", 0>>
      /\ UNCHANGED <<d3d11_device, m_event_listeners, m_initialized, native, size_of,
                     m_graphics_pipeline_cache, canvas, failed>>
  BY DEF dispatchEnd
<1>2. told'[1] = "none" /\ told'[2] = 0 /\ told' = <<told'[1], told'[2]>>
  BY <1>1
<1>3. ResShape'
  BY <1>1, <1>2, ResTypes DEF ResIInv, ResShape, ResourcesTypeOK
<1>4. ~ failed => Fits /\ \A k \in m_initialized : Complete(k)
  <2>1. m_initialized \cup {Swap} \subseteq Told /\ Swap \notin m_initialized
    BY <1>1, AllTold, ResTypes DEF ResIInv
  <2> QED BY <1>1, <2>1 DEF ResIInv, ResParts
<1>5. /\ Fits' <=> Fits
      /\ \A k : Complete(k)' <=> Complete(k)
      /\ NoStale(Single)' <=> NoStale(Single)
      /\ NoStale(Kinds)' <=> NoStale(Kinds)
  BY <1>1 DEF Fits, Complete, NoStale
<1> QED BY <1>1, <1>2, <1>3, <1>4, <1>5 DEF ResIInv, ResParts, Nothing

\* Nothing is left of a device that is gone, and what is alive is whole.
LEMMA ResMeans == ResIInv => ResourcesInv
<1> SUFFICES ASSUME ResIInv PROVE ResourcesInv
  OBVIOUS
<1>1. DeviceListenersInv
  <2> DEFINE s == m_event_listeners
             n == Len(s)
  <2>1. Distinct(s) /\ Range(s) = m_initialized \cup {Swap}
    BY DEF ResIInv, ResShape
  <2>2. n \in Nat /\ DOMAIN s = 1 .. n /\ s \in [1 .. n -> Kinds \cup {Swap}]
    BY ResTypes DEF ResIInv
  <2> HIDE DEF s, n
  <2>3. s \in Bijection(1 .. n, Range(s))
    BY <2>1, <2>2 DEF Distinct, Range, Bijection, Injection, Surjection, IsInjective
  <2>4. IsFiniteSet(1 .. n) /\ Cardinality(1 .. n) = n
    BY <2>2, FS_Interval
  <2>5. Cardinality(Range(s)) = n
    BY <2>3, <2>4, FS_Bijection DEF ExistsBijection
  <2> QED BY <2>1, <2>5 DEF DeviceListenersInv, s, n
<1>2. Quiet => told[1] = "none"
  BY DEF Quiet
<1>3. NothingOutlivesDevice
  BY <1>2 DEF ResIInv, ResParts, NothingOutlivesDevice, Single
<1>4. ResourcesComeBack /\ DepthFitsTarget
  BY <1>2 DEF ResIInv, ResParts, ResourcesComeBack, DepthFitsTarget, Fits
<1> QED BY <1>1, <1>3, <1>4 DEF ResIInv, ResShape, ResourcesInv

\* Whatever fails when resources are made, resized or made again, and however
\* often the device is replaced: its listeners are the swap chain and the resources
\* alive, each once; nothing of a device that is gone is kept; and after a
\* replacement in which nothing failed everything is whole and fits the canvas.
THEOREM ResourcesComplete == ResourcesSpec => []ResourcesInv
<1>1. ResIInv /\ [ResourcesNext]_resourceVars => ResIInv'
  <2> SUFFICES ASSUME ResIInv, [ResourcesNext]_resourceVars PROVE ResIInv'
    OBVIOUS
  <2>1. CASE UNCHANGED resourceVars
    <3>1. UNCHANGED <<d3d11_device, m_event_listeners, m_initialized, native, size_of,
                      m_graphics_pipeline_cache, canvas, told, failed>>
      BY <2>1 DEF resourceVars
    <3>2. ResShape'
      BY <3>1 DEF ResIInv, ResShape, ResourcesTypeOK
    <3>3. /\ \A k : Complete(k)' <=> Complete(k)
          /\ NoStale(Single)' <=> NoStale(Single)
          /\ NoStale(Kinds)' <=> NoStale(Kinds)
          /\ Fits' <=> Fits
      BY <3>1 DEF Complete, NoStale, Fits
    <3>4. Told' = Told /\ Untold' = Untold
      BY <3>1 DEF Told, Untold
    <3> QED BY <3>1, <3>2, <3>3, <3>4 DEF ResIInv, ResParts, Nothing
  <2>2. CASE createGraphicsPipelineCached
    BY <2>1, <2>2 DEF createGraphicsPipelineCached
  <2> QED
    BY <2>1, <2>2, InitializeKeeps, CreateTargetKeeps, DestroyKeeps, CanvasKeeps,
       DestructionKeeps, ReplaceKeeps, CreationKeeps, DispatchEnds DEF ResourcesNext
<1> QED BY <1>1, ResStarts, ResMeans, PTL DEF ResourcesSpec
------------------------------------------------------------------------------
(* The resources of scripts.  Holds counts what holds a reference to a     *)
(* resource apart from resources made from it; Balanced says that the      *)
(* counts are right for what p, i, r and d hold: pools, particle pools,    *)
(* the object and the lstg.ParticleSystems.                                *)

Resource == [slot : Slot \cup {Freed.slot}, refs : Nat, dep : 0 .. ThingBound]

Places(f, x) == {e \in DOMAIN f : f[e] = x}
Count(f, x)  == Cardinality(Places(f, x))
Flat(p)      == [e \in Pool \X Slot |-> p[e[1]][e[2]]]
Deps(m)      == [x \in Thing |-> m[x].dep]

\* Counts that are right, where H of x are held by others than resources.
Counted(m, H) ==
  /\ m \in [Thing -> Resource] /\ H \in [Thing -> Nat]
  /\ \A x \in Thing : m[x].dep # 0 => m[m[x].dep].dep = 0
  /\ \A x \in Thing : m[x].slot.kind = "texture" => m[x].dep = 0
  /\ \A x \in Thing : m[x].refs = Count(Deps(m), x) + H[x]
  /\ \A x \in Thing : m[x] = Freed <=> m[x].refs = 0

\* What is released may be freed, the rest stays where it is.
SameOrFreed(m, n) == \A x \in Thing : n[x] = Freed \/ n[x].slot = m[x].slot

LEMMA ThingIs == \A x : x \in Thing => x \in Nat /\ x # 0 /\ x \in 0 .. ThingBound
BY ResourceAssumption DEF Thing

\* One entry of a function changes.
Beside(f, g, e) == \A y \in DOMAIN f : y # e => g[y] = f[y]

LEMMA Recount ==
  ASSUME NEW D, NEW f, f \in [D -> 0 .. ThingBound], NEW g, g \in [D -> 0 .. ThingBound],
         NEW e \in D, Beside(f, g, e), NEW x \in Thing, IsFiniteSet(Places(f, x))
  PROVE  /\ Count(f, x) \in Nat /\ Count(g, x) \in Nat /\ IsFiniteSet(Places(g, x))
         /\ f[e] = x => Count(f, x) > 0
         /\ f[e] = x /\ g[e] # x => Count(g, x) = Count(f, x) - 1
         /\ f[e] # x /\ g[e] = x => Count(g, x) = Count(f, x) + 1
         /\ (f[e] = x <=> g[e] = x) => Count(g, x) = Count(f, x)
<1> DEFINE P == Places(f, x)
           R == P \ {e}
<1>1. IsFiniteSet(R) /\ Cardinality(P) \in Nat /\ Cardinality(R) \in Nat
      /\ Cardinality(R) = IF e \in P THEN Cardinality(P) - 1 ELSE Cardinality(P)
  BY FS_CardinalityType, FS_RemoveElement
<1>2. /\ g[e] = x => Places(g, x) = R \cup {e}
      /\ g[e] # x => Places(g, x) = R
      /\ e \in P <=> f[e] = x
  BY DEF Places, Beside
<1>3. IsFiniteSet(R \cup {e}) /\ Cardinality(R \cup {e}) = Cardinality(R) + 1
  BY <1>1, FS_AddElement
<1> HIDE DEF P, R
<1>4. Count(f, x) = Cardinality(P) /\ Count(g, x) = Cardinality(Places(g, x))
  BY DEF Count, P
<1>5. Count(f, x) \in Nat /\ (f[e] = x => Count(f, x) > 0)
  BY <1>1, <1>2, <1>4
<1>6. CASE g[e] = x
  <2>1. Count(g, x) = Cardinality(R) + 1 /\ IsFiniteSet(Places(g, x))
    BY <1>2, <1>3, <1>4, <1>6
  <2>2. Count(f, x) = IF f[e] = x THEN Cardinality(R) + 1 ELSE Cardinality(R)
    BY <1>1, <1>2, <1>4
  <2> QED BY <1>1, <1>5, <1>6, <2>1, <2>2
<1>7. CASE g[e] # x
  BY <1>7, <1>1, <1>2, <1>4, <1>5
<1> QED BY <1>6, <1>7

LEMMA DepsFinite ==
  ASSUME NEW m \in [Thing -> Resource], NEW x \in Thing
  PROVE  /\ IsFiniteSet(Places(Deps(m), x)) /\ Deps(m) \in [Thing -> 0 .. ThingBound]
         /\ Count(Deps(m), x) \in Nat
<1>1. IsFiniteSet(Thing)
  BY ResourceAssumption, FS_Interval DEF Thing
<1>2. Deps(m) \in [Thing -> 0 .. ThingBound]
  BY DEF Deps, Resource
<1>3. Places(Deps(m), x) \subseteq Thing
  BY DEF Places, Deps
<1>4. IsFiniteSet(Places(Deps(m), x))
  BY <1>1, <1>3, FS_Subset
<1> QED BY <1>2, <1>4, FS_CardinalityType DEF Count

LEMMA SlotKinds == \A s \in Slot \cup {Freed.slot} : s.kind \in {"texture", "sprite", "particle", "none"}
BY ResourceAssumption DEF Freed

\* What only frees things and lets go of what they were made from is right if
\* it counts.
LEMMA CountedNow ==
  ASSUME NEW m, NEW H, Counted(m, H), NEW n \in [Thing -> Resource], NEW G \in [Thing -> Nat],
         SameOrFreed(m, n), \A y \in Thing : n[y].dep = 0 \/ n[y].dep = m[y].dep,
         \A y \in Thing : n[y].refs = Count(Deps(n), y) + G[y],
         \A y \in Thing : n[y] = Freed <=> n[y].refs = 0
  PROVE  Counted(n, G)
<1>1. ASSUME NEW y \in Thing, n[y].dep # 0 PROVE n[n[y].dep].dep = 0
  <2>1. n[y].dep = m[y].dep /\ m[m[y].dep].dep = 0
    BY <1>1 DEF Counted
  <2>2. m[y].dep \in Thing
    BY <1>1, <2>1, ResourceAssumption DEF Counted, Resource, Thing
  <2> QED BY <2>1, <2>2
<1>2. ASSUME NEW y \in Thing, n[y].slot.kind = "texture" PROVE n[y].dep = 0
  <2>1. CASE n[y] = Freed
    BY <2>1 DEF Freed
  <2>2. CASE n[y].slot = m[y].slot
    BY <2>2, <1>2 DEF Counted
  <2> QED BY <2>1, <2>2 DEF SameOrFreed
<1> QED BY <1>1, <1>2 DEF Counted

LEMMA FreedIs == Freed \in Resource /\ Freed.refs = 0 /\ Freed.dep = 0
BY ResourceAssumption DEF Freed, Resource

LEMMA Retain ==
  ASSUME NEW m, NEW H, Counted(m, H), NEW x \in Thing, m[x].refs # 0
  PROVE  /\ Counted(Retained(m, x), [H EXCEPT ![x] = @ + 1])
         /\ \A y \in Thing : Retained(m, x)[y].slot = m[y].slot
<1> DEFINE n == [m EXCEPT ![x].refs = @ + 1]
           G == [H EXCEPT ![x] = @ + 1]
<1>1. Retained(m, x) = n
  BY ThingIs DEF Retained
<1>2. m \in [Thing -> Resource] /\ H \in [Thing -> Nat]
  BY DEF Counted
<1>3. m[x].refs \in Nat /\ m[x].refs + 1 \in Nat /\ m[x] \in Resource
  BY <1>2 DEF Resource
<1>4. n \in [Thing -> Resource] /\ G \in [Thing -> Nat]
  BY <1>2, <1>3 DEF Resource
<1>5. \A y \in Thing : /\ n[y].slot = m[y].slot /\ n[y].dep = m[y].dep
                       /\ n[y].refs = m[y].refs + (IF y = x THEN 1 ELSE 0)
                       /\ (y # x => n[y] = m[y])
                       /\ G[y] = H[y] + (IF y = x THEN 1 ELSE 0)
  BY <1>2, <1>3 DEF Resource
<1>6. Deps(n) = Deps(m)
  BY <1>5 DEF Deps
<1> HIDE DEF n, G
<1>7. ASSUME NEW y \in Thing
      PROVE  n[y].refs = Count(Deps(n), y) + G[y] /\ (n[y] = Freed <=> n[y].refs = 0)
  <2>1. /\ Count(Deps(m), y) \in Nat /\ H[y] \in Nat /\ m[y].refs = Count(Deps(m), y) + H[y]
        /\ (m[y] = Freed <=> m[y].refs = 0)
    BY <1>2, DepsFinite DEF Counted
  <2>2. n[y].refs = Count(Deps(n), y) + G[y]
    BY <2>1, <1>5, <1>6
  <2>3. CASE y = x
    BY <2>2, <2>3, <1>3, <1>5, FreedIs
  <2>4. CASE y # x
    BY <2>1, <2>2, <2>4, <1>5
  <2> QED BY <2>3, <2>4
<1>8. SameOrFreed(m, n)
  BY <1>5 DEF SameOrFreed
<1>9. Counted(n, G)
  BY <1>4, <1>5, <1>7, <1>8, CountedNow
<1> QED BY <1>1, <1>5, <1>9 DEF G

\* What nothing is made from.
LEMMA NoDeps ==
  ASSUME NEW m \in [Thing -> Resource], NEW x \in Thing
  PROVE  Count(Deps(m), x) = 0 <=> \A y \in Thing : m[y].dep # x
<1>1. IsFiniteSet(Places(Deps(m), x))
  BY DepsFinite
<1>2. Places(Deps(m), x) = {} <=> Count(Deps(m), x) = 0
  BY <1>1, FS_EmptySet DEF Count
<1>3. Places(Deps(m), x) = {} <=> \A y \in Thing : m[y].dep # x
  BY DEF Places, Deps
<1> QED BY <1>2, <1>3

\* Something that others hold loses a holder.
LEMMA Release ==
  ASSUME NEW m, NEW H, Counted(m, H), NEW x \in Thing, H[x] > 0
  PROVE  /\ Counted(Released(m, x), [H EXCEPT ![x] = @ - 1])
         /\ SameOrFreed(m, Released(m, x))
<1> DEFINE n == Released(m, x)
           G == [H EXCEPT ![x] = @ - 1]
           d == m[x].dep
           out == IF m[x].refs = 1 /\ d # 0 THEN d ELSE 0
<1>1. /\ m \in [Thing -> Resource] /\ H \in [Thing -> Nat]
      /\ \A y \in Thing : m[y].refs = Count(Deps(m), y) + H[y] /\ (m[y] = Freed <=> m[y].refs = 0)
      /\ \A y \in Thing : m[y].dep # 0 => m[m[y].dep].dep = 0
  BY DEF Counted
<1>2. \A y \in Thing : /\ m[y].refs \in Nat /\ m[y].dep \in 0 .. ThingBound /\ H[y] \in Nat
                       /\ Count(Deps(m), y) \in Nat
  BY <1>1, DepsFinite DEF Resource
<1>3. G \in [Thing -> Nat] /\ \A y \in Thing : G[y] = H[y] - (IF y = x THEN 1 ELSE 0)
  BY <1>1, <1>2
<1>4. x # 0 /\ d \in 0 .. ThingBound /\ (d # 0 => d \in Thing /\ m[d].dep = 0 /\ d # x)
  BY <1>1, <1>2, ThingIs, ResourceAssumption DEF Thing
<1>5. CASE m[x].refs > 1
  <2>1. n = [m EXCEPT ![x].refs = @ - 1]
    BY <1>2, <1>4, <1>5 DEF Released, Dropped
  <2>2. m[x].refs - 1 \in Nat /\ m[x] \in Resource
    BY <1>1, <1>2, <1>5
  <2> DEFINE z == [m EXCEPT ![x].refs = @ - 1]
  <2>3. z \in [Thing -> Resource]
    BY <1>1, <2>2 DEF Resource
  <2>4. \A y \in Thing : /\ z[y].slot = m[y].slot /\ z[y].dep = m[y].dep
                         /\ z[y].refs = m[y].refs - (IF y = x THEN 1 ELSE 0)
                         /\ (y # x => z[y] = m[y])
    BY <1>1, <1>2, <2>2 DEF Resource
  <2>5. Deps(z) = Deps(m)
    BY <2>4 DEF Deps
  <2> HIDE DEF z, G
  <2>6. ASSUME NEW y \in Thing
        PROVE  z[y].refs = Count(Deps(z), y) + G[y] /\ (z[y] = Freed <=> z[y].refs = 0)
    <3>1. z[y].refs = Count(Deps(z), y) + G[y]
      BY <1>1, <1>2, <1>3, <2>4, <2>5
    <3>2. CASE y = x
      BY <3>1, <3>2, <1>2, <1>5, <2>4, FreedIs
    <3>3. CASE y # x
      BY <3>1, <3>3, <1>1, <2>4
    <3> QED BY <3>2, <3>3
  <2>7. SameOrFreed(m, z)
    BY <2>4 DEF SameOrFreed
  <2>8. Counted(z, G)
    BY <1>3, <2>3, <2>4, <2>6, <2>7, CountedNow
  <2> QED BY <2>1, <2>7, <2>8 DEF z, G
<1>6. CASE ~ (m[x].refs > 1)
  <2>1. m[x].refs = 1 /\ H[x] = 1 /\ Count(Deps(m), x) = 0
    BY <1>1, <1>2, <1>6
  <2>2. \A y \in Thing : m[y].dep # x
    BY <1>1, <2>1, NoDeps
  <2> DEFINE p == [m EXCEPT ![x] = Freed]
  <2>3. n = Dropped(p, d)
    BY <1>4, <2>1 DEF Released, Dropped
  <2>4. p \in [Thing -> Resource] /\ \A y \in Thing : p[y] = IF y = x THEN Freed ELSE m[y]
    BY <1>1, FreedIs
  <2>5. Deps(p) = [Deps(m) EXCEPT ![x] = 0]
    BY <2>4, FreedIs DEF Deps
  <2>6. \A y \in Thing : /\ Count(Deps(p), y) \in Nat
                         /\ Count(Deps(p), y) = Count(Deps(m), y) - (IF d = y THEN 1 ELSE 0)
                         /\ (d = y => Count(Deps(m), y) > 0)
    <3> SUFFICES ASSUME NEW y \in Thing
                 PROVE  /\ Count(Deps(p), y) \in Nat
                        /\ Count(Deps(p), y) = Count(Deps(m), y) - (IF d = y THEN 1 ELSE 0)
                        /\ (d = y => Count(Deps(m), y) > 0)
      OBVIOUS
    <3> DEFINE f == Deps(m)
               g == Deps(p)
    <3>1. f[x] = d /\ g[x] = 0 /\ Beside(f, g, x) /\ y # 0
      BY <2>5, ThingIs DEF Deps, Beside
    <3>2. IsFiniteSet(Places(f, y)) /\ f \in [Thing -> 0 .. ThingBound] /\ g \in [Thing -> 0 .. ThingBound]
      BY <1>1, <2>4, DepsFinite
    <3>3. Count(f, y) \in Nat
      BY <1>2
    <3> HIDE DEF p, d, f, g
    <3>4. /\ Count(g, y) \in Nat /\ (f[x] = y => Count(f, y) > 0)
          /\ (f[x] = y /\ g[x] # y => Count(g, y) = Count(f, y) - 1)
          /\ ((f[x] = y <=> g[x] = y) => Count(g, y) = Count(f, y))
      BY <3>1, <3>2, Recount
    <3> QED BY <3>1, <3>3, <3>4 DEF f, g
  <2> HIDE DEF p, G, d
  <2> SUFFICES Counted(n, G) /\ SameOrFreed(m, n)
    BY DEF n, G
  <2>7. CASE d = 0
    <3>1. n = p
      BY <2>3, <2>7 DEF Dropped
    <3>2. SameOrFreed(m, p) /\ \A y \in Thing : p[y].dep = 0 \/ p[y].dep = m[y].dep
      BY <2>4, FreedIs DEF SameOrFreed
    <3>3. \A y \in Thing : p[y].refs = Count(Deps(p), y) + G[y] /\ (p[y] = Freed <=> p[y].refs = 0)
      BY <1>1, <1>2, <1>3, <2>1, <2>4, <2>6, <2>7, FreedIs, ThingIs
    <3>4. Counted(p, G)
      BY <1>3, <2>4, <3>2, <3>3, CountedNow
    <3> QED BY <3>1, <3>2, <3>4
  <2>8. CASE d # 0
    <3>1. d \in Thing /\ m[d].dep = 0 /\ d # x /\ p[d] = m[d]
      BY <1>4, <2>4, <2>8 DEF d
    <3>2. m[d].refs \in Nat /\ m[d].refs >= 1 /\ m[d] \in Resource
      BY <3>1, <1>1, <1>2, <2>6
    <3>3. n \in [Thing -> Resource]
          /\ \A y \in Thing : y # d => n[y] = p[y]
          /\ n[d].dep = 0 /\ (n[d] = Freed \/ n[d].slot = m[d].slot) /\ n[d].refs = m[d].refs - 1
          /\ (n[d] = Freed <=> n[d].refs = 0)
      <4>1. CASE m[d].refs > 1
        <5>1. n = [p EXCEPT ![d].refs = @ - 1]
          BY <2>3, <2>8, <3>1, <4>1 DEF Dropped
        <5>2. n[d] = [m[d] EXCEPT !.refs = @ - 1] /\ \A y \in Thing : y # d => n[y] = p[y]
          BY <5>1, <3>1, <2>4
        <5>3. /\ n[d] \in Resource /\ n[d].dep = 0 /\ n[d].slot = m[d].slot
              /\ n[d].refs = m[d].refs - 1 /\ n[d].refs # 0
          BY <5>2, <3>1, <3>2, <4>1 DEF Resource
        <5>4. n \in [Thing -> Resource]
          BY <5>1, <5>2, <5>3, <2>4
        <5> QED BY <5>2, <5>3, <5>4, FreedIs
      <4>2. CASE ~ (m[d].refs > 1)
        <5>1. n = [p EXCEPT ![d] = Freed] /\ m[d].refs = 1
          BY <2>3, <2>8, <3>1, <3>2, <4>2 DEF Dropped
        <5> QED BY <5>1, <3>1, <2>4, FreedIs
      <4> QED BY <4>1, <4>2
    <3> HIDE DEF n
    <3>4. \A y \in Thing : n[y].dep = p[y].dep
      BY <3>1, <3>3
    <3>5. Deps(n) = Deps(p)
      BY <3>4 DEF Deps
    <3>6. SameOrFreed(m, n) /\ \A y \in Thing : n[y].dep = 0 \/ n[y].dep = m[y].dep
      BY <2>4, <3>1, <3>3, FreedIs DEF SameOrFreed
    <3>7. ASSUME NEW y \in Thing
          PROVE  n[y].refs = Count(Deps(n), y) + G[y] /\ (n[y] = Freed <=> n[y].refs = 0)
      <4>1. CASE y = d
        BY <4>1, <1>1, <1>2, <1>3, <2>6, <3>1, <3>2, <3>3, <3>5
      <4>2. CASE y = x
        <5>1. n[x] = Freed
          BY <2>4, <3>1, <3>3
        <5>2. Count(Deps(n), x) = 0 /\ G[x] = 0
          BY <1>2, <1>3, <2>1, <2>6, <3>1, <3>5
        <5> QED BY <4>2, <5>1, <5>2, FreedIs
      <4>3. CASE y # d /\ y # x
        BY <4>3, <1>1, <1>2, <1>3, <2>4, <2>6, <3>3, <3>5
      <4> QED BY <4>1, <4>2, <4>3
    <3>8. Counted(n, G)
      BY <1>3, <3>3, <3>6, <3>7, CountedNow
    <3> QED BY <3>6, <3>8
  <2> QED BY <2>7, <2>8
<1> QED BY <1>5, <1>6

------------------------------------------------------------------------------
Holds(p, i, r, d) ==
  [x \in Thing |-> Count(Flat(p), x) + Count(i, x) + Count(d, x) + (IF r = x THEN 1 ELSE 0)]

Holding(p, i, r, d) ==
  /\ p \in [Pool -> [Slot -> 0 .. ThingBound]] /\ i \in [Instance -> 0 .. ThingBound]
  /\ r \in 0 .. ThingBound /\ d \in [UserData -> 0 .. ThingBound]

\* A pool keeps a resource under its own slot.
Named(m, p) == \A q \in Pool, s \in Slot : p[q][s] # 0 => m[p[q][s]].slot = s

Balanced(m, p, i, r, d) ==
  Holding(p, i, r, d) /\ Named(m, p) /\ Counted(m, Holds(p, i, r, d))

LEMMA FlatIs ==
  ASSUME NEW p, p \in [Pool -> [Slot -> 0 .. ThingBound]]
  PROVE  /\ Flat(p) \in [Pool \X Slot -> 0 .. ThingBound]
         /\ \A q \in Pool, s \in Slot : Flat(p)[<<q, s>>] = p[q][s]
BY DEF Flat

\* All that is counted is finite: in the pools, as each has one slot for it.
LEMMA Finitely ==
  ASSUME NEW m, NEW p, NEW i, NEW r, NEW d, Holding(p, i, r, d), Named(m, p), NEW x \in Thing
  PROVE  /\ IsFiniteSet(Places(Flat(p), x)) /\ Count(Flat(p), x) \in Nat
         /\ IsFiniteSet(Places(i, x)) /\ Count(i, x) \in Nat
         /\ IsFiniteSet(Places(d, x)) /\ Count(d, x) \in Nat
<1>1. IsFiniteSet(Instance) /\ IsFiniteSet(UserData)
  BY ResourceAssumption, FS_Interval DEF Instance, UserData
<1>2. Places(i, x) \subseteq Instance /\ Places(d, x) \subseteq UserData
  BY DEF Places, Holding
<1>3. Places(Flat(p), x) \subseteq {<<"global", m[x].slot>>} \cup {<<"stage", m[x].slot>>}
  <2> SUFFICES ASSUME NEW e \in Places(Flat(p), x)
               PROVE  e \in {<<"global", m[x].slot>>} \cup {<<"stage", m[x].slot>>}
    OBVIOUS
  <2>1. e \in Pool \X Slot /\ p[e[1]][e[2]] = x
    BY DEF Places, Flat
  <2>2. PICK q \in Pool, s \in Slot : e = <<q, s>>
    BY <2>1
  <2>3. p[q][s] = x /\ x # 0
    BY <2>1, <2>2, ThingIs
  <2>4. m[x].slot = s
    BY <2>3 DEF Named
  <2> QED BY <2>2, <2>4 DEF Pool
<1>4. IsFiniteSet({<<"global", m[x].slot>>} \cup {<<"stage", m[x].slot>>})
  BY FS_Singleton, FS_Union
<1>5. IsFiniteSet(Places(Flat(p), x))
  BY <1>3, <1>4, FS_Subset
<1>6. IsFiniteSet(Places(i, x)) /\ IsFiniteSet(Places(d, x))
  BY <1>1, <1>2, FS_Subset
<1> QED BY <1>5, <1>6, FS_CardinalityType DEF Count

\* Whoever holds something is counted among those that do.
LEMMA Held ==
  ASSUME NEW m, NEW p, NEW i, NEW r, NEW d, Balanced(m, p, i, r, d), NEW x \in Thing,
         \/ \E q \in Pool, s \in Slot : p[q][s] = x
         \/ \E j \in Instance : i[j] = x
         \/ r = x
         \/ \E u \in UserData : d[u] = x
  PROVE  Holds(p, i, r, d)[x] > 0 /\ m[x].refs # 0 /\ m[x] # Freed
<1> DEFINE H == Holds(p, i, r, d)
<1>1. /\ IsFiniteSet(Places(Flat(p), x)) /\ Count(Flat(p), x) \in Nat
      /\ IsFiniteSet(Places(i, x)) /\ Count(i, x) \in Nat
      /\ IsFiniteSet(Places(d, x)) /\ Count(d, x) \in Nat
  BY Finitely DEF Balanced
<1>2. H[x] = Count(Flat(p), x) + Count(i, x) + Count(d, x) + (IF r = x THEN 1 ELSE 0)
  BY DEF Holds
<1>3. \/ Places(Flat(p), x) # {} \/ Places(i, x) # {} \/ Places(d, x) # {} \/ r = x
  <2>1. ASSUME NEW q \in Pool, NEW s \in Slot, p[q][s] = x PROVE Places(Flat(p), x) # {}
    <3>1. <<q, s>> \in DOMAIN Flat(p) /\ Flat(p)[<<q, s>>] = x
      BY <2>1, FlatIs DEF Balanced, Holding, Flat
    <3> QED BY <3>1 DEF Places
  <2>2. ASSUME NEW j \in Instance, i[j] = x PROVE Places(i, x) # {}
    BY <2>2 DEF Places, Balanced, Holding
  <2>3. ASSUME NEW u \in UserData, d[u] = x PROVE Places(d, x) # {}
    BY <2>3 DEF Places, Balanced, Holding
  <2> QED BY <2>1, <2>2, <2>3
<1>4. /\ Places(Flat(p), x) # {} => Count(Flat(p), x) # 0
      /\ Places(i, x) # {} => Count(i, x) # 0
      /\ Places(d, x) # {} => Count(d, x) # 0
  BY <1>1, FS_EmptySet DEF Count
<1>5. H[x] > 0
  <2> DEFINE a == Count(Flat(p), x)
             b == Count(i, x)
             c == Count(d, x)
  <2>1. a \in Nat /\ b \in Nat /\ c \in Nat
    BY <1>1
  <2>2. a # 0 \/ b # 0 \/ c # 0 \/ r = x
    BY <1>3, <1>4
  <2>3. H[x] = a + b + c + (IF r = x THEN 1 ELSE 0)
    BY <1>2
  <2> HIDE DEF a, b, c, H
  <2> QED BY <2>1, <2>2, <2>3
<1>6. Counted(m, H)
  BY DEF Balanced
<1> HIDE DEF H
<1>7. m[x].refs = Count(Deps(m), x) + H[x] /\ Count(Deps(m), x) \in Nat /\ H[x] \in Nat
  BY <1>6, DepsFinite DEF Counted
<1>8. m[x].refs # 0 /\ m[x] # Freed
  BY <1>5, <1>6, <1>7 DEF Counted
<1> QED BY <1>5, <1>8 DEF H

\* What a pool holds is alive, and under its slot.
LEMMA StillNamed ==
  ASSUME NEW m, NEW n, NEW p2, NEW i2, NEW r2, NEW d2, Holding(p2, i2, r2, d2), Named(m, p2),
         SameOrFreed(m, n), Counted(n, Holds(p2, i2, r2, d2))
  PROVE  Named(n, p2)
<1> DEFINE G == Holds(p2, i2, r2, d2)
<1>1. ASSUME NEW q \in Pool, NEW s \in Slot, p2[q][s] # 0 PROVE n[p2[q][s]].slot = s
  <2> DEFINE y == p2[q][s]
  <2>1. y \in Thing /\ m[y].slot = s
    BY <1>1, ResourceAssumption DEF Named, Holding, Thing
  <2>2. n[y] = Freed \/ n[y].slot = s
    BY <2>1 DEF SameOrFreed
  <2>3. n[y] # Freed
    <3>1. Count(Flat(p2), y) \in Nat /\ Count(i2, y) \in Nat /\ Count(d2, y) \in Nat
          /\ IsFiniteSet(Places(Flat(p2), y))
      BY <2>1, Finitely
    <3>2. <<q, s>> \in Places(Flat(p2), y)
      BY FlatIs DEF Holding, Places, Flat
    <3>3. Count(Flat(p2), y) # 0
      BY <3>1, <3>2, FS_EmptySet DEF Count
    <3>4. G[y] = Count(Flat(p2), y) + Count(i2, y) + Count(d2, y) + (IF r2 = y THEN 1 ELSE 0)
      BY <2>1 DEF Holds
    <3>5. G[y] > 0
      BY <3>1, <3>3, <3>4
    <3>7. Counted(n, G)
      OBVIOUS
    <3> HIDE DEF G, y
    <3>6. n[y].refs = Count(Deps(n), y) + G[y] /\ Count(Deps(n), y) \in Nat /\ G[y] \in Nat
      BY <2>1, <3>7, DepsFinite DEF Counted
    <3> QED BY <2>1, <3>5, <3>6, <3>7 DEF Counted
  <2> QED BY <2>2, <2>3
<1> QED BY <1>1 DEF Named

\* A holder less, and a release.
LEMMA KeptLess ==
  ASSUME NEW m, NEW p, NEW i, NEW r, NEW d, Balanced(m, p, i, r, d),
         NEW p2, NEW i2, NEW r2, NEW d2, Holding(p2, i2, r2, d2),
         \A q \in Pool, s \in Slot : p2[q][s] = 0 \/ p2[q][s] = p[q][s],
         NEW x \in Thing, Holds(p, i, r, d)[x] > 0,
         \A y \in Thing : Holds(p2, i2, r2, d2)[y]
                          = IF y = x THEN Holds(p, i, r, d)[y] - 1 ELSE Holds(p, i, r, d)[y]
  PROVE  Balanced(Released(m, x), p2, i2, r2, d2)
<1> DEFINE H == Holds(p, i, r, d)
           G == Holds(p2, i2, r2, d2)
           n == Released(m, x)
<1>1. Counted(m, H)
  BY DEF Balanced
<1>2. Counted(n, [H EXCEPT ![x] = @ - 1]) /\ SameOrFreed(m, n)
  BY <1>1, Release
<1>3. G = [H EXCEPT ![x] = @ - 1]
  BY DEF Holds
<1>4. Counted(n, G)
  BY <1>2, <1>3
<1>5. Named(m, p2)
  BY DEF Named, Balanced
<1>6. Named(n, p2)
  BY <1>2, <1>4, <1>5, StillNamed
<1> QED BY <1>4, <1>6 DEF Balanced

\* A holder more of something alive, and a retain.
LEMMA KeptMore ==
  ASSUME NEW m, NEW p, NEW i, NEW r, NEW d, Balanced(m, p, i, r, d),
         NEW i2, NEW r2, NEW d2, Holding(p, i2, r2, d2), NEW x \in Thing, m[x].refs # 0,
         \A y \in Thing : Holds(p, i2, r2, d2)[y]
                          = IF y = x THEN Holds(p, i, r, d)[y] + 1 ELSE Holds(p, i, r, d)[y]
  PROVE  Balanced(Retained(m, x), p, i2, r2, d2)
<1> DEFINE H == Holds(p, i, r, d)
           G == Holds(p, i2, r2, d2)
           n == Retained(m, x)
<1>1. Counted(m, H) /\ Named(m, p)
  BY DEF Balanced
<1>2. Counted(n, [H EXCEPT ![x] = @ + 1]) /\ \A y \in Thing : n[y].slot = m[y].slot
  BY <1>1, Retain
<1>3. G = [H EXCEPT ![x] = @ + 1]
  BY DEF Holds
<1>4. Named(n, p)
  <2> SUFFICES ASSUME NEW q \in Pool, NEW s \in Slot, p[q][s] # 0 PROVE n[p[q][s]].slot = s
    BY DEF Named
  <2>1. p[q][s] \in Thing
    BY ResourceAssumption DEF Holding, Thing
  <2> HIDE DEF n
  <2> QED BY <1>1, <1>2, <2>1 DEF Named
<1> QED BY <1>2, <1>3, <1>4 DEF Balanced

\* A lstg.ParticleSystem lets go of its resource.
LEMMA DataLess ==
  ASSUME NEW m, NEW p, NEW i, NEW r, NEW d, Balanced(m, p, i, r, d), NEW u \in UserData, d[u] # 0
  PROVE  Balanced(Released(m, d[u]), p, i, r, [d EXCEPT ![u] = 0])
<1> DEFINE x == d[u]
           z == [d EXCEPT ![u] = 0]
<1>1. x \in Thing /\ Holding(p, i, r, d) /\ Named(m, p)
  BY ResourceAssumption DEF Balanced, Holding, Thing
<1>2. /\ d \in [UserData -> 0 .. ThingBound] /\ z \in [UserData -> 0 .. ThingBound]
      /\ Beside(d, z, u) /\ z[u] = 0
  BY <1>1, ResourceAssumption DEF Holding, Beside
<1>3. Holding(p, i, r, z)
  BY <1>1, <1>2 DEF Holding
<1>4. Holds(p, i, r, d)[x] > 0
  BY <1>1, Held
<1> HIDE DEF z
<1>5. ASSUME NEW y \in Thing
      PROVE  Holds(p, i, r, z)[y]
               = IF y = x THEN Holds(p, i, r, d)[y] - 1 ELSE Holds(p, i, r, d)[y]
  <2>1. /\ Count(Flat(p), y) \in Nat /\ Count(i, y) \in Nat /\ Count(d, y) \in Nat
        /\ IsFiniteSet(Places(d, y)) /\ y # 0
    BY <1>1, Finitely, ThingIs
  <2>2. /\ Count(z, y) \in Nat /\ (x = y => Count(d, y) > 0)
        /\ (x = y /\ z[u] # y => Count(z, y) = Count(d, y) - 1)
        /\ ((x = y <=> z[u] = y) => Count(z, y) = Count(d, y))
    BY <1>2, <2>1, Recount
  <2>3. Count(z, y) = IF y = x THEN Count(d, y) - 1 ELSE Count(d, y)
    BY <1>2, <2>1, <2>2
  <2> HIDE DEF x
  <2> QED BY <2>1, <2>2, <2>3 DEF Holds
<1>6. \A q \in Pool, s \in Slot : p[q][s] = 0 \/ p[q][s] = p[q][s]
  OBVIOUS
<1>7. Balanced(Released(m, x), p, i, r, z)
  BY <1>1, <1>3, <1>4, <1>5, <1>6, KeptLess
<1> QED BY <1>7 DEF z

\* A particle pool lets go of its resource.
LEMMA InstanceLess ==
  ASSUME NEW m, NEW p, NEW i, NEW r, NEW d, Balanced(m, p, i, r, d), NEW j \in Instance, i[j] # 0
  PROVE  Balanced(Released(m, i[j]), p, [i EXCEPT ![j] = 0], r, d)
<1> DEFINE x == i[j]
           z == [i EXCEPT ![j] = 0]
<1>1. x \in Thing /\ Holding(p, i, r, d) /\ Named(m, p)
  BY ResourceAssumption DEF Balanced, Holding, Thing
<1>2. /\ i \in [Instance -> 0 .. ThingBound] /\ z \in [Instance -> 0 .. ThingBound]
      /\ Beside(i, z, j) /\ z[j] = 0
  BY <1>1, ResourceAssumption DEF Holding, Beside
<1>3. Holding(p, z, r, d)
  BY <1>1, <1>2 DEF Holding
<1>4. Holds(p, i, r, d)[x] > 0
  BY <1>1, Held
<1> HIDE DEF z
<1>5. ASSUME NEW y \in Thing
      PROVE  Holds(p, z, r, d)[y]
               = IF y = x THEN Holds(p, i, r, d)[y] - 1 ELSE Holds(p, i, r, d)[y]
  <2>1. /\ Count(Flat(p), y) \in Nat /\ Count(i, y) \in Nat /\ Count(d, y) \in Nat
        /\ IsFiniteSet(Places(i, y)) /\ y # 0
    BY <1>1, Finitely, ThingIs
  <2>2. /\ Count(z, y) \in Nat /\ (x = y => Count(i, y) > 0)
        /\ (x = y /\ z[j] # y => Count(z, y) = Count(i, y) - 1)
        /\ ((x = y <=> z[j] = y) => Count(z, y) = Count(i, y))
    BY <1>2, <2>1, Recount
  <2>3. Count(z, y) = IF y = x THEN Count(i, y) - 1 ELSE Count(i, y)
    BY <1>2, <2>1, <2>2
  <2> HIDE DEF x
  <2> QED BY <2>1, <2>2, <2>3 DEF Holds
<1>6. \A q \in Pool, s \in Slot : p[q][s] = 0 \/ p[q][s] = p[q][s]
  OBVIOUS
<1>7. Balanced(Released(m, x), p, z, r, d)
  BY <1>1, <1>3, <1>4, <1>5, <1>6, KeptLess
<1> QED BY <1>7 DEF z

\* A lstg.ParticleSystem keeps a resource.
LEMMA DataMore ==
  ASSUME NEW m, NEW p, NEW i, NEW r, NEW d, Balanced(m, p, i, r, d), NEW u \in UserData, d[u] = 0,
         NEW x \in Thing, m[x].refs # 0
  PROVE  Balanced(Retained(m, x), p, i, r, [d EXCEPT ![u] = x])
<1> DEFINE z == [d EXCEPT ![u] = x]
<1>1. Holding(p, i, r, d) /\ Named(m, p)
  BY DEF Balanced
<1>2. /\ d \in [UserData -> 0 .. ThingBound] /\ z \in [UserData -> 0 .. ThingBound]
      /\ Beside(d, z, u) /\ z[u] = x
  BY <1>1, ThingIs DEF Holding, Beside
<1>3. Holding(p, i, r, z)
  BY <1>1, <1>2 DEF Holding
<1> HIDE DEF z
<1>4. ASSUME NEW y \in Thing
      PROVE  Holds(p, i, r, z)[y]
               = IF y = x THEN Holds(p, i, r, d)[y] + 1 ELSE Holds(p, i, r, d)[y]
  <2>1. /\ Count(Flat(p), y) \in Nat /\ Count(i, y) \in Nat /\ Count(d, y) \in Nat
        /\ IsFiniteSet(Places(d, y)) /\ y # 0
    BY <1>1, Finitely, ThingIs
  <2>2. /\ Count(z, y) \in Nat
        /\ (d[u] # y /\ z[u] = y => Count(z, y) = Count(d, y) + 1)
        /\ ((d[u] = y <=> z[u] = y) => Count(z, y) = Count(d, y))
    BY <1>2, <2>1, Recount
  <2>3. Count(z, y) = IF y = x THEN Count(d, y) + 1 ELSE Count(d, y)
    BY <1>2, <2>1, <2>2
  <2> QED BY <2>1, <2>2, <2>3 DEF Holds
<1>5. Balanced(Retained(m, x), p, i, r, z)
  BY <1>1, <1>3, <1>4, KeptMore
<1> QED BY <1>5 DEF z

\* A particle pool keeps a resource.
LEMMA InstanceMore ==
  ASSUME NEW m, NEW p, NEW i, NEW r, NEW d, Balanced(m, p, i, r, d), NEW j \in Instance, i[j] = 0,
         NEW x \in Thing, m[x].refs # 0
  PROVE  Balanced(Retained(m, x), p, [i EXCEPT ![j] = x], r, d)
<1> DEFINE z == [i EXCEPT ![j] = x]
<1>1. Holding(p, i, r, d) /\ Named(m, p)
  BY DEF Balanced
<1>2. /\ i \in [Instance -> 0 .. ThingBound] /\ z \in [Instance -> 0 .. ThingBound]
      /\ Beside(i, z, j) /\ z[j] = x
  BY <1>1, ThingIs DEF Holding, Beside
<1>3. Holding(p, z, r, d)
  BY <1>1, <1>2 DEF Holding
<1> HIDE DEF z
<1>4. ASSUME NEW y \in Thing
      PROVE  Holds(p, z, r, d)[y]
               = IF y = x THEN Holds(p, i, r, d)[y] + 1 ELSE Holds(p, i, r, d)[y]
  <2>1. /\ Count(Flat(p), y) \in Nat /\ Count(i, y) \in Nat /\ Count(d, y) \in Nat
        /\ IsFiniteSet(Places(i, y)) /\ y # 0
    BY <1>1, Finitely, ThingIs
  <2>2. /\ Count(z, y) \in Nat
        /\ (i[j] # y /\ z[j] = y => Count(z, y) = Count(i, y) + 1)
        /\ ((i[j] = y <=> z[j] = y) => Count(z, y) = Count(i, y))
    BY <1>2, <2>1, Recount
  <2>3. Count(z, y) = IF y = x THEN Count(i, y) + 1 ELSE Count(i, y)
    BY <1>2, <2>1, <2>2
  <2> QED BY <2>1, <2>2, <2>3 DEF Holds
<1>5. Balanced(Retained(m, x), p, z, r, d)
  BY <1>1, <1>3, <1>4, KeptMore
<1> QED BY <1>5 DEF z

\* The object lets go of its resource.
LEMMA ObjectLess ==
  ASSUME NEW m, NEW p, NEW i, NEW r, NEW d, Balanced(m, p, i, r, d), r # 0
  PROVE  Balanced(Released(m, r), p, i, 0, d)
<1>1. r \in Thing /\ Holding(p, i, r, d) /\ Named(m, p) /\ Holding(p, i, 0, d)
  BY ResourceAssumption DEF Balanced, Holding, Thing
<1>2. Holds(p, i, r, d)[r] > 0
  BY <1>1, Held
<1>3. ASSUME NEW y \in Thing
      PROVE  Holds(p, i, 0, d)[y] = IF y = r THEN Holds(p, i, r, d)[y] - 1 ELSE Holds(p, i, r, d)[y]
  <2>1. /\ Count(Flat(p), y) \in Nat /\ Count(i, y) \in Nat /\ Count(d, y) \in Nat /\ y # 0
    BY <1>1, Finitely, ThingIs
  <2> QED BY <2>1 DEF Holds
<1>4. \A q \in Pool, s \in Slot : p[q][s] = 0 \/ p[q][s] = p[q][s]
  OBVIOUS
<1> QED BY <1>1, <1>2, <1>3, <1>4, KeptLess

\* The object keeps a resource.
LEMMA ObjectMore ==
  ASSUME NEW m, NEW p, NEW i, NEW d, Balanced(m, p, i, 0, d), NEW x \in Thing, m[x].refs # 0
  PROVE  Balanced(Retained(m, x), p, i, x, d)
<1>1. Holding(p, i, 0, d) /\ Named(m, p) /\ Holding(p, i, x, d)
  BY ThingIs DEF Balanced, Holding
<1>2. ASSUME NEW y \in Thing
      PROVE  Holds(p, i, x, d)[y] = IF y = x THEN Holds(p, i, 0, d)[y] + 1 ELSE Holds(p, i, 0, d)[y]
  <2>1. /\ Count(Flat(p), y) \in Nat /\ Count(i, y) \in Nat /\ Count(d, y) \in Nat /\ y # 0
    BY <1>1, Finitely, ThingIs
  <2> QED BY <2>1 DEF Holds
<1> QED BY <1>1, <1>2, KeptMore

\* A pool lets go of a resource.
LEMMA PlaceLess ==
  ASSUME NEW m, NEW p, NEW i, NEW r, NEW d, Balanced(m, p, i, r, d),
         NEW q \in Pool, NEW s \in Slot, p[q][s] # 0
  PROVE  Balanced(Released(m, p[q][s]), [p EXCEPT ![q][s] = 0], i, r, d)
<1> DEFINE x == p[q][s]
           z == [p EXCEPT ![q][s] = 0]
           e == <<q, s>>
<1>1. x \in Thing /\ Holding(p, i, r, d) /\ Named(m, p)
  BY ResourceAssumption DEF Balanced, Holding, Thing
<1>2. z \in [Pool -> [Slot -> 0 .. ThingBound]]
      /\ \A t \in Pool, v \in Slot : z[t][v] = IF t = q /\ v = s THEN 0 ELSE p[t][v]
  BY <1>1, ResourceAssumption DEF Holding
<1>3. Holding(z, i, r, d)
  BY <1>1, <1>2 DEF Holding
<1>4. Holds(p, i, r, d)[x] > 0
  BY <1>1, Held
<1> HIDE DEF z
<1> DEFINE f == Flat(p)
           g == Flat(z)
<1>5. f \in [Pool \X Slot -> 0 .. ThingBound] /\ g \in [Pool \X Slot -> 0 .. ThingBound]
  BY <1>1, <1>2, FlatIs DEF Holding
<1>6. e \in Pool \X Slot /\ f[e] = x /\ g[e] = 0
  BY <1>1, <1>2, FlatIs DEF Holding
<1>7. Beside(f, g, e)
  <2> SUFFICES ASSUME NEW y \in Pool \X Slot, y # e PROVE g[y] = f[y]
    BY <1>5 DEF Beside
  <2>1. PICK t \in Pool, v \in Slot : y = <<t, v>>
    OBVIOUS
  <2>2. ~ (t = q /\ v = s)
    BY <2>1
  <2>3. f[y] = p[t][v] /\ g[y] = z[t][v]
    BY <1>1, <1>2, <2>1, FlatIs DEF Holding
  <2> QED BY <1>2, <2>2, <2>3
<1> HIDE DEF f, g, e
<1>8. ASSUME NEW y \in Thing
      PROVE  Holds(z, i, r, d)[y]
               = IF y = x THEN Holds(p, i, r, d)[y] - 1 ELSE Holds(p, i, r, d)[y]
  <2>1. /\ Count(f, y) \in Nat /\ Count(i, y) \in Nat /\ Count(d, y) \in Nat
        /\ IsFiniteSet(Places(f, y)) /\ y # 0
    BY <1>1, Finitely, ThingIs DEF f
  <2>2. /\ Count(g, y) \in Nat /\ (f[e] = y => Count(f, y) > 0)
        /\ (f[e] = y /\ g[e] # y => Count(g, y) = Count(f, y) - 1)
        /\ ((f[e] = y <=> g[e] = y) => Count(g, y) = Count(f, y))
    BY <1>5, <1>6, <1>7, <2>1, Recount
  <2>3. Count(g, y) = IF y = x THEN Count(f, y) - 1 ELSE Count(f, y)
    BY <1>6, <2>1, <2>2
  <2>4. /\ Holds(z, i, r, d)[y] = Count(g, y) + Count(i, y) + Count(d, y) + (IF r = y THEN 1 ELSE 0)
        /\ Holds(p, i, r, d)[y] = Count(f, y) + Count(i, y) + Count(d, y) + (IF r = y THEN 1 ELSE 0)
    BY DEF Holds, f, g
  <2> HIDE DEF x
  <2> QED BY <2>1, <2>2, <2>3, <2>4
<1>9. \A t \in Pool, v \in Slot : z[t][v] = 0 \/ z[t][v] = p[t][v]
  BY <1>2
<1>10. Balanced(Released(m, x), z, i, r, d)
  BY <1>1, <1>3, <1>4, <1>8, <1>9, KeptLess
<1> QED BY <1>10 DEF z

\* The release of a set, each member of which has other holders than resources.
LEMMA ReleaseAll ==
  ASSUME NEW m, NEW H, Counted(m, H), NEW S \in SUBSET Thing, \A x \in S : H[x] > 0,
         NEW G \in [Thing -> Nat],
         \A y \in Thing : G[y] = IF y \in S THEN H[y] - 1 ELSE H[y]
  PROVE  Counted(ReleasedAll(m, S), G) /\ SameOrFreed(m, ReleasedAll(m, S))
<1> DEFINE gone    == {x \in S : m[x].refs = 1}
           out(y)  == {z \in gone : m[z].dep = y}
           left(y) == m[y].refs - (IF y \in S THEN 1 ELSE 0) - Cardinality(out(y))
           n       == ReleasedAll(m, S)
<1>1. \A y \in Thing : n[y] = IF left(y) = 0 THEN Freed ELSE [m[y] EXCEPT !.refs = left(y)]
  BY DEF ReleasedAll
<1>2. n = [y \in Thing |-> n[y]]
  BY DEF ReleasedAll
<1>3. /\ m \in [Thing -> Resource] /\ H \in [Thing -> Nat]
      /\ \A y \in Thing : m[y].refs = Count(Deps(m), y) + H[y] /\ (m[y] = Freed <=> m[y].refs = 0)
      /\ \A y \in Thing : m[y].dep # 0 => m[m[y].dep].dep = 0
  BY DEF Counted
<1>4. \A y \in Thing : /\ m[y].refs \in Nat /\ m[y].dep \in 0 .. ThingBound /\ H[y] \in Nat
                       /\ Count(Deps(m), y) \in Nat /\ IsFiniteSet(Places(Deps(m), y))
  BY <1>3, DepsFinite DEF Resource
<1>5. ASSUME NEW y \in Thing
      PROVE  /\ out(y) \subseteq Places(Deps(m), y) /\ IsFiniteSet(out(y)) /\ Cardinality(out(y)) \in Nat
             /\ Cardinality(out(y)) <= Count(Deps(m), y)
             /\ (Count(Deps(m), y) = 0 => Cardinality(out(y)) = 0)
  <2>1. out(y) \subseteq Places(Deps(m), y)
    BY DEF Places, Deps
  <2> HIDE DEF out
  <2>2. IsFiniteSet(out(y)) /\ Cardinality(out(y)) <= Cardinality(Places(Deps(m), y))
    BY <1>4, <2>1, FS_Subset
  <2>3. Cardinality(out(y)) \in Nat
    BY <2>2, FS_CardinalityType
  <2> QED BY <1>4, <2>1, <2>2, <2>3 DEF Count
<1> HIDE DEF out, n
<1>6. \A y \in gone : left(y) = 0
  <2> SUFFICES ASSUME NEW y \in gone PROVE left(y) = 0
    OBVIOUS
  <2>1. y \in Thing /\ y \in S /\ m[y].refs = 1 /\ H[y] > 0
    OBVIOUS
  <2>2. Count(Deps(m), y) = 0
    BY <1>3, <1>4, <2>1
  <2> QED BY <1>5, <2>1, <2>2
<1>7. ASSUME NEW y \in Thing, y \notin gone, m[y].dep # 0 PROVE left(y) # 0
  <2>1. \A w \in Thing : m[w].dep # y
    BY <1>3, <1>7, ThingIs
  <2>2. Count(Deps(m), y) = 0
    BY <1>3, <2>1, NoDeps
  <2>3. Cardinality(out(y)) = 0
    BY <1>5, <2>2
  <2>4. m[y].refs # 0
    BY <1>3, <1>7, FreedIs
  <2> QED BY <1>4, <1>7, <2>3, <2>4
<1> HIDE DEF left
<1>8. \A y \in Thing : n[y].dep = IF y \in gone THEN 0 ELSE m[y].dep
  <2> SUFFICES ASSUME NEW y \in Thing PROVE n[y].dep = IF y \in gone THEN 0 ELSE m[y].dep
    OBVIOUS
  <2>1. m[y] \in Resource
    BY <1>3
  <2>2. CASE left(y) = 0
    BY <1>1, <1>7, <2>2, FreedIs
  <2>3. CASE left(y) # 0
    <3>1. n[y].dep = m[y].dep
      BY <1>1, <2>1, <2>3 DEF Resource
    <3> QED BY <1>6, <2>3, <3>1
  <2> QED BY <2>2, <2>3
<1>9. ASSUME NEW y \in Thing
      PROVE  Count(Deps(n), y) = Count(Deps(m), y) - Cardinality(out(y)) /\ Count(Deps(n), y) \in Nat
  <2>1. Places(Deps(n), y) = Places(Deps(m), y) \ out(y)
    BY <1>8, ThingIs DEF Places, Deps, out
  <2>2. Places(Deps(m), y) \cap out(y) = out(y)
    BY <1>5
  <2>3. Cardinality(Places(Deps(m), y) \ out(y)) = Cardinality(Places(Deps(m), y)) - Cardinality(out(y))
    BY <1>4, <2>2, FS_Difference
  <2> QED BY <1>4, <1>5, <2>1, <2>3 DEF Count
<1>10. ASSUME NEW y \in Thing PROVE left(y) = Count(Deps(n), y) + G[y] /\ left(y) \in Nat
  <2>1. left(y) = m[y].refs - (IF y \in S THEN 1 ELSE 0) - Cardinality(out(y))
    BY DEF left
  <2>2. m[y].refs = Count(Deps(m), y) + H[y] /\ Cardinality(out(y)) \in Nat
    BY <1>3, <1>5
  <2>3. G[y] \in Nat /\ G[y] = IF y \in S THEN H[y] - 1 ELSE H[y]
    OBVIOUS
  <2> QED BY <1>4, <1>9, <2>1, <2>2, <2>3
<1>11. ASSUME NEW y \in Thing
       PROVE  /\ n[y] \in Resource /\ n[y].refs = left(y) /\ (n[y] = Freed <=> n[y].refs = 0)
              /\ (n[y] = Freed \/ n[y].slot = m[y].slot)
  <2>1. m[y] \in Resource /\ left(y) \in Nat
    BY <1>3, <1>10
  <2>2. CASE left(y) = 0
    BY <1>1, <2>2, FreedIs
  <2>3. CASE left(y) # 0
    <3>1. n[y] = [m[y] EXCEPT !.refs = left(y)]
      BY <1>1, <2>3
    <3>2. n[y] \in Resource /\ n[y].refs = left(y) /\ n[y].slot = m[y].slot
      BY <2>1, <3>1 DEF Resource
    <3> QED BY <2>3, <3>2, FreedIs
  <2> QED BY <2>2, <2>3
<1>12. n \in [Thing -> Resource]
  BY <1>2, <1>11
<1>13. SameOrFreed(m, n)
  BY <1>11 DEF SameOrFreed
<1>14. \A y \in Thing : n[y].dep = 0 \/ n[y].dep = m[y].dep
  BY <1>8
<1>15. \A y \in Thing : n[y].refs = Count(Deps(n), y) + G[y] /\ (n[y] = Freed <=> n[y].refs = 0)
  BY <1>10, <1>11
<1>16. Counted(n, G)
  BY <1>12, <1>13, <1>14, <1>15, CountedNow
<1> QED BY <1>13, <1>16 DEF n

\* A pool lets go of everything.
LEMMA PoolCleared ==
  ASSUME NEW m, NEW p, NEW i, NEW r, NEW d, Balanced(m, p, i, r, d), NEW q \in Pool
  PROVE  Balanced(ReleasedAll(m, {p[q][s] : s \in Slot} \ {0}),
              [p EXCEPT ![q] = [s \in Slot |-> 0]], i, r, d)
<1> DEFINE S == {p[q][s] : s \in Slot} \ {0}
           z == [p EXCEPT ![q] = [s \in Slot |-> 0]]
           f == Flat(p)
           g == Flat(z)
           H == Holds(p, i, r, d)
           G == Holds(z, i, r, d)
           n == ReleasedAll(m, S)
<1>1. Holding(p, i, r, d) /\ Named(m, p) /\ Counted(m, H)
  BY DEF Balanced
<1>2. z \in [Pool -> [Slot -> 0 .. ThingBound]]
      /\ \A t \in Pool, v \in Slot : z[t][v] = IF t = q THEN 0 ELSE p[t][v]
  <2>1. [s \in Slot |-> 0] \in [Slot -> 0 .. ThingBound]
    BY ResourceAssumption
  <2> QED BY <1>1, <2>1 DEF Holding
<1> HIDE DEF z
<1>3. Holding(z, i, r, d) /\ Named(m, z)
  BY <1>1, <1>2 DEF Holding, Named
<1>4. S \in SUBSET Thing /\ \A x \in S : H[x] > 0
  <2>1. S \in SUBSET Thing
    BY <1>1, ResourceAssumption DEF Holding, Thing
  <2> QED BY <2>1, Held
<1>5. ASSUME NEW y \in Thing
      PROVE  G[y] = (IF y \in S THEN H[y] - 1 ELSE H[y]) /\ G[y] \in Nat
  <2> DEFINE e == <<q, m[y].slot>>
             P == Places(f, y)
  <2>1. /\ Count(f, y) \in Nat /\ Count(i, y) \in Nat /\ Count(d, y) \in Nat
        /\ IsFiniteSet(P) /\ y # 0 /\ Count(g, y) \in Nat
    BY <1>1, <1>3, Finitely, ThingIs
  <2>2. y \in S <=> e \in P
    <3>1. ASSUME NEW s \in Slot, p[q][s] = y PROVE e \in P
      <4>1. m[y].slot = s
        BY <1>1, <2>1, <3>1 DEF Named
      <4>2. f[<<q, s>>] = y /\ <<q, s>> \in DOMAIN f
        BY <1>1, <3>1, FlatIs DEF Holding
      <4> QED BY <4>1, <4>2 DEF Places
    <3>2. ASSUME e \in P PROVE y \in S
      <4>1. e \in Pool \X Slot /\ f[e] = y
        BY <3>2 DEF Places, Flat
      <4>2. m[y].slot \in Slot /\ f[e] = p[q][m[y].slot]
        BY <1>1, <4>1, FlatIs DEF Holding
      <4> QED BY <2>1, <4>1, <4>2
    <3> QED BY <3>1, <3>2
  <2>3. Places(g, y) = P \ {e}
    <3>1. ASSUME NEW w \in Pool \X Slot PROVE g[w] = y <=> f[w] = y /\ w # e
      <4>1. PICK t \in Pool, v \in Slot : w = <<t, v>>
        OBVIOUS
      <4>2. f[w] = p[t][v] /\ g[w] = z[t][v]
        BY <1>1, <1>3, <4>1, FlatIs DEF Holding
      <4>3. w = e <=> t = q /\ v = m[y].slot
        BY <4>1
      <4>4. p[t][v] = y => v = m[y].slot
        BY <1>1, <2>1 DEF Named
      <4> QED BY <1>2, <2>1, <4>2, <4>3, <4>4
    <3>2. DOMAIN f = Pool \X Slot /\ DOMAIN g = Pool \X Slot
      BY DEF Flat
    <3> HIDE DEF f, g, e
    <3> QED BY <3>1, <3>2 DEF Places
  <2> HIDE DEF P, e, S
  <2>4. Cardinality(P \ {e}) = IF e \in P THEN Cardinality(P) - 1 ELSE Cardinality(P)
    BY <2>1, FS_RemoveElement
  <2>5. Count(g, y) = IF y \in S THEN Count(f, y) - 1 ELSE Count(f, y)
    BY <2>2, <2>3, <2>4 DEF Count, P
  <2>6. /\ G[y] = Count(g, y) + Count(i, y) + Count(d, y) + (IF r = y THEN 1 ELSE 0)
        /\ H[y] = Count(f, y) + Count(i, y) + Count(d, y) + (IF r = y THEN 1 ELSE 0)
    BY DEF Holds
  <2> HIDE DEF f, g, H, G
  <2> QED BY <2>1, <2>5, <2>6
<1>6. G \in [Thing -> Nat]
  <2>1. G = [y \in Thing |-> G[y]]
    BY DEF Holds
  <2> HIDE DEF G
  <2> QED BY <1>5, <2>1
<1> HIDE DEF S, H, G
<1>7. Counted(n, G) /\ SameOrFreed(m, n)
  BY <1>1, <1>4, <1>5, <1>6, ReleaseAll
<1>8. Named(n, z)
  BY <1>3, <1>7, StillNamed DEF G
<1> QED BY <1>3, <1>7, <1>8 DEF Balanced, G, S, z

\* A resource is made, of something alive that is made of nothing, and a pool
\* keeps it.
LEMMA ThingLoaded ==
  ASSUME NEW m, NEW p, NEW i, NEW r, NEW d, Balanced(m, p, i, r, d),
         NEW q \in Pool, NEW s \in Slot, p[q][s] = 0, NEW x \in Thing, m[x] = Freed,
         NEW dep \in 0 .. ThingBound, s.kind = "texture" => dep = 0,
         dep # 0 => m[dep].refs # 0 /\ m[dep].dep = 0
  PROVE  Balanced(Retained([m EXCEPT ![x] = [slot |-> s, refs |-> 1, dep |-> dep]], dep),
              [p EXCEPT ![q][s] = x], i, r, d)
<1> DEFINE new == [slot |-> s, refs |-> 1, dep |-> dep]
           o == [m EXCEPT ![x] = new]
           n == Retained(o, dep)
           z == [p EXCEPT ![q][s] = x]
           e == <<q, s>>
           f == Flat(p)
           g == Flat(z)
           H == Holds(p, i, r, d)
           G == Holds(z, i, r, d)
<1>1. Holding(p, i, r, d) /\ Named(m, p) /\ Counted(m, H)
  BY DEF Balanced
<1>2. /\ m \in [Thing -> Resource] /\ H \in [Thing -> Nat]
      /\ \A y \in Thing : m[y].refs = Count(Deps(m), y) + H[y] /\ (m[y] = Freed <=> m[y].refs = 0)
      /\ \A y \in Thing : m[y].dep # 0 => m[m[y].dep].dep = 0
      /\ \A y \in Thing : m[y].slot.kind = "texture" => m[y].dep = 0
  BY <1>1 DEF Counted
<1>3. \A y \in Thing : /\ m[y].refs \in Nat /\ m[y].dep \in 0 .. ThingBound /\ H[y] \in Nat
                       /\ Count(Deps(m), y) \in Nat /\ IsFiniteSet(Places(Deps(m), y))
  BY <1>2, DepsFinite DEF Resource
<1>4. H[x] = 0 /\ Count(Deps(m), x) = 0 /\ m[x].dep = 0
  BY <1>2, <1>3, FreedIs
<1>5. \A y \in Thing : m[y].dep # x
  BY <1>2, <1>4, NoDeps
<1>6. dep # 0 => dep \in Thing /\ dep # x
  BY FreedIs, ResourceAssumption DEF Thing
\* The functions after it.
<1>7. o \in [Thing -> Resource] /\ \A y \in Thing : o[y] = IF y = x THEN new ELSE m[y]
  <2>1. new \in Resource
    BY DEF Resource
  <2> HIDE DEF new
  <2> QED BY <1>2, <2>1
<1>8. new.slot = s /\ new.refs = 1 /\ new.dep = dep /\ new.refs # 0
  OBVIOUS
<1> HIDE DEF new, o
<1>9. /\ n \in [Thing -> Resource]
      /\ \A y \in Thing : /\ n[y].slot = o[y].slot /\ n[y].dep = o[y].dep
                           /\ n[y].refs = o[y].refs + (IF y = dep THEN 1 ELSE 0)
                           /\ (y # dep => n[y] = o[y])
  <2>1. CASE dep = 0
    <3>1. n = o
      BY <2>1 DEF Retained
    <3>2. \A y \in Thing : y # dep /\ o[y].refs \in Nat
      BY <1>7, <2>1, ThingIs DEF Resource
    <3> QED BY <1>7, <3>1, <3>2
  <2>2. CASE dep # 0
    <3>1. n = [o EXCEPT ![dep].refs = @ + 1]
      BY <2>2 DEF Retained
    <3>2. dep \in Thing /\ o[dep] \in Resource /\ o[dep].refs + 1 \in Nat
      BY <1>6, <1>7, <2>2 DEF Resource
    <3>3. \A y \in Thing : o[y].refs \in Nat
      BY <1>7 DEF Resource
    <3>4. n[dep] = [o[dep] EXCEPT !.refs = @ + 1] /\ \A y \in Thing : y # dep => n[y] = o[y]
      BY <1>7, <3>1, <3>2
    <3>5. n[dep] \in Resource /\ n[dep].slot = o[dep].slot /\ n[dep].dep = o[dep].dep
          /\ n[dep].refs = o[dep].refs + 1
      BY <3>2, <3>4 DEF Resource
    <3>6. n \in [Thing -> Resource]
      BY <1>7, <3>1, <3>4, <3>5
    <3> HIDE DEF n
    <3>7. ASSUME NEW y \in Thing
          PROVE  /\ n[y].slot = o[y].slot /\ n[y].dep = o[y].dep
                 /\ n[y].refs = o[y].refs + (IF y = dep THEN 1 ELSE 0)
                 /\ (y # dep => n[y] = o[y])
      <4>1. CASE y = dep
        BY <3>5, <4>1
      <4>2. CASE y # dep
        BY <3>3, <3>4, <4>2
      <4> QED BY <4>1, <4>2
    <3> QED BY <3>6, <3>7
  <2> QED BY <2>1, <2>2
<1> HIDE DEF n
<1>10. Holding(z, i, r, d) /\ \A t \in Pool, v \in Slot : z[t][v] = IF t = q /\ v = s THEN x ELSE p[t][v]
  BY <1>1, ThingIs DEF Holding
<1> HIDE DEF z
<1>11. /\ f \in [Pool \X Slot -> 0 .. ThingBound] /\ g \in [Pool \X Slot -> 0 .. ThingBound]
       /\ e \in Pool \X Slot /\ f[e] = 0 /\ g[e] = x
  <2>1. f \in [Pool \X Slot -> 0 .. ThingBound] /\ f[e] = p[q][s]
    BY <1>1, FlatIs DEF Holding
  <2>2. g \in [Pool \X Slot -> 0 .. ThingBound] /\ g[e] = z[q][s]
    BY <1>10, FlatIs DEF Holding
  <2>3. e \in Pool \X Slot
    OBVIOUS
  <2> QED BY <1>10, <2>1, <2>2, <2>3
<1>12. Beside(f, g, e)
  <2> SUFFICES ASSUME NEW y \in Pool \X Slot, y # e PROVE g[y] = f[y]
    BY <1>11 DEF Beside
  <2>1. PICK t \in Pool, v \in Slot : y = <<t, v>>
    OBVIOUS
  <2>2. ~ (t = q /\ v = s)
    BY <2>1
  <2>3. f[y] = p[t][v]
    BY <1>1, <2>1, FlatIs DEF Holding
  <2>4. g[y] = z[t][v]
    BY <1>10, <2>1, FlatIs DEF Holding
  <2> QED BY <1>10, <2>2, <2>3, <2>4
<1> HIDE DEF f, g, e
<1>13. ASSUME NEW y \in Thing
       PROVE  G[y] = (IF y = x THEN H[y] + 1 ELSE H[y]) /\ G[y] \in Nat
  <2>1. /\ Count(f, y) \in Nat /\ Count(i, y) \in Nat /\ Count(d, y) \in Nat
        /\ IsFiniteSet(Places(f, y)) /\ y # 0
    BY <1>1, Finitely, ThingIs DEF f
  <2>2. /\ Count(g, y) \in Nat
        /\ (f[e] # y /\ g[e] = y => Count(g, y) = Count(f, y) + 1)
        /\ ((f[e] = y <=> g[e] = y) => Count(g, y) = Count(f, y))
    BY <1>11, <1>12, <2>1, Recount
  <2>3. Count(g, y) = IF y = x THEN Count(f, y) + 1 ELSE Count(f, y)
    BY <1>11, <2>1, <2>2
  <2>4. /\ G[y] = Count(g, y) + Count(i, y) + Count(d, y) + (IF r = y THEN 1 ELSE 0)
        /\ H[y] = Count(f, y) + Count(i, y) + Count(d, y) + (IF r = y THEN 1 ELSE 0)
    BY DEF f, g, Holds
  <2> HIDE DEF G, H
  <2> QED BY <2>1, <2>2, <2>3, <2>4
<1>14. G \in [Thing -> Nat]
  <2>1. G = [y \in Thing |-> G[y]]
    BY DEF Holds
  <2> HIDE DEF G
  <2> QED BY <1>13, <2>1
<1> HIDE DEF G, H
<1>15. ASSUME NEW y \in Thing
       PROVE  /\ Count(Deps(n), y) \in Nat
              /\ Count(Deps(n), y) = IF y = dep THEN Count(Deps(m), y) + 1 ELSE Count(Deps(m), y)
  <2> DEFINE a == Deps(m)
             b == Deps(n)
  <2>1. a[x] = 0 /\ b[x] = dep /\ Beside(a, b, x)
    BY <1>4, <1>7, <1>8, <1>9 DEF Deps, Beside
  <2>2. a \in [Thing -> 0 .. ThingBound] /\ b \in [Thing -> 0 .. ThingBound]
        /\ IsFiniteSet(Places(a, y)) /\ Count(a, y) \in Nat /\ y # 0
    BY <1>2, <1>9, DepsFinite, ThingIs
  <2> HIDE DEF a, b
  <2>3. /\ Count(b, y) \in Nat
        /\ (a[x] # y /\ b[x] = y => Count(b, y) = Count(a, y) + 1)
        /\ ((a[x] = y <=> b[x] = y) => Count(b, y) = Count(a, y))
    BY <2>1, <2>2, Recount
  <2> QED BY <2>1, <2>2, <2>3 DEF a, b
<1>16. ASSUME NEW y \in Thing
       PROVE  n[y].refs = Count(Deps(n), y) + G[y] /\ (n[y] = Freed <=> n[y].refs = 0)
  <2>1. CASE y = x
    <3>1. n[y].refs = 1 /\ Count(Deps(n), y) = 0 /\ G[y] = 1
      BY <1>4, <1>6, <1>7, <1>8, <1>9, <1>13, <1>15, <2>1, ThingIs
    <3> QED BY <3>1, FreedIs
  <2>2. CASE y # x
    <3>1. n[y].refs = m[y].refs + (IF y = dep THEN 1 ELSE 0) /\ (y # dep => n[y] = m[y])
      BY <1>7, <1>9, <2>2
    <3>2. n[y].refs = Count(Deps(n), y) + G[y]
      BY <1>2, <1>3, <1>13, <1>15, <2>2, <3>1
    <3>3. y = dep => n[y].refs # 0 /\ n[y] # Freed
      BY <1>3, <3>1, FreedIs
    <3>4. y # dep => (n[y] = Freed <=> n[y].refs = 0)
      BY <1>2, <3>1
    <3> QED BY <3>2, <3>3, <3>4
  <2> QED BY <2>1, <2>2
<1>17. ASSUME NEW y \in Thing
       PROVE  (n[y].dep # 0 => n[n[y].dep].dep = 0) /\ (n[y].slot.kind = "texture" => n[y].dep = 0)
  <2>1. CASE y = x
    <3>1. n[y].dep = dep /\ n[y].slot = s
      BY <1>7, <1>8, <1>9, <2>1
    <3>2. dep # 0 => n[dep].dep = m[dep].dep
      BY <1>6, <1>7, <1>9
    <3> QED BY <3>1, <3>2
  <2>2. CASE y # x
    <3>1. n[y].dep = m[y].dep /\ n[y].slot = m[y].slot
      BY <1>7, <1>9, <2>2
    <3>2. m[y].dep # 0 => m[y].dep \in Thing /\ m[y].dep # x
      BY <1>3, <1>5, ResourceAssumption DEF Thing
    <3>3. m[y].dep # 0 => n[m[y].dep].dep = m[m[y].dep].dep
      BY <1>7, <1>9, <3>2
    <3> QED BY <1>2, <3>1, <3>3
  <2> QED BY <2>1, <2>2
<1>18. Counted(n, G)
  BY <1>9, <1>14, <1>16, <1>17 DEF Counted
<1>19. Named(n, z)
  <2> SUFFICES ASSUME NEW t \in Pool, NEW v \in Slot, z[t][v] # 0 PROVE n[z[t][v]].slot = v
    BY DEF Named
  <2>1. CASE t = q /\ v = s
    BY <1>7, <1>8, <1>9, <1>10, <2>1
  <2>2. CASE ~ (t = q /\ v = s)
    <3> DEFINE y == p[t][v]
    <3>1. z[t][v] = y /\ y # 0
      BY <1>10, <2>2
    <3>2. y \in Thing /\ m[y].slot = v
      BY <1>1, <3>1, ResourceAssumption DEF Holding, Named, Thing
    <3>3. m[y] # Freed
      BY <3>2, Held
    <3>4. y # x
      BY <3>3
    <3> HIDE DEF y
    <3> QED BY <1>7, <1>9, <3>1, <3>2, <3>4
  <2> QED BY <2>1, <2>2
<1> QED BY <1>10, <1>18, <1>19 DEF Balanced, G, n, z, o, new

------------------------------------------------------------------------------
Res(d) == [u \in UserData |-> d[u].res]

ObjectRecord == [alive : BOOLEAN, render : BOOLEAN, res : 0 .. ThingBound,
                 ps : 0 .. InstanceBound, rc : 0 .. UserDataBound]
DataRecord   == [res : 0 .. ThingBound, ptr : 0 .. InstanceBound, held : BOOLEAN]

\* Who owns each particle pool: the object o, whose own binding points at its
\* pool, or the one lstg.ParticleSystem that a script made.
Owning(i, o, d) ==
  /\ i \in [Instance -> 0 .. ThingBound] /\ o \in ObjectRecord /\ d \in [UserData -> DataRecord]
  /\ ~ o.alive => o.res = 0 /\ o.ps = 0 /\ o.rc = 0
  /\ o.ps # 0 => o.res # 0 /\ i[o.ps] = o.res
  /\ o.rc # 0 => o.ps # 0 /\ d[o.rc].ptr = o.ps /\ d[o.rc].res = o.res
  /\ \A u \in UserData : d[u].ptr = 0 <=> d[u].res = 0
  /\ \A u \in UserData : u # o.rc /\ d[u].ptr # 0 => i[d[u].ptr] = d[u].res /\ d[u].ptr # o.ps
  /\ \A u, v \in UserData :
       u # o.rc /\ v # o.rc /\ d[u].ptr # 0 /\ d[u].ptr = d[v].ptr => u = v
  /\ \A j \in Instance : i[j] # 0 => o.ps = j \/ \E u \in UserData : u # o.rc /\ d[u].ptr = j

PoolsIInv ==
  /\ Owning(instances, object, userdata) /\ m_ActivedPool \in Pool \cup {"none"}
  /\ Balanced(things, pools, instances, object.res, Res(userdata))

LEMMA ReleaseNothing == \A m : Released(m, 0) = m
BY DEF Released, Dropped

LEMMA ResIs ==
  ASSUME NEW d \in [UserData -> DataRecord]
  PROVE  /\ Res(d) \in [UserData -> 0 .. ThingBound]
         /\ \A u \in UserData : Res(d)[u] = d[u].res
         /\ \A u \in UserData, e \in DataRecord :
              Res([d EXCEPT ![u] = e]) = [Res(d) EXCEPT ![u] = e.res]
<1>1. \A u \in UserData : d[u] \in DataRecord /\ d[u].res \in 0 .. ThingBound
  BY DEF DataRecord
<1> QED BY <1>1 DEF Res

LEMMA IndexIs ==
  /\ \A j : j \in Instance <=> j \in 0 .. InstanceBound /\ j # 0
  /\ \A u : u \in UserData <=> u \in 0 .. UserDataBound /\ u # 0
  /\ \A x : x \in Thing <=> x \in 0 .. ThingBound /\ x # 0
  /\ 0 \in 0 .. InstanceBound /\ 0 \in 0 .. UserDataBound /\ 0 \in 0 .. ThingBound
BY ResourceAssumption DEF Instance, UserData, Thing

\* A resource that a script finds is there, of the kind it looks for.
LEMMA Found ==
  ASSUME PoolsIInv, NEW kind, NEW name, Find(kind, name) # 0
  PROVE  /\ Find(kind, name) \in Thing /\ things[Find(kind, name)].refs # 0
         /\ things[Find(kind, name)].slot.kind = kind
         /\ \E q \in Pool, s \in Slot : pools[q][s] = Find(kind, name)
<1> DEFINE found(p) == {pools[p][s] : s \in {t \in Slot : t.kind = kind /\ t.name = name}} \ {0}
           one(S) == IF S = {} THEN 0 ELSE CHOOSE x \in S : TRUE
           x == Find(kind, name)
<1>1. x = IF found("stage") # {} THEN one(found("stage")) ELSE one(found("global"))
  BY DEF Find
<1>2. \A S : S # {} => one(S) \in S
  OBVIOUS
<1>3. x \in found("stage") \/ x \in found("global")
  <2> HIDE DEF x, found
  <2>1. CASE found("stage") # {}
    BY <1>1, <1>2, <2>1
  <2>2. CASE found("stage") = {}
    <3>1. x = one(found("global"))
      BY <1>1, <2>2
    <3>2. found("global") # {}
      BY <3>1 DEF x
    <3> QED BY <1>2, <3>1, <3>2
  <2> QED BY <2>1, <2>2
<1> HIDE DEF x
<1>4. PICK q \in Pool, s \in Slot : s.kind = kind /\ pools[q][s] = x /\ x # 0
  BY <1>3 DEF Pool
<1>5. /\ Holding(pools, instances, object.res, Res(userdata)) /\ Named(things, pools)
      /\ Balanced(things, pools, instances, object.res, Res(userdata))
  BY DEF PoolsIInv, Balanced
<1>6. x \in Thing /\ things[x].slot = s
  BY <1>4, <1>5, IndexIs DEF Holding, Named
<1>7. things[x].refs # 0
  BY <1>4, <1>5, <1>6, Held
<1> QED BY <1>4, <1>6, <1>7 DEF x

\* What the object keeps, in the words of Owning.
LEMMA ObjectIs ==
  ASSUME PoolsIInv
  PROVE  /\ object \in ObjectRecord /\ object.res \in 0 .. ThingBound
         /\ object.ps \in 0 .. InstanceBound /\ object.rc \in 0 .. UserDataBound
         /\ object.ps # 0 => object.ps \in Instance /\ object.res # 0 /\ instances[object.ps] = object.res
         /\ object.rc # 0 => object.rc \in UserData /\ userdata[object.rc].res = object.res
                             /\ object.res # 0 /\ userdata[object.rc].ptr = object.ps
         /\ instances \in [Instance -> 0 .. ThingBound]
         /\ \A u \in UserData : /\ userdata[u] \in DataRecord /\ userdata[u].res \in 0 .. ThingBound
                                /\ userdata[u].ptr \in 0 .. InstanceBound
BY IndexIs DEF PoolsIInv, Owning, ObjectRecord, DataRecord

\* The binding goes with the reference it had, and points nowhere.
LEMMA Unbinding ==
  ASSUME PoolsIInv
  PROVE  /\ Balanced(WithoutBinding(things, object), pools, instances, object.res, Res(UnboundOf(object)))
         /\ UnboundOf(object) \in [UserData -> DataRecord]
         /\ \A u \in UserData : UnboundOf(object)[u].held = userdata[u].held
         /\ \A u \in UserData : u # object.rc => UnboundOf(object)[u] = userdata[u]
         /\ object.rc # 0 => UnboundOf(object)[object.rc].res = 0 /\ UnboundOf(object)[object.rc].ptr = 0
<1> DEFINE d == Res(userdata)
           c == object.rc
           z == UnboundOf(object)
<1>1. Balanced(things, pools, instances, object.res, d) /\ userdata \in [UserData -> DataRecord]
  BY DEF PoolsIInv, Owning
<1>2. CASE c = 0
  BY <1>1, <1>2, IndexIs DEF WithoutBinding, UnboundOf
<1>3. CASE c # 0
  <2> DEFINE e == [userdata[c] EXCEPT !.res = 0, !.ptr = 0]
  <2>1. c \in UserData /\ userdata[c].res = object.res /\ object.res # 0
    BY <1>3, ObjectIs
  <2>2. userdata[c] \in DataRecord
    BY <1>1, <2>1
  <2>3. e \in DataRecord /\ e.res = 0 /\ e.ptr = 0 /\ e.held = userdata[c].held
    BY <2>2, IndexIs DEF DataRecord
  <2>4. z = [userdata EXCEPT ![c] = e]
    BY <1>1, <1>3, <2>1, <2>2 DEF UnboundOf, Unbound, DataRecord
  <2>5. d[c] = userdata[c].res
    BY <1>1, <2>1, ResIs
  <2>6. Balanced(Released(things, d[c]), pools, instances, object.res, [d EXCEPT ![c] = 0])
    BY <1>1, <2>1, <2>5, DataLess
  <2>7. Res(z) = [d EXCEPT ![c] = 0]
    <3> HIDE DEF e, z, c
    <3>1. \A u \in UserData, a \in DataRecord :
            Res([userdata EXCEPT ![u] = a]) = [Res(userdata) EXCEPT ![u] = a.res]
      BY <1>1, ResIs
    <3>2. Res([userdata EXCEPT ![c] = e]) = [Res(userdata) EXCEPT ![c] = e.res]
      BY <2>1, <2>3, <3>1, Zenon
    <3> QED BY <2>3, <2>4, <3>2
  <2>8. WithoutBinding(things, object) = Released(things, d[c])
    BY <1>3, <2>5 DEF WithoutBinding
  <2>9. z \in [UserData -> DataRecord] /\ z[c] = e /\ \A u \in UserData : u # c => z[u] = userdata[u]
    <3> HIDE DEF e, z
    <3> QED BY <1>1, <2>1, <2>3, <2>4
  <2>10. \A u \in UserData : z[u].held = userdata[u].held
    BY <2>3, <2>9
  <2> QED BY <2>3, <2>6, <2>7, <2>8, <2>9, <2>10
<1> QED BY <1>2, <1>3

\* ReleaseResource, whatever the object had: nothing of it is left behind.
LEMMA Spare ==
  ASSUME PoolsIInv
  PROVE  Balanced(Spared(object), pools, WithoutInstance(object), 0, Res(UnboundOf(object)))
<1> DEFINE m == WithoutBinding(things, object)
           d == Res(UnboundOf(object))
           z == WithoutInstance(object)
           r == object.res
           j == object.ps
           n == Released(m, IF j # 0 THEN r ELSE 0)
<1>1. Balanced(m, pools, instances, r, d)
  BY Unbinding
<1>2. instances \in [Instance -> 0 .. ThingBound]
  BY ObjectIs
<1>3. Balanced(n, pools, z, r, d)
  <2>1. CASE j = 0
    <3>1. z = instances
      BY <1>2, <2>1, IndexIs DEF WithoutInstance
    <3>2. n = m
      BY <2>1, ReleaseNothing
    <3> QED BY <1>1, <3>1, <3>2
  <2>2. CASE j # 0
    <3>1. j \in Instance /\ instances[j] = r /\ r # 0
      BY <2>2, ObjectIs
    <3>2. z = [instances EXCEPT ![j] = 0]
      BY <1>2, <3>1 DEF WithoutInstance
    <3>3. n = Released(m, instances[j])
      BY <2>2, <3>1
    <3> HIDE DEF n, z, m, d
    <3> QED BY <1>1, <3>1, <3>2, <3>3, InstanceLess
  <2> QED BY <2>1, <2>2
<1>4. Spared(object) = Released(n, r)
  BY DEF Spared, WithoutResource
<1> HIDE DEF n, z, d
<1>5. CASE r = 0
  BY <1>3, <1>4, <1>5, ReleaseNothing DEF z, d
<1>6. CASE r # 0
  BY <1>3, <1>4, <1>6, ObjectLess DEF z, d
<1> QED BY <1>5, <1>6

\* After it the object owns no particle pool, and the others' are theirs still.
LEMMA Disown ==
  ASSUME PoolsIInv
  PROVE  /\ WithoutInstance(object) \in [Instance -> 0 .. ThingBound]
         /\ \A u \in UserData : LET e == UnboundOf(object)[u] IN
              /\ e.ptr = 0 <=> e.res = 0
              /\ e.ptr # 0 => WithoutInstance(object)[e.ptr] = e.res /\ e.ptr \in Instance
         /\ \A u, v \in UserData : LET d == UnboundOf(object) IN
              d[u].ptr # 0 /\ d[u].ptr = d[v].ptr => u = v
         /\ \A k \in Instance : WithoutInstance(object)[k] # 0 =>
              \E u \in UserData : UnboundOf(object)[u].ptr = k
<1> DEFINE d == UnboundOf(object)
           z == WithoutInstance(object)
<1>1. /\ \A u \in UserData : u # object.rc => d[u] = userdata[u]
      /\ object.rc # 0 => d[object.rc].res = 0 /\ d[object.rc].ptr = 0
      /\ \A u \in UserData : u # object.rc \/ object.rc # 0
  BY Unbinding, IndexIs
<1>2. z \in [Instance -> 0 .. ThingBound] /\ \A k \in Instance : z[k] = IF k = object.ps THEN 0 ELSE instances[k]
  BY ObjectIs, IndexIs DEF WithoutInstance
<1> HIDE DEF d, z
<1>3. Owning(instances, object, userdata)
  BY DEF PoolsIInv
<1>4. ASSUME NEW u \in UserData
      PROVE  /\ d[u].ptr = 0 <=> d[u].res = 0
             /\ d[u].ptr # 0 => u # object.rc /\ d[u] = userdata[u] /\ z[d[u].ptr] = d[u].res
                                /\ d[u].ptr \in Instance
  <2>1. CASE u = object.rc
    BY <1>1, <2>1
  <2>2. CASE u # object.rc
    <3>1. d[u] = userdata[u]
      BY <1>1, <2>2
    <3>2. /\ userdata[u].ptr = 0 <=> userdata[u].res = 0
          /\ userdata[u].ptr # 0 => instances[userdata[u].ptr] = userdata[u].res
                                    /\ userdata[u].ptr # object.ps
      BY <1>3, <2>2 DEF Owning
    <3>3. userdata[u].ptr # 0 => userdata[u].ptr \in Instance
      BY ObjectIs, IndexIs
    <3> QED BY <1>2, <2>2, <3>1, <3>2, <3>3
  <2> QED BY <2>1, <2>2
<1>5. ASSUME NEW u \in UserData, NEW v \in UserData, d[u].ptr # 0, d[u].ptr = d[v].ptr PROVE u = v
  <2>1. /\ u # object.rc /\ d[u] = userdata[u] /\ v # object.rc /\ d[v] = userdata[v]
    BY <1>4, <1>5
  <2> QED BY <1>3, <1>5, <2>1 DEF Owning
<1>6. ASSUME NEW k \in Instance, z[k] # 0 PROVE \E u \in UserData : d[u].ptr = k
  <2>1. k # object.ps /\ instances[k] # 0
    BY <1>2, <1>6
  <2>2. PICK u \in UserData : u # object.rc /\ userdata[u].ptr = k
    BY <1>3, <2>1 DEF Owning
  <2> QED BY <1>1, <2>2
<1> QED BY <1>2, <1>4, <1>5, <1>6 DEF d, z

LEMMA Settled ==
  ASSUME PoolsIInv, NEW o \in ObjectRecord, o.alive \/ o.res = 0, o.ps = 0, o.rc = 0
  PROVE  Owning(WithoutInstance(object), o, UnboundOf(object))
<1> DEFINE d == UnboundOf(object)
           z == WithoutInstance(object)
<1>1. /\ z \in [Instance -> 0 .. ThingBound] /\ d \in [UserData -> DataRecord]
      /\ \A u \in UserData : (d[u].ptr = 0 <=> d[u].res = 0) /\ (d[u].ptr # 0 => z[d[u].ptr] = d[u].res)
      /\ \A u, v \in UserData : d[u].ptr # 0 /\ d[u].ptr = d[v].ptr => u = v
      /\ \A k \in Instance : z[k] # 0 => \E u \in UserData : d[u].ptr = k
  BY Disown, Unbinding
<1>2. \A u \in UserData : u # 0
  BY IndexIs
<1> HIDE DEF d, z
<1> QED BY <1>1, <1>2 DEF Owning, d, z

LEMMA NoObjectIs ==
  /\ NoObject \in ObjectRecord /\ NoObject.res = 0 /\ NoObject.ps = 0 /\ NoObject.rc = 0
  /\ NoData \in DataRecord /\ NoData.res = 0 /\ NoData.ptr = 0
BY IndexIs DEF NoObject, ObjectRecord, NoData, DataRecord

LEMMA FreeStep == ASSUME PoolsIInv, Free PROVE PoolsIInv'
<1>1. /\ object' = NoObject /\ things' = Spared(object) /\ pools' = pools
      /\ instances' = WithoutInstance(object) /\ userdata' = UnboundOf(object)
      /\ m_ActivedPool' = m_ActivedPool
  BY DEF Free
<1>2. Owning(WithoutInstance(object), NoObject, UnboundOf(object))
  BY Settled, NoObjectIs
<1> QED BY <1>1, <1>2, Spare, NoObjectIs DEF PoolsIInv

LEMMA BareIs ==
  ASSUME PoolsIInv
  PROVE  /\ Bare(object) \in ObjectRecord /\ Bare(object).alive = object.alive
         /\ Bare(object).res = 0 /\ Bare(object).ps = 0 /\ Bare(object).rc = 0
<1>1. object \in ObjectRecord
  BY ObjectIs
<1> QED BY <1>1, IndexIs DEF Bare, ObjectRecord

LEMMA NoImageStep == ASSUME PoolsIInv, setNoImage PROVE PoolsIInv'
<1>1. /\ object' = Bare(object) /\ things' = Spared(object) /\ pools' = pools
      /\ instances' = WithoutInstance(object) /\ userdata' = UnboundOf(object)
      /\ m_ActivedPool' = m_ActivedPool
  BY DEF setNoImage
<1>2. Owning(WithoutInstance(object), Bare(object), UnboundOf(object))
  BY Settled, BareIs
<1> QED BY <1>1, <1>2, Spare, BareIs DEF PoolsIInv

\* What the pools keep is alive, whatever the object lets go of.
LEMMA PooledIsAlive ==
  ASSUME NEW m, NEW i, NEW r, NEW d, Balanced(m, pools, i, r, d), NEW x \in Thing,
         NEW q \in Pool, NEW s \in Slot, pools[q][s] = x
  PROVE  m[x].refs # 0
BY Held

LEMMA RetainedIsAlive ==
  ASSUME NEW m \in [Thing -> Resource], NEW x \in Thing
  PROVE  Retained(m, x)[x].refs # 0
<1>1. m[x] \in Resource /\ m[x].refs \in Nat
  BY DEF Resource
<1>2. Retained(m, x) = [m EXCEPT ![x].refs = @ + 1]
  BY IndexIs DEF Retained
<1>3. Retained(m, x)[x].refs = m[x].refs + 1
  BY <1>1, <1>2 DEF Resource
<1> QED BY <1>1, <1>3

LEMMA ChosenIs ==
  ASSUME PoolsIInv, NEW name, Chosen(name) # 0
  PROVE  Chosen(name) \in Thing /\ \E q \in Pool, s \in Slot : pools[q][s] = Chosen(name)
BY Found DEF Chosen

\* The object gets a particle pool, and with it perhaps a binding.
LEMMA Endowed ==
  ASSUME PoolsIInv, NEW i \in Instance, WithoutInstance(object)[i] = 0, NEW x \in Thing,
         NEW o \in ObjectRecord, o.alive, o.ps = i, o.res = x,
         NEW e \in [UserData -> DataRecord],
         \A u \in UserData : u # o.rc => e[u] = UnboundOf(object)[u],
         o.rc # 0 => e[o.rc].ptr = i /\ e[o.rc].res = x /\ UnboundOf(object)[o.rc].ptr = 0
  PROVE  Owning([WithoutInstance(object) EXCEPT ![i] = x], o, e)
<1> DEFINE d == UnboundOf(object)
           z == WithoutInstance(object)
           y == [z EXCEPT ![i] = x]
<1>1. /\ z \in [Instance -> 0 .. ThingBound] /\ d \in [UserData -> DataRecord]
      /\ \A u \in UserData : (d[u].ptr = 0 <=> d[u].res = 0)
                             /\ (d[u].ptr # 0 => z[d[u].ptr] = d[u].res /\ d[u].ptr \in Instance)
      /\ \A u, v \in UserData : d[u].ptr # 0 /\ d[u].ptr = d[v].ptr => u = v
      /\ \A k \in Instance : z[k] # 0 => \E u \in UserData : d[u].ptr = k
  BY Disown, Unbinding
<1> HIDE DEF d, z
<1>2. x # 0 /\ i # 0 /\ x \in 0 .. ThingBound
  BY IndexIs
<1>3. y \in [Instance -> 0 .. ThingBound] /\ \A k \in Instance : y[k] = IF k = i THEN x ELSE z[k]
  BY <1>1, <1>2
<1> HIDE DEF y
<1>4. \A u \in UserData : u # o.rc => e[u] = d[u]
  BY DEF d
<1>5. o.rc # 0 => e[o.rc].ptr = i /\ e[o.rc].res = x /\ d[o.rc].ptr = 0
  BY DEF d
<1>6. \A u \in UserData : u # 0
  BY IndexIs
<1>7. ASSUME NEW u \in UserData PROVE e[u].ptr = 0 <=> e[u].res = 0
  <2>1. CASE u = o.rc
    BY <1>2, <1>5, <1>6, <2>1
  <2>2. CASE u # o.rc
    BY <1>1, <1>4, <2>2
  <2> QED BY <2>1, <2>2
<1>8. ASSUME NEW u \in UserData, u # o.rc, e[u].ptr # 0
      PROVE  y[e[u].ptr] = e[u].res /\ e[u].ptr # i
  <2>1. e[u] = d[u] /\ d[u].ptr # 0
    BY <1>4, <1>8
  <2>2. z[d[u].ptr] = d[u].res /\ d[u].ptr \in Instance /\ d[u].res # 0
    BY <1>1, <2>1
  <2>3. d[u].ptr # i
    BY <2>2 DEF z
  <2> QED BY <1>3, <2>1, <2>2, <2>3
<1>9. ASSUME NEW u \in UserData, NEW v \in UserData, u # o.rc, v # o.rc,
             e[u].ptr # 0, e[u].ptr = e[v].ptr
      PROVE  u = v
  BY <1>1, <1>4, <1>9
<1>10. ASSUME NEW k \in Instance, y[k] # 0
       PROVE  i = k \/ \E u \in UserData : u # o.rc /\ e[u].ptr = k
  <2>1. CASE k # i
    <3>1. z[k] # 0
      BY <1>3, <1>10, <2>1
    <3>2. PICK u \in UserData : d[u].ptr = k
      BY <1>1, <3>1
    <3>3. k # 0
      BY IndexIs
    <3>4. u # o.rc
      BY <1>5, <1>6, <3>2, <3>3
    <3> QED BY <1>4, <3>2, <3>4
  <2> QED BY <2>1
<1>11. Owning(y, o, e)
  <2>1. o.ps # 0 => o.res # 0 /\ y[o.ps] = o.res
    BY <1>2, <1>3
  <2>2. o.rc # 0 => o.ps # 0 /\ e[o.rc].ptr = o.ps /\ e[o.rc].res = o.res
    BY <1>2, <1>5
  <2> QED BY <1>3, <1>7, <1>8, <1>9, <1>10, <2>1, <2>2 DEF Owning
<1> QED BY <1>11 DEF y, z

LEMMA ImageStep == ASSUME PoolsIInv, NEW name, setImage(name) PROVE PoolsIInv'
<1> DEFINE x == Chosen(name)
           m == Spared(object)
           z == WithoutInstance(object)
           d == UnboundOf(object)
           b == Bare(object)
<1>1. x # 0 => x \in Thing /\ \E q \in Pool, s \in Slot : pools[q][s] = x
  BY ChosenIs
<1>2. Balanced(m, pools, z, 0, Res(d)) /\ d \in [UserData -> DataRecord]
  BY Spare, Unbinding
<1>3. /\ b \in ObjectRecord /\ b.alive /\ b.res = 0 /\ b.ps = 0 /\ b.rc = 0
      /\ pools' = pools /\ m_ActivedPool' = m_ActivedPool
  BY BareIs DEF setImage
<1>4. x # 0 => m[x].refs # 0
  BY <1>1, <1>2, PooledIsAlive
<1>5. m_ActivedPool \in Pool \cup {"none"}
  BY DEF PoolsIInv
<1>6. CASE x = 0 \/ things[x].slot.kind = "sprite"
  <2> DEFINE o == [b EXCEPT !.res = x]
  <2>1. object' = o /\ things' = Retained(m, x) /\ instances' = z /\ userdata' = d
    BY <1>6 DEF setImage
  <2> HIDE DEF x, m, z, d, b
  <2>2. x \in 0 .. ThingBound
    BY <1>1, IndexIs
  <2>3. o \in ObjectRecord /\ o.alive /\ o.res = x /\ o.ps = 0 /\ o.rc = 0
    BY <1>3, <2>2 DEF ObjectRecord
  <2> HIDE DEF o
  <2>4. Owning(z, o, d)
    BY <2>3, Settled DEF z, d
  <2>5. Balanced(Retained(m, x), pools, z, x, Res(d))
    <3>1. CASE x = 0
      BY <1>2, <3>1 DEF Retained
    <3>2. CASE x # 0
      BY <1>1, <1>2, <1>4, <3>2, ObjectMore
    <3> QED BY <3>1, <3>2
  <2> QED BY <1>3, <1>5, <2>1, <2>3, <2>4, <2>5 DEF PoolsIInv
<1>7. CASE ~ (x = 0 \/ things[x].slot.kind = "sprite")
  <2> DEFINE n == Retained(Retained(m, x), x)
  <2>1. PICK i \in Instance :
          /\ z[i] = 0 /\ instances' = [z EXCEPT ![i] = x]
          /\ \/ object' = [b EXCEPT !.res = x, !.ps = i] /\ things' = n /\ userdata' = d
             \/ /\ \E u \in UserData :
                     /\ d[u] = NoData /\ object' = [b EXCEPT !.res = x, !.ps = i, !.rc = u]
                     /\ userdata' = [d EXCEPT ![u] = [res |-> x, ptr |-> i, held |-> FALSE]]
                /\ things' = Retained(n, x)
    BY <1>7 DEF setImage, Least
  <2> HIDE DEF x, m, z, d, b
  <2>2. x \in Thing /\ x \in 0 .. ThingBound /\ x # 0 /\ i \in 0 .. InstanceBound
    BY <1>1, <1>7, IndexIs
  <2>3. Balanced(Retained(m, x), pools, z, x, Res(d))
    BY <1>2, <1>4, <2>2, ObjectMore
  <2>4. Retained(m, x)[x].refs # 0
    BY <1>1, <2>2, <2>3, PooledIsAlive
  <2>5. Balanced(n, pools, [z EXCEPT ![i] = x], x, Res(d))
    BY <2>1, <2>2, <2>3, <2>4, InstanceMore
  <2>6. n[x].refs # 0
    BY <1>1, <2>2, <2>5, PooledIsAlive
  <2> HIDE DEF n
  <2>7. CASE object' = [b EXCEPT !.res = x, !.ps = i] /\ things' = n /\ userdata' = d
    <3> DEFINE o == [b EXCEPT !.res = x, !.ps = i]
    <3>1. o \in ObjectRecord /\ o.alive /\ o.res = x /\ o.ps = i /\ o.rc = 0
      BY <1>3, <2>2 DEF ObjectRecord
    <3> HIDE DEF o
    <3>2. Owning([z EXCEPT ![i] = x], o, d)
      BY <1>2, <2>1, <2>2, <3>1, Endowed DEF z, d
    <3> QED BY <1>3, <1>5, <2>1, <2>5, <2>7, <3>1, <3>2 DEF PoolsIInv, o
  <2>8. ASSUME NEW u \in UserData, d[u] = NoData, object' = [b EXCEPT !.res = x, !.ps = i, !.rc = u],
               userdata' = [d EXCEPT ![u] = [res |-> x, ptr |-> i, held |-> FALSE]],
               things' = Retained(n, x)
        PROVE  PoolsIInv'
    <3> DEFINE o == [b EXCEPT !.res = x, !.ps = i, !.rc = u]
               e == [res |-> x, ptr |-> i, held |-> FALSE]
               f == [d EXCEPT ![u] = e]
    <3>1. o \in ObjectRecord /\ o.alive /\ o.res = x /\ o.ps = i /\ o.rc = u
      BY <1>3, <2>2, IndexIs DEF ObjectRecord
    <3>2. e \in DataRecord /\ e.res = x /\ e.ptr = i
      BY <2>2 DEF DataRecord
    <3> HIDE DEF o, e
    <3>3. f \in [UserData -> DataRecord] /\ f[u] = e /\ \A v \in UserData : v # u => f[v] = d[v]
      BY <1>2, <3>2
    <3>4. \A v \in UserData, a \in DataRecord : Res([d EXCEPT ![v] = a]) = [Res(d) EXCEPT ![v] = a.res]
      BY <1>2, ResIs
    <3>5. Res(f) = [Res(d) EXCEPT ![u] = x]
      <4>1. Res(f) = [Res(d) EXCEPT ![u] = e.res]
        BY <3>2, <3>4, Zenon
      <4> QED BY <3>2, <4>1
    <3>6. Res(d)[u] = 0
      BY <1>2, <2>8, ResIs, NoObjectIs
    <3>7. Balanced(Retained(n, x), pools, [z EXCEPT ![i] = x], x, [Res(d) EXCEPT ![u] = x])
      BY <2>2, <2>5, <2>6, <3>6, DataMore
    <3> HIDE DEF f
    <3>8. d[u].ptr = 0
      BY <2>8, NoObjectIs
    <3>9. Owning([z EXCEPT ![i] = x], o, f)
      BY <2>1, <2>2, <3>1, <3>2, <3>3, <3>8, Endowed DEF z, d
    <3> QED BY <1>3, <1>5, <2>1, <2>8, <3>1, <3>5, <3>7, <3>9 DEF PoolsIInv, o, f, e
  <2> QED BY <2>1, <2>7, <2>8
<1> QED BY <1>6, <1>7

LEMMA ClassStep == ASSUME PoolsIInv, NEW render \in BOOLEAN, setClass(render) PROVE PoolsIInv'
<1>1. /\ Owning(instances, object, userdata) /\ m_ActivedPool \in Pool \cup {"none"}
      /\ Balanced(things, pools, instances, object.res, Res(userdata)) /\ object \in ObjectRecord
  BY DEF PoolsIInv, Owning
<1>2. object.alive /\ UNCHANGED <<pools, m_ActivedPool, instances>>
  BY DEF setClass
<1>3. CASE render
  <2>1. object' = [object EXCEPT !.render = TRUE] /\ things' = things /\ userdata' = userdata
    BY <1>3 DEF setClass
  <2>2. /\ object' \in ObjectRecord /\ object'.alive = object.alive /\ object'.res = object.res
        /\ object'.ps = object.ps /\ object'.rc = object.rc
    BY <1>1, <2>1 DEF ObjectRecord
  <2>3. Owning(instances, object', userdata)
    BY <1>1, <2>2 DEF Owning
  <2> QED BY <1>1, <1>2, <2>1, <2>2, <2>3 DEF PoolsIInv
<1>4. CASE ~ render
  <2> DEFINE d == UnboundOf(object)
             o == [object EXCEPT !.render = FALSE, !.rc = 0]
  <2>1. object' = o /\ things' = WithoutBinding(things, object) /\ userdata' = d
    BY <1>4 DEF setClass
  <2>2. /\ o \in ObjectRecord /\ o.alive /\ o.res = object.res /\ o.ps = object.ps /\ o.rc = 0
    BY <1>1, <1>2, IndexIs DEF ObjectRecord
  <2> HIDE DEF o, d
  <2>3. /\ d \in [UserData -> DataRecord]
        /\ \A u \in UserData : u # object.rc => d[u] = userdata[u]
        /\ object.rc # 0 => d[object.rc].res = 0 /\ d[object.rc].ptr = 0
        /\ \A u \in UserData : u = object.rc => object.rc # 0
    BY Unbinding, IndexIs DEF d
  <2>4. \A u \in UserData : d[u].ptr # 0 => u # object.rc /\ d[u] = userdata[u]
    BY <2>3
  <2>5. \A u \in UserData : /\ d[u].ptr = 0 <=> d[u].res = 0
                            /\ d[u].ptr # 0 => instances[d[u].ptr] = d[u].res /\ d[u].ptr # object.ps
    BY <1>1, <2>3, <2>4 DEF Owning
  <2>6. \A u, v \in UserData : d[u].ptr # 0 /\ d[u].ptr = d[v].ptr => u = v
    BY <1>1, <2>4 DEF Owning
  <2>7. ASSUME NEW k \in Instance, instances[k] # 0
        PROVE  object.ps = k \/ \E u \in UserData : u # 0 /\ d[u].ptr = k
    BY <1>1, <2>3, <2>7, IndexIs DEF Owning
  <2>8. /\ instances \in [Instance -> 0 .. ThingBound]
        /\ object.ps # 0 => object.res # 0 /\ instances[object.ps] = object.res
    BY <1>1 DEF Owning
  <2>9. Owning(instances, o, d)
    BY <2>2, <2>3, <2>5, <2>6, <2>7, <2>8 DEF Owning
  <2>10. Balanced(WithoutBinding(things, object), pools, instances, object.res, Res(d))
    BY Unbinding DEF d
  <2> QED BY <1>1, <1>2, <2>1, <2>2, <2>9, <2>10 DEF PoolsIInv
<1> QED BY <1>3, <1>4

\* What leaves all references as they are.
LEMMA SameHolders ==
  ASSUME PoolsIInv, UNCHANGED <<pools, things, instances>>, m_ActivedPool' \in Pool \cup {"none"},
         object' \in ObjectRecord, ~ object'.alive => object'.res = 0 /\ object'.ps = 0 /\ object'.rc = 0,
         object'.res = object.res, object'.ps = object.ps, object'.rc = object.rc,
         userdata' \in [UserData -> DataRecord],
         \A u \in UserData : userdata'[u].res = userdata[u].res /\ userdata'[u].ptr = userdata[u].ptr
  PROVE  PoolsIInv'
<1>1. /\ Owning(instances, object, userdata)
      /\ Balanced(things, pools, instances, object.res, Res(userdata))
  BY DEF PoolsIInv
<1>2. Res(userdata') = Res(userdata)
  BY DEF Res
<1>3. object.rc # 0 => object.rc \in UserData
  BY ObjectIs
<1>4. Owning(instances, object', userdata')
  <2>1. /\ instances \in [Instance -> 0 .. ThingBound]
        /\ object.ps # 0 => object.res # 0 /\ instances[object.ps] = object.res
        /\ object.rc # 0 => object.ps # 0 /\ userdata[object.rc].ptr = object.ps
                            /\ userdata[object.rc].res = object.res
    BY <1>1 DEF Owning
  <2>2. object.rc # 0 => userdata'[object.rc].ptr = object.ps /\ userdata'[object.rc].res = object.res
    BY <1>3, <2>1
  <2>3. \A u \in UserData : userdata'[u].ptr = 0 <=> userdata'[u].res = 0
    BY <1>1 DEF Owning
  <2>4. \A u \in UserData : u # object.rc /\ userdata'[u].ptr # 0 =>
          instances[userdata'[u].ptr] = userdata'[u].res /\ userdata'[u].ptr # object.ps
    BY <1>1 DEF Owning
  <2>5. \A u, v \in UserData :
          u # object.rc /\ v # object.rc /\ userdata'[u].ptr # 0 /\ userdata'[u].ptr = userdata'[v].ptr
          => u = v
    BY <1>1 DEF Owning
  <2>6. \A j \in Instance : instances[j] # 0 =>
          object.ps = j \/ \E u \in UserData : u # object.rc /\ userdata'[u].ptr = j
    BY <1>1 DEF Owning
  <2> QED BY <2>1, <2>2, <2>3, <2>4, <2>5, <2>6 DEF Owning
<1> QED BY <1>1, <1>2, <1>4 DEF PoolsIInv

LEMMA QuietSteps ==
  ASSUME PoolsIInv,
         \/ \E t \in Pool \cup {"none"} : SetResourceStatus(t)
         \/ \E render \in BOOLEAN : New(render)
         \/ \E u \in UserData : Forget(u)
         \/ setClassFails
         \/ getBinding
         \/ UNCHANGED resVars
  PROVE  PoolsIInv'
<1>1. /\ Owning(instances, object, userdata) /\ m_ActivedPool \in Pool \cup {"none"}
      /\ object \in ObjectRecord /\ userdata \in [UserData -> DataRecord]
      /\ ~ object.alive => object.res = 0 /\ object.ps = 0 /\ object.rc = 0
  BY DEF PoolsIInv, Owning
<1>2. ASSUME NEW t \in Pool \cup {"none"}, SetResourceStatus(t) PROVE PoolsIInv'
  <2>1. m_ActivedPool' = t /\ UNCHANGED <<pools, things, instances, object, userdata>>
    BY <1>2 DEF SetResourceStatus
  <2> QED BY <1>1, <2>1, SameHolders
<1>3. ASSUME NEW render \in BOOLEAN, New(render) PROVE PoolsIInv'
  <2>1. /\ ~ object.alive /\ object' = [NoObject EXCEPT !.alive = TRUE, !.render = render]
        /\ UNCHANGED <<pools, m_ActivedPool, things, instances, userdata>>
    BY <1>3 DEF New
  <2>2. object' \in ObjectRecord /\ object'.res = 0 /\ object'.ps = 0 /\ object'.rc = 0
    BY <2>1, IndexIs DEF NoObject, ObjectRecord
  <2> QED BY <1>1, <2>1, <2>2, SameHolders
<1>4. ASSUME NEW u \in UserData, Forget(u) PROVE PoolsIInv'
  <2>1. /\ userdata' = [userdata EXCEPT ![u].held = FALSE]
        /\ UNCHANGED <<pools, m_ActivedPool, things, instances, object>>
    BY <1>4 DEF Forget
  <2>2. userdata' \in [UserData -> DataRecord]
        /\ \A v \in UserData : userdata'[v].res = userdata[v].res /\ userdata'[v].ptr = userdata[v].ptr
    BY <1>1, <2>1 DEF DataRecord
  <2> QED BY <1>1, <2>1, <2>2, SameHolders
<1>5. ASSUME setClassFails PROVE PoolsIInv'
  <2>1. /\ object.alive /\ object' = [object EXCEPT !.render = FALSE]
        /\ UNCHANGED <<pools, m_ActivedPool, things, instances, userdata>>
    BY <1>5 DEF setClassFails
  <2>2. /\ object' \in ObjectRecord /\ object'.res = object.res /\ object'.ps = object.ps
        /\ object'.rc = object.rc /\ object'.alive
    BY <1>1, <2>1 DEF ObjectRecord
  <2> QED BY <1>1, <2>1, <2>2, SameHolders
<1>6. ASSUME getBinding PROVE PoolsIInv'
  <2>1. /\ object.rc # 0 /\ userdata' = [userdata EXCEPT ![object.rc].held = TRUE]
        /\ UNCHANGED <<pools, m_ActivedPool, things, instances, object>>
    BY <1>6 DEF getBinding
  <2>2. object.rc \in UserData
    BY <2>1, ObjectIs
  <2>3. userdata' \in [UserData -> DataRecord]
        /\ \A v \in UserData : userdata'[v].res = userdata[v].res /\ userdata'[v].ptr = userdata[v].ptr
    BY <1>1, <2>1, <2>2 DEF DataRecord
  <2> QED BY <1>1, <2>1, <2>3, SameHolders
<1>7. ASSUME UNCHANGED resVars PROVE PoolsIInv'
  <2>1. UNCHANGED <<pools, m_ActivedPool, things, instances, object, userdata>>
    BY <1>7 DEF resVars
  <2> QED BY <1>1, <2>1, SameHolders
<1> QED BY <1>2, <1>3, <1>4, <1>5, <1>6, <1>7

\* Removing from a pool and clearing one leave the object's and the scripts'.
LEMMA PoolSteps ==
  ASSUME PoolsIInv, NEW p \in Pool, Clear(p) \/ \E slot \in Slot : RemoveResource(p, slot)
  PROVE  PoolsIInv'
<1>1. /\ Owning(instances, object, userdata) /\ m_ActivedPool \in Pool \cup {"none"}
      /\ Balanced(things, pools, instances, object.res, Res(userdata))
      /\ UNCHANGED <<m_ActivedPool, instances, object, userdata>>
  BY DEF PoolsIInv, Clear, RemoveResource
<1>2. CASE Clear(p)
  <2>1. /\ pools' = [pools EXCEPT ![p] = [s \in Slot |-> 0]]
        /\ things' = ReleasedAll(things, {pools[p][s] : s \in Slot} \ {0})
    BY <1>2 DEF Clear
  <2>2. Balanced(things', pools', instances, object.res, Res(userdata))
    BY <1>1, <2>1, PoolCleared
  <2> QED BY <1>1, <2>2 DEF PoolsIInv
<1>3. ASSUME NEW slot \in Slot, RemoveResource(p, slot) PROVE PoolsIInv'
  <2>1. /\ pools[p][slot] # 0 /\ pools' = [pools EXCEPT ![p][slot] = 0]
        /\ things' = Released(things, pools[p][slot])
    BY <1>3 DEF RemoveResource
  <2>2. Balanced(things', pools', instances, object.res, Res(userdata))
    BY <1>1, <2>1, PlaceLess
  <2> QED BY <1>1, <2>2 DEF PoolsIInv
<1> QED BY <1>2, <1>3

\* What a resource is made of is alive, and made of nothing itself.
LEMMA MadeOfIs ==
  ASSUME PoolsIInv, NEW slot \in Slot, NEW dep \in MadeOf(slot)
  PROVE  /\ dep \in 0 .. ThingBound /\ (slot.kind = "texture" => dep = 0)
         /\ dep # 0 => things[dep].refs # 0 /\ things[dep].dep = 0
<1>1. Counted(things, Holds(pools, instances, object.res, Res(userdata)))
  BY DEF PoolsIInv, Balanced
<1>2. /\ things \in [Thing -> Resource]
      /\ \A y \in Thing : things[y].dep # 0 => things[things[y].dep].dep = 0
      /\ \A y \in Thing : things[y].slot.kind = "texture" => things[y].dep = 0
      /\ \A y \in Thing : things[y].refs = Count(Deps(things), y) + Holds(pools, instances, object.res, Res(userdata))[y]
      /\ \A y \in Thing : Holds(pools, instances, object.res, Res(userdata))[y] \in Nat
  BY <1>1 DEF Counted
<1>3. CASE slot.kind = "texture"
  BY <1>3, IndexIs DEF MadeOf
<1>4. CASE slot.kind = "sprite"
  <2>1. PICK s \in Slot : dep = Find("texture", s.name) /\ dep # 0
    BY <1>4 DEF MadeOf
  <2>2. dep \in Thing /\ things[dep].refs # 0 /\ things[dep].slot.kind = "texture"
    BY <2>1, Found
  <2> QED BY <1>2, <1>4, <2>2, IndexIs
<1>5. CASE slot.kind = "particle"
  <2>1. PICK s \in Slot : dep = things[Find("sprite", s.name)].dep /\ Find("sprite", s.name) # 0
    BY <1>5 DEF MadeOf
  <2> DEFINE x == Find("sprite", s.name)
  <2>2. x \in Thing
    BY <2>1, Found
  <2>3. dep = things[x].dep
    BY <2>1
  <2> HIDE DEF x
  <2>4. dep \in 0 .. ThingBound
    BY <1>2, <2>2, <2>3 DEF Resource
  <2>5. ASSUME dep # 0 PROVE things[dep].refs # 0 /\ things[dep].dep = 0
    <3>1. dep \in Thing
      BY <2>4, <2>5, IndexIs
    <3>2. Count(Deps(things), dep) \in Nat /\ Count(Deps(things), dep) # 0
      BY <1>2, <2>2, <2>3, <3>1, NoDeps, DepsFinite
    <3> QED BY <1>2, <2>2, <2>3, <2>5, <3>1, <3>2
  <2> QED BY <1>5, <2>4, <2>5
<1> QED BY <1>3, <1>4, <1>5, ResourceAssumption

LEMMA LoadStep == ASSUME PoolsIInv, NEW slot \in Slot, Load(slot) PROVE PoolsIInv'
<1>1. /\ Owning(instances, object, userdata)
      /\ Balanced(things, pools, instances, object.res, Res(userdata))
      /\ m_ActivedPool \in Pool /\ pools[m_ActivedPool][slot] = 0
      /\ UNCHANGED <<m_ActivedPool, instances, object, userdata>>
  BY DEF PoolsIInv, Load
<1>2. PICK dep \in MadeOf(slot), x \in Thing :
        /\ things[x] = Freed
        /\ things' = Retained([things EXCEPT ![x] = [slot |-> slot, refs |-> 1, dep |-> dep]], dep)
        /\ pools' = [pools EXCEPT ![m_ActivedPool][slot] = x]
  BY DEF Load
<1>3. /\ dep \in 0 .. ThingBound /\ (slot.kind = "texture" => dep = 0)
      /\ dep # 0 => things[dep].refs # 0 /\ things[dep].dep = 0
  BY MadeOfIs
<1>4. Balanced(things', pools', instances, object.res, Res(userdata))
  BY <1>1, <1>2, <1>3, ThingLoaded
<1> QED BY <1>1, <1>4 DEF PoolsIInv

LEMMA InstanceStep == ASSUME PoolsIInv, NEW name, ParticleSystemInstance(name) PROVE PoolsIInv'
<1> DEFINE x == Find("particle", name)
           n == Retained(Retained(things, x), x)
           r == object.res
<1>1. x \in Thing /\ things[x].refs # 0 /\ \E q \in Pool, s \in Slot : pools[q][s] = x
  BY Found DEF ParticleSystemInstance
<1>2. PICK u \in UserData, i \in Instance :
        /\ userdata[u] = NoData /\ instances[i] = 0
        /\ userdata' = [userdata EXCEPT ![u] = [res |-> x, ptr |-> i, held |-> TRUE]]
        /\ instances' = [instances EXCEPT ![i] = x]
        /\ things' = n /\ UNCHANGED <<pools, m_ActivedPool, object>>
  BY DEF ParticleSystemInstance, Least
<1> HIDE DEF x
<1>3. /\ Owning(instances, object, userdata) /\ m_ActivedPool \in Pool \cup {"none"}
      /\ Balanced(things, pools, instances, r, Res(userdata))
      /\ userdata \in [UserData -> DataRecord] /\ instances \in [Instance -> 0 .. ThingBound]
  BY DEF PoolsIInv, Owning
<1> DEFINE e == [res |-> x, ptr |-> i, held |-> TRUE]
<1>4. e \in DataRecord /\ e.res = x /\ e.ptr = i /\ x # 0 /\ i # 0
  BY <1>1, IndexIs DEF DataRecord
<1> HIDE DEF e
<1>5. userdata' = [userdata EXCEPT ![u] = e]
  BY <1>2 DEF e
<1>6. userdata' \in [UserData -> DataRecord] /\ userdata'[u] = e
      /\ \A v \in UserData : v # u => userdata'[v] = userdata[v]
  BY <1>3, <1>4, <1>5
<1>7. instances' \in [Instance -> 0 .. ThingBound] /\ instances'[i] = x
      /\ \A j \in Instance : j # i => instances'[j] = instances[j]
  BY <1>1, <1>2, <1>3, IndexIs
<1>8. Res(userdata') = [Res(userdata) EXCEPT ![u] = x] /\ Res(userdata)[u] = 0
  <2>1. \A v \in UserData, a \in DataRecord :
          Res([userdata EXCEPT ![v] = a]) = [Res(userdata) EXCEPT ![v] = a.res]
    BY <1>3, ResIs
  <2>2. Res([userdata EXCEPT ![u] = e]) = [Res(userdata) EXCEPT ![u] = e.res]
    BY <1>4, <2>1, Zenon
  <2>3. Res(userdata)[u] = 0
    BY <1>2, <1>3, ResIs, NoObjectIs
  <2> QED BY <1>4, <1>5, <2>2, <2>3
<1>9. Balanced(n, pools, instances', r, Res(userdata'))
  <2> HIDE DEF n, r
  <2>1. Balanced(Retained(things, x), pools, [instances EXCEPT ![i] = x], r, Res(userdata))
    BY <1>1, <1>2, <1>3, InstanceMore
  <2>2. Retained(things, x)[x].refs # 0
    BY <1>1, <2>1, PooledIsAlive
  <2>3. Balanced(n, pools, [instances EXCEPT ![i] = x], r, [Res(userdata) EXCEPT ![u] = x])
    BY <1>1, <1>8, <2>1, <2>2, DataMore DEF n
  <2> QED BY <1>2, <1>8, <2>3
<1>10. u # object.rc /\ userdata[u].ptr = 0 /\ object.ps # i
  BY <1>2, <1>4, ObjectIs, NoObjectIs, IndexIs
<1>11. Owning(instances', object, userdata')
  <2>1. /\ object \in ObjectRecord
        /\ ~ object.alive => object.res = 0 /\ object.ps = 0 /\ object.rc = 0
        /\ object.ps # 0 => object.res # 0 /\ instances'[object.ps] = object.res
        /\ object.rc # 0 => object.ps # 0 /\ userdata'[object.rc].ptr = object.ps
                            /\ userdata'[object.rc].res = object.res
    BY <1>3, <1>6, <1>7, <1>10, ObjectIs DEF Owning
  <2>2. \A v \in UserData : v # object.rc /\ v # u /\ userdata[v].ptr # 0 =>
          userdata[v].ptr # i /\ userdata[v].ptr \in Instance
    <3> SUFFICES ASSUME NEW v \in UserData, v # object.rc, userdata[v].ptr # 0
                 PROVE  userdata[v].ptr # i /\ userdata[v].ptr \in Instance
      OBVIOUS
    <3>1. instances[userdata[v].ptr] = userdata[v].res /\ userdata[v].res # 0
      BY <1>3 DEF Owning
    <3> QED BY <1>2, <3>1, ObjectIs, IndexIs
  <2>3. ASSUME NEW v \in UserData
        PROVE  /\ userdata'[v].ptr = 0 <=> userdata'[v].res = 0
               /\ v # object.rc /\ userdata'[v].ptr # 0 =>
                    instances'[userdata'[v].ptr] = userdata'[v].res /\ userdata'[v].ptr # object.ps
    <3>1. CASE v = u
      BY <1>4, <1>6, <1>7, <1>10, <3>1
    <3>2. CASE v # u
      BY <1>3, <1>6, <1>7, <2>2, <3>2 DEF Owning
    <3> QED BY <3>1, <3>2
  <2>4. ASSUME NEW v \in UserData, NEW w \in UserData, v # object.rc, w # object.rc,
               userdata'[v].ptr # 0, userdata'[v].ptr = userdata'[w].ptr
        PROVE  v = w
    <3>1. CASE v = u \/ w = u
      BY <1>4, <1>6, <2>2, <2>4, <3>1
    <3>2. CASE v # u /\ w # u
      BY <1>3, <1>6, <2>4, <3>2 DEF Owning
    <3> QED BY <3>1, <3>2
  <2>5. ASSUME NEW k \in Instance, instances'[k] # 0
        PROVE  object.ps = k \/ \E v \in UserData : v # object.rc /\ userdata'[v].ptr = k
    <3>1. CASE k = i
      BY <1>4, <1>6, <1>10, <3>1
    <3>2. CASE k # i
      <4>1. instances[k] # 0
        BY <1>7, <2>5, <3>2
      <4>2. object.ps = k \/ \E v \in UserData : v # object.rc /\ userdata[v].ptr = k
        BY <1>3, <4>1 DEF Owning
      <4>3. k # 0
        BY IndexIs
      <4> QED BY <1>6, <1>10, <4>2, <4>3
    <3> QED BY <3>1, <3>2
  <2> QED BY <1>6, <1>7, <2>1, <2>3, <2>4, <2>5 DEF Owning
<1> QED BY <1>2, <1>3, <1>9, <1>11 DEF PoolsIInv

\* A lstg.ParticleSystem that nothing refers to takes its particle pool with it.
LEMMA CollectStep == ASSUME PoolsIInv, NEW u \in UserData, collect(u) PROVE PoolsIInv'
<1> DEFINE x == userdata[u].res
           j == userdata[u].ptr
           r == object.res
<1>1. /\ Owning(instances, object, userdata) /\ m_ActivedPool \in Pool \cup {"none"}
      /\ Balanced(things, pools, instances, r, Res(userdata)) /\ object \in ObjectRecord
      /\ userdata \in [UserData -> DataRecord] /\ instances \in [Instance -> 0 .. ThingBound]
      /\ ~ object.alive => object.res = 0 /\ object.ps = 0 /\ object.rc = 0
  BY DEF PoolsIInv, Owning
<1>2. /\ object.rc # u /\ userdata' = [userdata EXCEPT ![u] = NoData]
      /\ UNCHANGED <<pools, m_ActivedPool, object>>
  BY DEF collect
<1>3. userdata' \in [UserData -> DataRecord] /\ userdata'[u] = NoData
      /\ \A v \in UserData : v # u => userdata'[v] = userdata[v]
  BY <1>1, <1>2, NoObjectIs
<1>4. (j = 0 <=> x = 0) /\ (j # 0 => instances[j] = x /\ j # object.ps)
  BY <1>1, <1>2 DEF Owning
<1>5. CASE x = 0
  <2>1. UNCHANGED <<things, instances>>
    BY <1>5 DEF collect
  <2>2. \A v \in UserData : userdata'[v].res = userdata[v].res /\ userdata'[v].ptr = userdata[v].ptr
    BY <1>3, <1>4, <1>5, NoObjectIs
  <2> QED BY <1>1, <1>2, <1>3, <2>1, <2>2, SameHolders
<1>6. CASE x # 0
  <2>1. things' = Released(Released(things, x), x) /\ instances' = [instances EXCEPT ![j] = 0]
    BY <1>6 DEF collect
  <2>2. j \in Instance /\ x \in Thing
    BY <1>4, <1>6, ObjectIs, IndexIs
  <2>3. instances' \in [Instance -> 0 .. ThingBound] /\ instances'[j] = 0
        /\ \A k \in Instance : k # j => instances'[k] = instances[k]
    BY <1>1, <2>1, <2>2, IndexIs
  <2>4. Res(userdata') = [Res(userdata) EXCEPT ![u] = 0] /\ Res(userdata)[u] = x
    <3>1. \A v \in UserData, a \in DataRecord :
            Res([userdata EXCEPT ![v] = a]) = [Res(userdata) EXCEPT ![v] = a.res]
      BY <1>1, ResIs
    <3>2. Res([userdata EXCEPT ![u] = NoData]) = [Res(userdata) EXCEPT ![u] = NoData.res]
      BY <3>1, NoObjectIs, Zenon
    <3>3. Res(userdata)[u] = x
      BY <1>1, ResIs
    <3> QED BY <1>2, <3>2, <3>3, NoObjectIs
  <2>5. Balanced(things', pools, instances', r, Res(userdata'))
    <3> HIDE DEF x, j, r
    <3> DEFINE d == Res(userdata)
    <3>1. Balanced(things, pools, instances, r, d) /\ d[u] = x /\ Res(userdata') = [d EXCEPT ![u] = 0]
      BY <1>1, <2>4
    <3> HIDE DEF d
    <3>2. Balanced(Released(things, d[u]), pools, instances, r, [d EXCEPT ![u] = 0])
      BY <1>6, <3>1, DataLess
    <3>3. Balanced(Released(things, x), pools, instances, r, Res(userdata'))
      BY <3>1, <3>2
    <3>4. instances[j] = x
      BY <1>4, <1>6
    <3> QED BY <1>6, <2>1, <2>2, <3>3, <3>4, InstanceLess
  <2>6. j # 0 /\ j # object.ps /\ object.rc # u
    BY <1>2, <1>4, <1>6
  <2>7. \A v \in UserData : v # u /\ v # object.rc => userdata[v].ptr # j
    BY <1>1, <2>6 DEF Owning
  <2>8. Owning(instances', object, userdata')
    <3>1. /\ object.ps # 0 => object.res # 0 /\ instances'[object.ps] = object.res
          /\ object.rc # 0 => object.ps # 0 /\ userdata'[object.rc].ptr = object.ps
                              /\ userdata'[object.rc].res = object.res
      BY <1>1, <1>3, <2>3, <2>6, ObjectIs DEF Owning
    <3>2. ASSUME NEW v \in UserData
          PROVE  /\ userdata'[v].ptr = 0 <=> userdata'[v].res = 0
                 /\ v # object.rc /\ userdata'[v].ptr # 0 =>
                      instances'[userdata'[v].ptr] = userdata'[v].res /\ userdata'[v].ptr # object.ps
      <4>1. CASE v = u
        BY <1>3, <4>1, NoObjectIs
      <4>2. CASE v # u
        <5>1. userdata'[v] = userdata[v] /\ (userdata[v].ptr # 0 => userdata[v].ptr \in Instance)
          BY <1>3, <4>2, ObjectIs, IndexIs
        <5>2. userdata[v].ptr = 0 <=> userdata[v].res = 0
          BY <1>1 DEF Owning
        <5>3. v # object.rc /\ userdata[v].ptr # 0 =>
                instances[userdata[v].ptr] = userdata[v].res /\ userdata[v].ptr # object.ps
          BY <1>1 DEF Owning
        <5> HIDE DEF j
        <5> QED BY <2>3, <2>7, <4>2, <5>1, <5>2, <5>3
      <4> QED BY <4>1, <4>2
    <3>3. ASSUME NEW v \in UserData, NEW w \in UserData, v # object.rc, w # object.rc,
                 userdata'[v].ptr # 0, userdata'[v].ptr = userdata'[w].ptr
          PROVE  v = w
      <4>1. v # u /\ w # u
        BY <1>3, <3>3, NoObjectIs
      <4> QED BY <1>1, <1>3, <3>3, <4>1 DEF Owning
    <3>4. ASSUME NEW k \in Instance, instances'[k] # 0
          PROVE  object.ps = k \/ \E v \in UserData : v # object.rc /\ userdata'[v].ptr = k
      <4>1. k # j /\ instances[k] # 0
        BY <2>3, <3>4
      <4>2. object.ps = k \/ \E v \in UserData : v # object.rc /\ userdata[v].ptr = k
        BY <1>1, <4>1 DEF Owning
      <4> QED BY <1>3, <4>1, <4>2
    <3> QED BY <1>1, <1>3, <2>3, <3>1, <3>2, <3>3, <3>4 DEF Owning
  <2> QED BY <1>1, <1>2, <2>5, <2>8 DEF PoolsIInv
<1> QED BY <1>5, <1>6

LEMMA ResStep == ASSUME PoolsIInv, [ResNext]_resVars PROVE PoolsIInv'
<1>1. CASE UNCHANGED resVars
  BY <1>1, QuietSteps
<1>2. CASE ResNext
  <2>1. CASE \E t \in Pool \cup {"none"} : SetResourceStatus(t)
    BY <2>1, QuietSteps
  <2>2. ASSUME NEW slot \in Slot, Load(slot) \/ LoadChangesNothing(slot) PROVE PoolsIInv'
    BY <2>2, LoadStep, QuietSteps DEF LoadChangesNothing
  <2>3. ASSUME NEW p \in Pool, Clear(p) \/ \E slot \in Slot : RemoveResource(p, slot) PROVE PoolsIInv'
    BY <2>3, PoolSteps
  <2>4. ASSUME NEW render \in BOOLEAN, New(render) \/ setClass(render) PROVE PoolsIInv'
    BY <2>4, ClassStep, QuietSteps
  <2>5. ASSUME NEW name \in Names, setImage(name) \/ ParticleSystemInstance(name) PROVE PoolsIInv'
    BY <2>5, ImageStep, InstanceStep
  <2>6. CASE setClassFails \/ setNoImage \/ Free \/ getBinding
    BY <2>6, QuietSteps, NoImageStep, FreeStep
  <2>7. ASSUME NEW u \in UserData, Forget(u) \/ collect(u) PROVE PoolsIInv'
    BY <2>7, QuietSteps, CollectStep
  <2> QED BY <1>2, <2>1, <2>2, <2>3, <2>4, <2>5, <2>6, <2>7 DEF ResNext
<1> QED BY <1>1, <1>2

LEMMA ResStart == ResInit => PoolsIInv
<1> SUFFICES ASSUME ResInit PROVE PoolsIInv
  OBVIOUS
<1> DEFINE d == Res(userdata)
<1>1. /\ pools = [p \in Pool |-> [s \in Slot |-> 0]] /\ m_ActivedPool = "global"
      /\ things = [x \in Thing |-> Freed] /\ instances = [i \in Instance |-> 0]
      /\ object = NoObject /\ userdata = [u \in UserData |-> NoData]
  BY DEF ResInit
<1>2. Owning(instances, object, userdata)
  BY <1>1, NoObjectIs, IndexIs DEF Owning
<1>3. d = [u \in UserData |-> 0]
  BY <1>1, NoObjectIs DEF Res
<1> HIDE DEF d
<1>4. Holding(pools, instances, 0, d) /\ Named(things, pools)
  BY <1>1, <1>3, IndexIs DEF Holding, Named
<1>5. \A x \in Thing : /\ Places(Flat(pools), x) = {} /\ Places(instances, x) = {} /\ Places(d, x) = {}
                       /\ Places(Deps(things), x) = {} /\ x # 0
  BY <1>1, <1>3, FreedIs, IndexIs DEF Places, Flat, Deps
<1>6. \A x \in Thing : /\ Count(Flat(pools), x) = 0 /\ Count(instances, x) = 0 /\ Count(d, x) = 0
                       /\ Count(Deps(things), x) = 0 /\ x # 0
  BY <1>5, FS_EmptySet DEF Count
<1>7. Holds(pools, instances, 0, d) = [x \in Thing |-> 0]
  BY <1>6 DEF Holds
<1>8. Counted(things, [x \in Thing |-> 0])
  BY <1>1, <1>6, FreedIs DEF Counted
<1>9. Balanced(things, pools, instances, object.res, d)
  BY <1>1, <1>4, <1>7, <1>8, NoObjectIs DEF Balanced
<1> QED BY <1>1, <1>2, <1>9 DEF PoolsIInv, d, Pool

LEMMA ResHolds == ASSUME PoolsIInv PROVE ResourceInv
<1> DEFINE d == Res(userdata)
<1>1. /\ Owning(instances, object, userdata)
      /\ Balanced(things, pools, instances, object.res, d) /\ userdata \in [UserData -> DataRecord]
      /\ Holding(pools, instances, object.res, d) /\ Named(things, pools)
      /\ Counted(things, Holds(pools, instances, object.res, d))
  BY DEF PoolsIInv, Owning, Balanced
<1>2. ResTypeOK
  BY <1>1, ObjectIs DEF ResTypeOK, Holding
<1>3. ASSUME NEW x \in Thing
      PROVE  things[x].refs = Holders(x) /\ (things[x] = Freed <=> Holders(x) = 0)
  <2>1. things[x].refs = Count(Deps(things), x) + Holds(pools, instances, object.res, d)[x]
        /\ (things[x] = Freed <=> things[x].refs = 0)
    BY <1>1 DEF Counted
  <2>2. Holds(pools, instances, object.res, d)[x] = Count(Flat(pools), x) + Count(instances, x)
          + Count(d, x) + (IF object.res = x THEN 1 ELSE 0)
    BY DEF Holds
  <2>3. /\ Places(Flat(pools), x) = {e \in Pool \X Slot : pools[e[1]][e[2]] = x}
        /\ Places(Deps(things), x) = {y \in Thing : things[y].dep = x}
        /\ Places(instances, x) = {i \in Instance : instances[i] = x}
        /\ Places(d, x) = {u \in UserData : userdata[u].res = x}
    BY <1>1 DEF Places, Flat, Deps, Res, Holding
  <2>4. /\ Count(Flat(pools), x) \in Nat /\ Count(instances, x) \in Nat /\ Count(d, x) \in Nat
        /\ Count(Deps(things), x) \in Nat
    BY <1>1, Finitely, DepsFinite DEF Counted
  <2>5. Holders(x) = Count(Flat(pools), x) + Count(Deps(things), x) + Count(instances, x) + Count(d, x)
                     + (IF object.res = x THEN 1 ELSE 0)
    BY <2>3 DEF Holders, Count
  <2> HIDE DEF d
  <2> QED BY <2>1, <2>2, <2>4, <2>5
<1>4. ASSUME NEW i \in Instance
      PROVE  Cardinality(Owners(i)) = IF instances[i] # 0 THEN 1 ELSE 0
  <2>1. i # 0
    BY IndexIs
  <2>2. CASE object.ps = i
    <3>1. instances[i] # 0
      BY <2>1, <2>2, ObjectIs
    <3>2. \A u \in UserData : u # object.rc => userdata[u].ptr # i
      BY <1>1, <2>1, <2>2 DEF Owning
    <3>3. Owners(i) = {0}
      BY <2>2, <3>2 DEF Owners
    <3> QED BY <3>1, <3>3, FS_Singleton
  <2>3. CASE object.ps # i /\ instances[i] # 0
    <3>1. PICK u \in UserData : u # object.rc /\ userdata[u].ptr = i
      BY <1>1, <2>3 DEF Owning
    <3>2. \A v \in UserData : v # object.rc /\ userdata[v].ptr = i => v = u
      BY <1>1, <2>1, <3>1 DEF Owning
    <3>3. Owners(i) = {u}
      BY <2>3, <3>1, <3>2 DEF Owners
    <3> QED BY <2>3, <3>3, FS_Singleton
  <2>4. CASE object.ps # i /\ instances[i] = 0
    <3>1. \A u \in UserData : u # object.rc => userdata[u].ptr # i
      BY <1>1, <2>1, <2>4 DEF Owning
    <3>2. Owners(i) = {}
      BY <2>4, <3>1 DEF Owners
    <3> QED BY <2>4, <3>2, FS_EmptySet
  <2> QED BY <2>2, <2>3, <2>4
<1>5. PoolsOwned
  <2>1. \A u \in UserData : u = object.rc => userdata[u].ptr = object.ps
    BY ObjectIs, IndexIs
  <2> QED BY <1>4, <2>1, ObjectIs DEF PoolsOwned
<1> QED BY <1>2, <1>3, <1>5 DEF ResourceInv, RefsExact

\* Whatever is loaded, removed, cleared, shown and collected, in any order: a
\* resource lives exactly as long as something holds it, and each particle pool
\* has one owner.
THEOREM ResourceLives == ResSpec => []ResourceInv
<1>1. PoolsIInv /\ [ResNext]_resVars => PoolsIInv'
  BY ResStep
<1> QED BY <1>1, ResStart, ResHolds, PTL DEF ResSpec
==============================================================================
