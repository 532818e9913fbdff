------------------------------ MODULE SuperPause ------------------------------
(***************************************************************************)
(* The super pause of the pool: lstg.SetSuperPause(t) freezes every object *)
(* that is not exempt for t frames.  A frame is ObjFrame, which moves the  *)
(* objects, followed by AfterFrame, which ticks their timers; each skips   *)
(* the frozen ones.  The first version of the frame loop advances the      *)
(* pause counters in ObjFrame, the second in AfterFrame.  The module       *)
(* follows one object that is never exempt.                                *)
(***************************************************************************)
EXTENDS Integers

CONSTANT PauseBound      \* longest pause a script asks for

ASSUME PauseAssumption == PauseBound \in Nat

VARIABLES
  version,           \* version argument of ObjFrame and AfterFrame, the choice
                     \* of the main script, 1 or 2
  m_superpause, m_nextsuperpause,
  due,               \* the pass that comes next, "ObjFrame" or "AfterFrame"
  lead,              \* history: how often moved minus how often ticked
  pending,           \* history: a call has not been loaded by a pass yet
  asked,             \* history: the pause the last loaded call asked for
  frozen             \* history: ObjFrames skipped since it was loaded

pauseVars == <<version, m_superpause, m_nextsuperpause, due, lead, pending, asked, frozen>>

PauseTypeOK ==
  /\ version \in {1, 2}
  /\ m_superpause \in 0 .. PauseBound /\ m_nextsuperpause \in 0 .. PauseBound
  /\ due \in {"ObjFrame", "AfterFrame"}
  /\ lead \in Int /\ pending \in BOOLEAN
  /\ asked \in 0 .. PauseBound /\ frozen \in Nat

PauseInit ==
  /\ version \in {1, 2}
  /\ m_superpause = 0 /\ m_nextsuperpause = 0
  /\ due = "ObjFrame"
  /\ lead = 0 /\ pending = FALSE /\ asked = 0 /\ frozen = 0

\* SetSuperPause(t), and AddSuperPause(t - GetSuperPause()), between the passes
\* or from a callback.
SetNextFrameSuperPauseTime(t) ==
  /\ m_nextsuperpause' = t
  /\ pending' = TRUE
  /\ UNCHANGED <<version, m_superpause, due, lead, asked, frozen>>

UpdateSuperPause ==
  /\ m_superpause' = m_nextsuperpause
  /\ m_nextsuperpause' = IF m_nextsuperpause > 0 THEN m_nextsuperpause - 1 ELSE 0
  /\ pending' = FALSE
  /\ asked' = IF pending THEN m_nextsuperpause ELSE asked

KeepSuperPause == UNCHANGED <<m_superpause, m_nextsuperpause, pending, asked>>

\* Mutants: the second version advances the counters where the first does, as
\* it did before v0.21.13; it advances them in both passes.
UpdateInFirst(pass) == IF pass = "ObjFrame" THEN UpdateSuperPause ELSE KeepSuperPause
UpdateInBoth(pass)  == UpdateSuperPause

\* What the pass does to the counters before it tests m_superpause.
UpdateIn(pass) ==
  IF pass = (IF version = 1 THEN "ObjFrame" ELSE "AfterFrame")
  THEN UpdateSuperPause ELSE KeepSuperPause

ObjFrame ==
  /\ due = "ObjFrame" /\ due' = "AfterFrame" /\ UNCHANGED version
  /\ UpdateIn("ObjFrame")
  /\ lead' = IF m_superpause' > 0 THEN lead ELSE lead + 1
  /\ frozen' = (IF pending /\ ~ pending' THEN 0 ELSE frozen)
               + (IF m_superpause' > 0 THEN 1 ELSE 0)

AfterFrame ==
  /\ due = "AfterFrame" /\ due' = "ObjFrame" /\ UNCHANGED version
  /\ UpdateIn("AfterFrame")
  /\ lead' = IF m_superpause' > 0 THEN lead ELSE lead - 1
  /\ frozen' = IF pending /\ ~ pending' THEN 0 ELSE frozen

PauseNext ==
  \/ ObjFrame \/ AfterFrame
  \/ \E t \in 0 .. PauseBound : SetNextFrameSuperPauseTime(t)

PauseSpec == PauseInit /\ [][PauseNext]_pauseVars

------------------------------------------------------------------------------
\* An object that is not frozen has been moved exactly as often as its timer
\* has been ticked whenever a frame begins: no sequence of pauses, extended or
\* cancelled at any point, makes the two drift apart (updateMovementsLegacy
\* with updateNextLegacy, updateMovements with updateNext).
NoDrift ==
  due = "ObjFrame" =>
    lead = IF version = 2 /\ m_superpause > 0 THEN 1 ELSE 0

\* A pause of t frames freezes exactly t frames from the pass that loads it,
\* neither one more nor one less: those frozen so far and those the counters
\* still hold make up t (SetNextFrameSuperPauseTime, UpdateSuperPause).
Left == IF version = 2 /\ due = "ObjFrame" THEN m_superpause ELSE m_nextsuperpause

PauseIsExact == ~ pending => frozen + Left = asked
==============================================================================
