---------------------------- MODULE MCEngineCore ----------------------------
(***************************************************************************)
(* The small parts of the engine that do not interact with each other,     *)
(* checked in one run: a behaviour chooses a part and follows it, so the   *)
(* state space is the sum of theirs and not the product.                   *)
(***************************************************************************)
EXTENDS ListsAsSequences, ObjectIterator, FixedObjectPool, SuperPause,
        Sound, GlyphCache, Window, ParticlePool, FileSystemWatcher

VARIABLE part

\* Two fonts that share a code, glyphs of several widths and heights, and one
\* that is too big for any image.
FontsDef == <<[space |-> <<0, 0>>, a |-> <<1, 1>>, b |-> <<2, 1>>],
              [a |-> <<2, 2>>, d |-> <<3, 3>>, big |-> <<6, 1>>]>>
MissingDef == <<2, 2>>

\* Without end, and two ticks.
LifetimesDef == {-1, 2}

coreVars == <<part, iteratorVars, poolVars, pauseVars, soundVars, audioVars,
              glyphVars, textVars, appVars, particleVars, watcherVars>>

\* Every part has a state; a part that is not followed has one initial state.
CoreInit ==
  /\ part \in {"lists", "pool", "pause", "sound", "audio", "glyphs",
              "text", "app", "particles", "watcher"}
  /\ IteratorInit /\ PoolInit /\ GlyphInit
  /\ PauseInit /\ (part # "pause" => version = 1)
  /\ AudioInit
  /\ SoundInit /\ (part # "sound" => m_voice)
  /\ TextInit /\ AppInit
  /\ WatcherInit
  /\ ParticleInit /\ (part # "particles" => nEmission = 1 /\ fLifetime = 2)

Keeps(p, vars) == IF part = p THEN TRUE ELSE UNCHANGED vars

Follows(p) ==
  /\ part = p /\ UNCHANGED part
  /\ Keeps("lists", iteratorVars) /\ Keeps("pool", poolVars) /\ Keeps("pause", pauseVars)
  /\ Keeps("sound", soundVars) /\ Keeps("audio", audioVars)
  /\ Keeps("glyphs", glyphVars) /\ Keeps("text", textVars) /\ Keeps("app", appVars)
  /\ Keeps("particles", particleVars) /\ Keeps("watcher", watcherVars)

CoreNext ==
  \/ Follows("lists") /\ IteratorNext
  \/ Follows("pool") /\ PoolNext
  \/ Follows("pause") /\ PauseNext
  \/ Follows("sound") /\ SoundNext
  \/ Follows("audio") /\ AudioNext
  \/ Follows("glyphs") /\ GlyphNext
  \/ Follows("text") /\ TextNext
  \/ Follows("app") /\ AppNext
  \/ Follows("particles") /\ ParticleNext
  \/ Follows("watcher") /\ WatcherNext

CoreSpec ==
  /\ CoreInit /\ [][CoreNext]_coreVars
  /\ part = "sound" => SoundFairness
  /\ part = "app" => AppFairness
  /\ part = "watcher" => WatcherFairness
==============================================================================
