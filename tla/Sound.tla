-------------------------------- MODULE Sound -------------------------------
(***************************************************************************)
(* The sounds of the engine: effects, and the engine that owns their       *)
(* voices.                                                                 *)
(***************************************************************************)
EXTENDS SoundEffect, AudioEngine

\* What holds of script, player and voice of an effect and of the listeners,
\* channels and voices of the engine, whatever either does (SoundEffect,
\* AudioEngine).
SoundInv == EffectInv /\ AudioInv
==============================================================================
