------------------------------- MODULE Window -------------------------------
(***************************************************************************)
(* A window: the text that is typed into it, and the application whose     *)
(* frames its messages may run.                                            *)
(***************************************************************************)
EXTENDS TextInput, Application

\* What a window does with text that is typed and with frames in modal loops.
WindowInv == TextInv /\ AppInv
==============================================================================
