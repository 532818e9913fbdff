---------------------------- MODULE ObjectSequences ----------------------------
(***************************************************************************)
(* What a family of object lists promises: each list is a sequence, an     *)
(* object is in at most one of them, insertion is at the end and removal   *)
(* keeps the order of the others.                                          *)
(***************************************************************************)
EXTENDS Naturals, Sequences, SequencesExt

CONSTANTS Object, List

VARIABLE seqs

Elements(s) == {s[i] : i \in 1 .. Len(s)}

Without(s, o) ==
  IF o \in Elements(s) THEN RemoveAt(s, CHOOSE i \in 1 .. Len(s) : s[i] = o) ELSE s

Init == seqs = [l \in List |-> << >>]

PushBack(o, l) ==
  /\ \A m \in List : o \notin Elements(seqs[m])
  /\ seqs' = [seqs EXCEPT ![l] = Append(@, o)]

Drop(o) ==
  /\ \E l \in List : o \in Elements(seqs[l])
  /\ seqs' = [l \in List |-> Without(seqs[l], o)]

Relocate(o, l) ==
  /\ \E m \in List : o \in Elements(seqs[m])
  /\ seqs' = [m \in List |-> IF m = l THEN Append(Without(seqs[m], o), o)
                                      ELSE Without(seqs[m], o)]

Empty == seqs' = [l \in List |-> << >>]

Next ==
  \/ \E o \in Object, l \in List : PushBack(o, l) \/ Relocate(o, l)
  \/ \E o \in Object : Drop(o)
  \/ Empty

Spec == Init /\ [][Next]_seqs
==============================================================================
