---------------------------- MODULE ListenerLists ----------------------------
(***************************************************************************)
(* Vectors of listeners.  Erasing entries keeps the others in their order: *)
(* of the entries that stay, the n-th comes n-th.                          *)
(***************************************************************************)
EXTENDS Naturals, Sequences, FiniteSets

Kept(s, X)     == {i \in DOMAIN s : s[i] \notin X}
Place(s, X, i) == Cardinality({j \in Kept(s, X) : j <= i})

\* std::erase of what is in X
Erased(s, X) ==
  [n \in 1 .. Cardinality(Kept(s, X)) |-> s[CHOOSE i \in Kept(s, X) : Place(s, X, i) = n]]
==============================================================================
