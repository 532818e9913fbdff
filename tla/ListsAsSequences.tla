--------------------------- MODULE ListsAsSequences ---------------------------
(***************************************************************************)
(* The lists of a family read the way the pool iterates them: first(),     *)
(* then the next fields up to null.                                        *)
(***************************************************************************)
EXTENDS GameObjectLinkedList, Naturals, Sequences, FiniteSets

\* s is what one reads with h and the next fields of k.
Reads(s, h, k) ==
  /\ h.first = IF Len(s) = 0 THEN null ELSE s[1]
  /\ \A i \in 1 .. Len(s) : k.next[s[i]] = IF i = Len(s) THEN null ELSE s[i + 1]

\* A list that does not read as one sequence of its members, because objects are
\* missing, foreign ones are in it or it has no end, is none of the abstract ones.
Orders(M) == [1 .. Cardinality(M) -> M]

Walk(h, k, M) ==
  IF \E s \in Orders(M) : Reads(s, h, k) THEN CHOOSE s \in Orders(M) : Reads(s, h, k)
  ELSE <<null>>

AsSequences == INSTANCE ObjectSequences WITH
                 seqs <- [l \in List |-> Walk(head[l], links, Members(l))]

\* Iterating a list from first() along the next fields gives the objects put
\* into it, each once and in order of insertion, whatever was added, removed,
\* moved or reset before (GameObjectPool.h, GameObjectLinkedList).
ImplementsSequences == AsSequences!Spec
==============================================================================
