---------------------------- MODULE LinkedListOps ----------------------------
(***************************************************************************)
(* GameObjectLinkedList<FieldAssessor> of GameObjectPool.h as operators on *)
(* values.  A list is its head h = [first, last]; the link fields live in  *)
(* the objects themselves (the list is intrusive) and are the functions of *)
(* k = [prev, next].  Several lists may share one pair of link fields, as  *)
(* the sixteen detect lists do, so head and links are separate arguments.  *)
(***************************************************************************)
CONSTANT null            \* nullptr

EmptyHead == [first |-> null, last |-> null]

NoLinks(S) == [prev |-> [o \in S |-> null], next |-> [o \in S |-> null]]

empty(h) == h.first = null /\ h.last = null

\* add() appends.  In a list that is not empty it leaves the next field of
\* the appended object as it finds it.
AddHead(h, o) == IF empty(h) THEN [first |-> o, last |-> o]
                             ELSE [first |-> h.first, last |-> o]

AddLinks(h, k, o) ==
  IF empty(h)
  THEN [prev |-> [k.prev EXCEPT ![o] = null],
        next |-> [k.next EXCEPT ![o] = null]]
  ELSE [prev |-> [k.prev EXCEPT ![o] = h.last],
        next |-> [k.next EXCEPT ![h.last] = o]]

Sole(h, o) == h.first = o /\ h.last = o

\* remove() has a path of its own for the only element, which clears the
\* head and leaves the links alone.
RemoveHead(h, k, o) ==
  IF Sole(h, o) THEN EmptyHead
  ELSE [first |-> IF h.first = o THEN k.next[o] ELSE h.first,
        last  |-> IF h.last  = o THEN k.prev[o] ELSE h.last]

\* Mutant: the removed object keeps its own links.
RemoveLinksKeepsOwn(h, k, o) ==
  IF Sole(h, o) THEN k
  ELSE [prev |-> [x \in DOMAIN k.prev |-> IF x = k.next[o] THEN k.prev[o] ELSE k.prev[x]],
        next |-> [x \in DOMAIN k.next |-> IF x = k.prev[o] THEN k.next[o] ELSE k.next[x]]]

RemoveLinks(h, k, o) ==
  IF Sole(h, o) THEN k
  ELSE [prev |-> [x \in DOMAIN k.prev |->
                    IF x = o THEN null
                    ELSE IF x = k.next[o] THEN k.prev[o] ELSE k.prev[x]],
        next |-> [x \in DOMAIN k.next |->
                    IF x = o THEN null
                    ELSE IF x = k.prev[o] THEN k.next[o] ELSE k.next[x]]]

------------------------------------------------------------------------------
\* What the code relies on.  M is the set of objects the owner believes to be
\* in the list with head h.
WellFormed(h, k, M) ==
  /\ h.first = null <=> M = {}
  /\ h.last  = null <=> M = {}
  /\ h.first # null => h.first \in M
  /\ h.last  # null => h.last  \in M
  /\ \A o \in M :
       /\ k.prev[o] = null <=> h.first = o
       /\ k.next[o] = null <=> h.last = o
       /\ k.prev[o] # null => k.prev[o] \in M /\ k.next[k.prev[o]] = o
       /\ k.next[o] # null => k.next[o] \in M /\ k.prev[k.next[o]] = o

Detached(k, o) == k.prev[o] = null /\ k.next[o] = null
==============================================================================
