---------------------------- MODULE ObjectIterator ----------------------------
(***************************************************************************)
(* for i, o in lstg.ObjList(group) do ... end: a script walks a detect     *)
(* list with an iterator that keeps the id of the object it returns next.  *)
(* The body of the loop is script code, which may create objects, reset    *)
(* them or change their groups, also those the iterator is to reach.  With *)
(* a single list it is the iterator over the update list.                  *)
(***************************************************************************)
EXTENDS GameObjectLinkedList

VARIABLES
  iterated,     \* the list of the iterator, or null when no loop runs
  next_id,      \* the upvalue id of the iterator: the next object; null stands for 0
  to_come, passed,    \* history: the members that were left alone since the loop began,
                \* those still to come and those that were returned
  again,        \* history: one of them was returned twice
  touched,      \* history: the body moved or freed the next object ...
  ever_touched  \* ... since it was fetched, or at any time in this loop

historyVars  == <<to_come, passed, again, touched, ever_touched>>
iteratorVars == <<listVars, iterated, next_id, historyVars>>

IteratorInit ==
  /\ ListsInit /\ iterated = null /\ next_id = null
  /\ to_come = {} /\ passed = {}
  /\ again = FALSE /\ touched = FALSE /\ ever_touched = FALSE

\* Mutant: whatever list the object is in now.
getNextOfAnyList(group, object) == links.next[object]

\* The slot of a freed object gives no object, and one that changed its group
\* ends the walk.
getDetectListNext(group, object) ==
  IF member[object] = group THEN links.next[object] ELSE null

ObjList(group) ==
  /\ iterated = null
  /\ iterated' = group /\ next_id' = head[group].first
  /\ to_come' = Members(group)
  /\ UNCHANGED <<listVars, passed, again, touched, ever_touched>>

\* The iterator fetches the next object before the body runs for this one.
NextObject ==
  /\ iterated # null /\ next_id # null
  /\ next_id' = getDetectListNext(iterated, next_id)
  /\ to_come' = to_come \ {next_id}
  /\ passed' = passed \cup ({next_id} \cap to_come)
  /\ again' = (again \/ next_id \in passed)
  /\ touched' = FALSE
  /\ UNCHANGED <<listVars, iterated, ever_touched>>

\* The iterator has returned nil, or the body leaves the loop.
LeaveLoop ==
  /\ iterated # null
  /\ iterated' = null /\ next_id' = null /\ to_come' = {} /\ passed' = {}
  /\ again' = FALSE /\ touched' = FALSE /\ ever_touched' = FALSE
  /\ UNCHANGED listVars

\* Scripts change the lists by the objects S, in the body or between loops.
\* Once the next object was among them the history ends.
Disturbs(S) ==
  /\ touched' = (touched \/ next_id \in S)
  /\ ever_touched' = (ever_touched \/ next_id \in S)
  /\ to_come'  = IF ever_touched' THEN {} ELSE to_come \ S
  /\ passed' = IF ever_touched' THEN {} ELSE passed \ S
  /\ UNCHANGED <<iterated, next_id, again>>

IteratorNext ==
  \/ \E l \in List : ObjList(l)
  \/ NextObject
  \/ LeaveLoop
  \/ \E o \in Object, l \in List : (Insert(o, l) \/ Move(o, l)) /\ Disturbs({o})
  \/ \E o \in Object : Erase(o) /\ Disturbs({o})
  \/ Reset /\ Disturbs(Object)

IteratorSpec == IteratorInit /\ [][IteratorNext]_iteratorVars

------------------------------------------------------------------------------
\* The next object is in the group asked for unless the body itself moved or
\* freed it after it was fetched: however far the walk was led astray, it does
\* not go on through the list of another group.  As long as the body touches
\* only the object it was given, or others that are not next, the loop gets
\* every object that stays, and none of them twice, although objects leave,
\* come and are appended meanwhile (GameObjectPool.h, getDetectListNext;
\* embedded-script/luastg/GameObject.lua, lstg.ObjList; the documentation of
\* the group forbids changing it in the loop).
IteratorInv ==
  /\ next_id # null /\ ~touched => member[next_id] = iterated
  /\ ~ever_touched =>
       /\ ~again
       /\ next_id = null => to_come = {}
==============================================================================
