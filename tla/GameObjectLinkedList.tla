------------------------- MODULE GameObjectLinkedList -------------------------
(***************************************************************************)
(* A family of intrusive lists that share their link fields: the detect    *)
(* lists of the pool (one list per collision group) or, with a single      *)
(* element in List, its update list.  Every operation of the pool on such  *)
(* a family is one of the four actions below.                              *)
(***************************************************************************)
EXTENDS LinkedListOps

CONSTANTS Object, List

ASSUME NullAssumption == null \notin Object /\ null \notin List

VARIABLES
  head,      \* head[l]: m_first and m_last of list l
  links,     \* the previous and next fields of every object
  member     \* member[o]: the list the owner put o into, or null

listVars == <<head, links, member>>

Members(l) == {o \in Object : member[o] = l}

ListsTypeOK ==
  /\ head \in [List -> [first : Object \cup {null}, last : Object \cup {null}]]
  /\ links \in [prev : [Object -> Object \cup {null}],
                next : [Object -> Object \cup {null}]]
  /\ member \in [Object -> List \cup {null}]

ListsInit ==
  /\ head = [l \in List |-> EmptyHead]
  /\ links = NoLinks(Object)
  /\ member = [o \in Object |-> null]

\* allocateWithCallbacks: the new object goes to the tail of its list.
Insert(o, l) ==
  /\ member[o] = null
  /\ head' = [head EXCEPT ![l] = AddHead(head[l], o)]
  /\ links' = AddLinks(head[l], links, o)
  /\ member' = [member EXCEPT ![o] = l]

\* freeWithCallbacks: the object leaves the list it is in.
Erase(o) ==
  /\ member[o] # null
  /\ LET l == member[o] IN
       /\ head' = [head EXCEPT ![l] = RemoveHead(head[l], links, o)]
       /\ links' = RemoveLinks(head[l], links, o)
  /\ member' = [member EXCEPT ![o] = null]

\* setGroup and DirtResetObject: remove from the present list, then add to
\* the tail of list l, which may be the same one.
Move(o, l) ==
  /\ member[o] # null
  /\ LET from  == member[o]
         head1 == [head EXCEPT ![from] = RemoveHead(head[from], links, o)]
         link1 == RemoveLinks(head[from], links, o)
     IN /\ head' = [head1 EXCEPT ![l] = AddHead(head1[l], o)]
        /\ links' = AddLinks(head1[l], link1, o)
  /\ member' = [member EXCEPT ![o] = l]

\* ResetPool as a whole: it frees one object after the other until none is left.
\* The clear() behind that finds empty lists; it would leave first and last of
\* one that is not.
Reset ==
  /\ head' = [l \in List |-> EmptyHead]
  /\ links' = NoLinks(Object)
  /\ member' = [o \in Object |-> null]

ListsNext ==
  \/ \E o \in Object, l \in List : Insert(o, l) \/ Move(o, l)
  \/ \E o \in Object : Erase(o)
  \/ Reset

ListsSpec == ListsInit /\ [][ListsNext]_listVars

------------------------------------------------------------------------------
\* Every list is a well formed chain of exactly the objects its owner put in
\* it, and an object in no list has null links.  The second conjunct is what
\* makes add() correct: it does not write the next field of the object it
\* appends, so a stale value there would splice another chain into the list
\* (GameObjectPool.h, add and remove; the assertions at lines 82 and 83).
LinksInv ==
  /\ \A l \in List : WellFormed(head[l], links, Members(l))
  /\ \A o \in Object : member[o] = null => Detached(links, o)
==============================================================================
