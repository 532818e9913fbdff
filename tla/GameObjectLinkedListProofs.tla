---------------------- MODULE GameObjectLinkedListProofs --------------------
(***************************************************************************)
(* Every list of the family stays well formed, for any set of objects and  *)
(* of lists, the iterator of a script reaches every object of its list,    *)
(* and read from first() the lists are the sequences they stand for.       *)
(***************************************************************************)
EXTENDS ObjectIterator, ListsAsSequences, LinkedListLemmas, SequenceTheorems, FiniteSetTheorems,
        WellFoundedInduction

Content == [l \in List |-> Members(l)]

IInv ==
  /\ ListsTypeOK
  /\ Family(head, links, Content, Object, List)

\* Empty lists.
LEMMA InitIInv == ListsInit => IInv
<1> SUFFICES ASSUME ListsInit PROVE IInv
  OBVIOUS
<1>1. ListsTypeOK
  BY DEF ListsInit, ListsTypeOK, EmptyHead, NoLinks
<1>2. Content = [l \in List |-> {}]
  BY NullAssumption DEF ListsInit, Members, Content
<1>3. Family([l \in List |-> EmptyHead], NoLinks(Object), [l \in List |-> {}], Object, List)
  BY NullAssumption, FamilyEmpty
<1> QED BY <1>1, <1>2, <1>3 DEF IInv, ListsInit

\* Every operation of the lists.
LEMMA StepIInv == IInv /\ [ListsNext]_listVars => IInv'
<1> SUFFICES ASSUME IInv, [ListsNext]_listVars PROVE IInv'
  OBVIOUS
<1>t. /\ member \in [Object -> List \cup {null}]
      /\ Family(head, links, Content, Object, List)
  BY DEF IInv, ListsTypeOK
<1>i. ASSUME member' \in [Object -> List \cup {null}],
             Family(head', links', Content', Object, List)
      PROVE  IInv'
  <2>1. head' \in [List -> HeadType(Object)] /\ links' \in LinkType(Object)
    BY <1>i DEF Family
  <2> QED BY <1>i, <2>1 DEF IInv, ListsTypeOK, HeadType, LinkType
<1>1. ASSUME NEW o \in Object, NEW l \in List, Insert(o, l) PROVE IInv'
  <2>1. \A i \in List : o \notin Content[i]
    BY <1>1, NullAssumption DEF Insert, Content, Members
  <2>2. Family([head EXCEPT ![l] = AddHead(head[l], o)], AddLinks(head[l], links, o),
               [Content EXCEPT ![l] = Content[l] \cup {o}], Object, List)
    BY <2>1, <1>t, NullAssumption, FamilyAdd
  <2>3. Content' = [Content EXCEPT ![l] = Content[l] \cup {o}]
    BY <1>1, <1>t, NullAssumption DEF Insert, Content, Members
  <2>4. member' \in [Object -> List \cup {null}]
    BY <1>1, <1>t DEF Insert
  <2> QED BY <1>1, <2>2, <2>3, <2>4, <1>i DEF Insert
<1>2. ASSUME NEW o \in Object, NEW l \in List, Move(o, l) PROVE IInv'
  <2> DEFINE f  == member[o]
             hd == [head EXCEPT ![f] = RemoveHead(head[f], links, o)]
             k  == RemoveLinks(head[f], links, o)
             N  == [Content EXCEPT ![f] = Content[f] \ {o}]
  <2>1. f \in List /\ o \in Content[f]
    BY <1>2, <1>t DEF Move, Content, Members
  <2>2. Family(hd, k, N, Object, List)
    BY <2>1, <1>t, NullAssumption, FamilyRemove
  <2>3. head' = [hd EXCEPT ![l] = AddHead(hd[l], o)] /\ links' = AddLinks(hd[l], k, o)
    BY <1>2 DEF Move
  <2>4. \A i \in List : o \notin N[i]
    BY DEF Content, Members
  <2> HIDE DEF hd, k, N
  <2>5. Family(head', links', [N EXCEPT ![l] = N[l] \cup {o}], Object, List)
    BY <2>2, <2>3, <2>4, NullAssumption, FamilyAdd
  <2>6. Content' = [N EXCEPT ![l] = N[l] \cup {o}]
    BY <1>2, <1>t, NullAssumption DEF Move, Content, Members, N
  <2>7. member' \in [Object -> List \cup {null}]
    BY <1>2, <1>t DEF Move
  <2> QED BY <2>5, <2>6, <2>7, <1>i
<1>3. ASSUME NEW o \in Object, Erase(o) PROVE IInv'
  <2> DEFINE f == member[o]
  <2>1. f \in List /\ o \in Content[f]
    BY <1>3, <1>t DEF Erase, Content, Members
  <2>2. Family([head EXCEPT ![f] = RemoveHead(head[f], links, o)],
               RemoveLinks(head[f], links, o),
               [Content EXCEPT ![f] = Content[f] \ {o}], Object, List)
    BY <2>1, <1>t, NullAssumption, FamilyRemove
  <2>3. Content' = [Content EXCEPT ![f] = Content[f] \ {o}]
    BY <1>3, <1>t, <2>1, NullAssumption DEF Erase, Content, Members
  <2>4. member' \in [Object -> List \cup {null}]
    BY <1>3, <1>t DEF Erase
  <2> QED BY <1>3, <2>2, <2>3, <2>4, <1>i DEF Erase
<1>4. CASE Reset
  <2>1. ListsInit'
    BY <1>4 DEF Reset, ListsInit
  <2> QED BY <2>1, InitIInv, PTL
<1>5. CASE UNCHANGED listVars
  BY <1>5 DEF listVars, IInv, ListsTypeOK, Content, Members
<1> QED BY <1>1, <1>2, <1>3, <1>4, <1>5 DEF ListsNext

\* Every list of the family is a chain of exactly the objects put into it and
\* a free object has null links, at all times (LinksInv).
THEOREM ListsWellFormed == ListsSpec => []LinksInv
<1>1. IInv => LinksInv
  <2> SUFFICES ASSUME IInv PROVE LinksInv
    OBVIOUS
  <2>1. \A l \in List : WellFormed(head[l], links, Members(l))
    BY DEF IInv, Family, Chained, Content
  <2>2. \A o \in Object : member[o] = null => Detached(links, o)
    BY NullAssumption DEF IInv, Family, Content, Members
  <2> QED BY <2>1, <2>2 DEF LinksInv
<1> QED BY InitIInv, StepIInv, <1>1, PTL DEF ListsSpec

------------------------------------------------------------------------------
(* The iterator over one of the lists.  While nothing touched the object it  *)
(* is to return next, what is still to come lies in the list from there on,  *)
(* and what was returned lies before it; the ranks of Ordered say so.        *)

InOrder(hd, k, M, r, b) ==
  r \in [Object -> Nat] /\ b \in Nat /\ Ordered(hd, k, M, r, b)

Along(r) ==
  /\ \A x \in to_come : r[next_id] <= r[x]
  /\ \A x \in passed : r[x] < r[next_id]

Walking ==
  /\ ~ again /\ ~ touched
  /\ to_come \subseteq Members(iterated) /\ passed \subseteq Members(iterated)
  /\ next_id = null => to_come = {}
  /\ next_id # null =>
       \E r, b : InOrder(head[iterated], links, Members(iterated), r, b) /\ Along(r)

IterInv ==
  /\ IInv
  /\ iterated \in List \cup {null} /\ next_id \in Object \cup {null}
  /\ again \in BOOLEAN /\ touched \in BOOLEAN /\ ever_touched \in BOOLEAN
  /\ touched => ever_touched
  /\ iterated = null =>
       next_id = null /\ to_come = {} /\ passed = {} /\ ~ again /\ ~ ever_touched
  /\ next_id # null /\ ~ touched => member[next_id] = iterated
  /\ ever_touched => to_come = {} /\ passed = {}
  /\ iterated # null /\ ~ ever_touched => Walking

\* One list of a family keeps its order, and the ranks of what stays in it, when
\* an object leaves or joins one of the lists.
LEMMA OrderRemove ==
  ASSUME NEW hd, NEW k, NEW N, Family(hd, k, N, Object, List),
         NEW f \in List, NEW o \in N[f], NEW g \in List, NEW r, NEW b,
         InOrder(hd[g], k, N[g], r, b)
  PROVE  InOrder([hd EXCEPT ![f] = RemoveHead(hd[f], k, o)][g], RemoveLinks(hd[f], k, o),
                 [N EXCEPT ![f] = N[f] \ {o}][g], r, b)
<1>1. /\ hd \in [List -> HeadType(Object)] /\ k \in LinkType(Object)
      /\ N \in [List -> SUBSET Object] /\ null \notin Object
      /\ \A l \in List : WellFormed(hd[l], k, N[l])
      /\ \A l, m \in List : l # m => N[l] \cap N[m] = {}
      /\ Chained(hd[f], k, N[f], Object)
      /\ r \in [Object -> Nat] /\ b \in Nat /\ Ordered(hd[g], k, N[g], r, b)
  BY NullAssumption DEF Family, InOrder, Chained
<1>2. CASE g = f
  <2>1. Ordered(RemoveHead(hd[f], k, o), RemoveLinks(hd[f], k, o), N[f] \ {o}, r, b)
    BY <1>1, <1>2, RemoveOrdered
  <2> QED BY <1>1, <1>2, <2>1 DEF InOrder
<1>3. CASE g # f
  <2>1. SameLinks(k, RemoveLinks(hd[f], k, o), Object \ N[f])
    BY <1>1, RemoveLemma
  <2>2. SameLinks(k, RemoveLinks(hd[f], k, o), N[g])
    <3>1. \A x \in N[g] : x \in Object \ N[f]
      BY <1>1, <1>3
    <3> QED BY <2>1, <3>1 DEF SameLinks
  <2>3. Ordered(hd[g], RemoveLinks(hd[f], k, o), N[g], r, b)
    BY <1>1, <2>2, OrderedFrame
  <2> QED BY <1>1, <1>3, <2>3 DEF InOrder
<1> QED BY <1>2, <1>3

\* Adding at the end gives the new object the next rank, and leaves the others theirs.
LEMMA OrderAdd ==
  ASSUME NEW hd, NEW k, NEW N, Family(hd, k, N, Object, List),
         NEW t \in List, NEW o \in Object, \A l \in List : o \notin N[l],
         NEW g \in List, NEW r, NEW b, InOrder(hd[g], k, N[g], r, b)
  PROVE  InOrder([hd EXCEPT ![t] = AddHead(hd[t], o)][g], AddLinks(hd[t], k, o),
                 [N EXCEPT ![t] = N[t] \cup {o}][g], [r EXCEPT ![o] = b], b + 1)
<1> DEFINE q == [r EXCEPT ![o] = b]
<1>1. /\ hd \in [List -> HeadType(Object)] /\ k \in LinkType(Object)
      /\ N \in [List -> SUBSET Object] /\ null \notin Object
      /\ \A l \in List : WellFormed(hd[l], k, N[l])
      /\ \A l, m \in List : l # m => N[l] \cap N[m] = {}
      /\ Chained(hd[t], k, N[t], Object) /\ Detached(k, o)
      /\ r \in [Object -> Nat] /\ b \in Nat /\ Ordered(hd[g], k, N[g], r, b)
  BY NullAssumption DEF Family, InOrder, Chained
<1>2. q \in [Object -> Nat] /\ b + 1 \in Nat /\ b <= b + 1
      /\ \A x \in Object : x # o => q[x] = r[x]
  BY <1>1
<1>3. CASE g = t
  <2>1. Ordered(AddHead(hd[t], o), AddLinks(hd[t], k, o), N[t] \cup {o}, q, b + 1)
    BY <1>1, <1>3, AddOrdered
  <2> HIDE DEF q
  <2> QED BY <1>1, <1>2, <1>3, <2>1 DEF InOrder, q
<1>4. CASE g # t
  <2>1. SameLinks(k, AddLinks(hd[t], k, o), Object \ (N[t] \cup {o}))
    BY <1>1, AddLemma
  <2>2. SameLinks(k, AddLinks(hd[t], k, o), N[g]) /\ \A x \in N[g] : q[x] = r[x]
    <3>1. \A x \in N[g] : x \in Object \ (N[t] \cup {o})
      BY <1>1, <1>4
    <3> QED BY <1>2, <2>1, <3>1 DEF SameLinks
  <2> HIDE DEF q
  <2>3. Ordered(hd[g], AddLinks(hd[t], k, o), N[g], q, b + 1)
    <3>1. hd[g] \in HeadType(Object) /\ N[g] \in SUBSET Object
      BY <1>1
    <3> QED BY <1>1, <1>2, <2>2, <3>1, OrderedFrame
  <2> QED BY <1>1, <1>2, <1>4, <2>3 DEF InOrder, q
<1> QED BY <1>3, <1>4

\* The order of one list of the family, and the steps that change a list.
OrderedAs(g, r, b) == InOrder(head[g], links, Members(g), r, b)
Changes(o) == Erase(o) \/ \E l \in List : Insert(o, l) \/ Move(o, l)

\* What the four operations make of the order of a list: every object but the
\* one that is moved keeps its rank.
LEMMA OrderKept ==
  ASSUME IInv, NEW o \in Object, NEW g \in List, NEW r, NEW b, OrderedAs(g, r, b), Changes(o)
  PROVE  \E q, c : OrderedAs(g, q, c)' /\ \A x \in Object \ {o} : q[x] = r[x]
<1>t. /\ member \in [Object -> List \cup {null}]
      /\ Family(head, links, Content, Object, List)
      /\ InOrder(head[g], links, Content[g], r, b)
      /\ r \in [Object -> Nat] /\ null \notin List
  BY NullAssumption DEF IInv, ListsTypeOK, Content, InOrder, OrderedAs
<1>c. Content'[g] = Members(g)'
  BY DEF Content
<1>1. ASSUME NEW l \in List, Insert(o, l)
      PROVE  \E q, c : InOrder(head'[g], links', Content'[g], q, c)
                      /\ \A x \in Object \ {o} : q[x] = r[x]
  <2>1. \A i \in List : o \notin Content[i]
    BY <1>1, NullAssumption DEF Insert, Content, Members
  <2>2. InOrder([head EXCEPT ![l] = AddHead(head[l], o)][g], AddLinks(head[l], links, o),
                [Content EXCEPT ![l] = Content[l] \cup {o}][g], [r EXCEPT ![o] = b], b + 1)
    BY <2>1, <1>t, OrderAdd
  <2>3. Content' = [Content EXCEPT ![l] = Content[l] \cup {o}]
    BY <1>1, <1>t, NullAssumption DEF Insert, Content, Members
  <2>4. \A x \in Object \ {o} : [r EXCEPT ![o] = b][x] = r[x]
    BY <1>t
  <2>5. InOrder(head'[g], links', Content'[g], [r EXCEPT ![o] = b], b + 1)
    BY <1>1, <2>2, <2>3 DEF Insert
  <2> QED BY <2>4, <2>5
<1>2. ASSUME NEW l \in List, Move(o, l)
      PROVE  \E q, c : InOrder(head'[g], links', Content'[g], q, c)
                      /\ \A x \in Object \ {o} : q[x] = r[x]
  <2> DEFINE f  == member[o]
             hd == [head EXCEPT ![f] = RemoveHead(head[f], links, o)]
             k  == RemoveLinks(head[f], links, o)
             N  == [Content EXCEPT ![f] = Content[f] \ {o}]
  <2>1. f \in List /\ o \in Content[f]
    BY <1>2, <1>t DEF Move, Content, Members
  <2>2. Family(hd, k, N, Object, List)
    BY <2>1, <1>t, NullAssumption, FamilyRemove
  <2>3. head' = [hd EXCEPT ![l] = AddHead(hd[l], o)] /\ links' = AddLinks(hd[l], k, o)
    BY <1>2 DEF Move
  <2>4. \A i \in List : o \notin N[i]
    BY DEF Content, Members
  <2>5. InOrder(hd[g], k, N[g], r, b)
    BY <2>1, <1>t, OrderRemove
  <2> HIDE DEF hd, k, N
  <2>6. InOrder(head'[g], links', [N EXCEPT ![l] = N[l] \cup {o}][g], [r EXCEPT ![o] = b], b + 1)
    BY <2>2, <2>3, <2>4, <2>5, OrderAdd
  <2>7. Content' = [N EXCEPT ![l] = N[l] \cup {o}]
    <3>1. member \in [Object -> List \cup {null}] /\ member[o] # null
          /\ member' = [member EXCEPT ![o] = l]
      BY <1>2, <1>t DEF Move
    <3> QED BY <3>1, NullAssumption DEF Content, Members, N
  <2>8. \A x \in Object \ {o} : [r EXCEPT ![o] = b][x] = r[x]
    BY <1>t
  <2>9. InOrder(head'[g], links', Content'[g], [r EXCEPT ![o] = b], b + 1)
    BY <2>6, <2>7
  <2> QED BY <2>8, <2>9
<1>3. ASSUME Erase(o)
      PROVE  \E q, c : InOrder(head'[g], links', Content'[g], q, c)
                      /\ \A x \in Object \ {o} : q[x] = r[x]
  <2> DEFINE f == member[o]
  <2>1. f \in List /\ o \in Content[f]
    BY <1>3, <1>t DEF Erase, Content, Members
  <2>2. InOrder([head EXCEPT ![f] = RemoveHead(head[f], links, o)][g],
                RemoveLinks(head[f], links, o),
                [Content EXCEPT ![f] = Content[f] \ {o}][g], r, b)
    BY <2>1, <1>t, OrderRemove
  <2>3. Content' = [Content EXCEPT ![f] = Content[f] \ {o}]
    BY <1>3, <1>t, <2>1, NullAssumption DEF Erase, Content, Members
  <2>4. InOrder(head'[g], links', Content'[g], r, b)
    BY <1>3, <2>2, <2>3 DEF Erase
  <2> QED BY <2>4
<1> QED BY <1>c, <1>1, <1>2, <1>3 DEF OrderedAs, Changes

\* An operation on one object moves no other.
LEMMA MembersKept ==
  ASSUME IInv, NEW o \in Object, Changes(o)
  PROVE  \A x \in Object : x # o => member'[x] = member[x]
BY DEF IInv, ListsTypeOK, Erase, Insert, Move, Changes

\* No loop is under way.
LEMMA IterStarts ==
  ASSUME IteratorInit PROVE IterInv
<1>1. IInv
  BY InitIInv DEF IteratorInit
<1> QED BY <1>1 DEF IteratorInit, IterInv

\* ObjList starts at the front: all members are to come.
LEMMA LoopBegins ==
  ASSUME IterInv, NEW l \in List, ObjList(l) PROVE IterInv'
<1>1. /\ iterated = null /\ iterated' = l /\ next_id' = head[l].first
      /\ to_come' = Members(l) /\ passed' = {} /\ ~ again /\ ~ ever_touched /\ ~ touched
      /\ UNCHANGED <<listVars, again, touched, ever_touched>>
  BY DEF IterInv, ObjList
<1>2. IInv'
  <2>1. [ListsNext]_listVars
    BY <1>1
  <2> QED BY <2>1, StepIInv DEF IterInv
<1>3. Family(head, links, Content, Object, List) /\ null \notin List /\ null \notin Object
  BY NullAssumption DEF IterInv, IInv
<1>4. /\ WellFormed(head[l], links, Members(l)) /\ Members(l) \subseteq Object
      /\ head[l] \in HeadType(Object)
      /\ \E r \in [Object -> Nat], b \in Nat : Ordered(head[l], links, Members(l), r, b)
  BY <1>3 DEF Family, Chained, Content
<1>5. PICK r \in [Object -> Nat], b \in Nat : Ordered(head[l], links, Members(l), r, b)
  BY <1>4
<1>6. next_id' # null => next_id' \in Members(l) /\ member[next_id'] = l
  BY <1>1, <1>4 DEF WellFormed, Members
<1>7. next_id' = null => to_come' = {}
  BY <1>1, <1>4 DEF WellFormed
<1>8. InOrder(head[l], links, Members(l), r, b)
  BY <1>5 DEF InOrder
<1>9. Along(r)'
  BY <1>1, <1>5 DEF Along, Ordered
<1>10. Members(l)' = Members(l) /\ head' = head /\ links' = links /\ member' = member
  BY <1>1 DEF listVars, Members
<1>11. Walking'
  BY <1>1, <1>7, <1>8, <1>9, <1>10 DEF Walking
<1> QED BY <1>1, <1>2, <1>3, <1>4, <1>6, <1>10, <1>11 DEF IterInv, HeadType

\* An object that does not rank after o is no further in the list than o.
Ranks(k, r, x, o) ==
  /\ k.next[o] = null => r[x] <= r[o]
  /\ k.next[o] # null => (r[x] < r[k.next[o]] <=> r[x] <= r[o])
  /\ r[x] = r[o] => x = o

\* What follows an object in rank follows it in the list.
LEMMA NextInOrder ==
  ASSUME NEW M \in SUBSET Object, NEW h \in HeadType(Object), NEW k \in LinkType(Object),
         NEW r \in [Object -> Nat], NEW b, WellFormed(h, k, M), Ordered(h, k, M, r, b),
         NEW o \in M, NEW x \in M
  PROVE  Ranks(k, r, x, o)
BY AlongList DEF Ranks

\* The iterator returns one object and fetches the next.
LEMMA NextFetched ==
  ASSUME IterInv, NextObject PROVE IterInv'
<1>1. /\ iterated \in List /\ next_id \in Object /\ null \notin Object /\ null \notin List
      /\ next_id' = IF member[next_id] = iterated THEN links.next[next_id] ELSE null
      /\ to_come' = to_come \ {next_id} /\ passed' = passed \cup ({next_id} \cap to_come)
      /\ again' = (again \/ next_id \in passed) /\ touched' = FALSE
      /\ UNCHANGED <<head, links, member, iterated, ever_touched>>
  BY NullAssumption DEF IterInv, NextObject, getDetectListNext, listVars
<1>2. IInv'
  BY <1>1, StepIInv DEF IterInv, listVars
<1>3. /\ WellFormed(head[iterated], links, Members(iterated)) /\ Members(iterated) \subseteq Object
      /\ head[iterated] \in HeadType(Object) /\ links \in LinkType(Object)
  BY <1>1 DEF IterInv, IInv, Family, Chained, Content
<1>4. next_id' \in Object \cup {null} /\ (next_id' # null => member[next_id'] = iterated)
  BY <1>1, <1>3 DEF WellFormed, Members, LinkType
<1>5. CASE ever_touched
  <2>1. to_come' = {} /\ passed' = {} /\ again' \in BOOLEAN
    BY <1>1, <1>5 DEF IterInv
  <2> QED BY <1>1, <1>2, <1>4, <1>5, <2>1 DEF IterInv
<1>6. CASE ~ ever_touched
  <2>1. Walking /\ ~ touched /\ next_id \in Members(iterated) /\ iterated # null
    BY <1>1, <1>6 DEF IterInv, Members
  <2>2. PICK r, b : InOrder(head[iterated], links, Members(iterated), r, b) /\ Along(r)
    BY <1>1, <2>1 DEF Walking
  <2>3. r \in [Object -> Nat] /\ b \in Nat /\ Ordered(head[iterated], links, Members(iterated), r, b)
    BY <2>2 DEF InOrder
  <2>4. to_come \subseteq Members(iterated) /\ passed \subseteq Members(iterated)
        /\ next_id \notin passed /\ ~ again
    BY <2>1, <2>2, <2>3, <1>3 DEF Walking, Along
  <2>5. next_id' = links.next[next_id]
    BY <1>1, <2>1 DEF Members
  <2>6. ASSUME NEW x \in Members(iterated)
        PROVE  /\ links.next[next_id] = null => r[x] <= r[next_id]
               /\ links.next[next_id] # null => (r[x] < r[links.next[next_id]] <=> r[x] <= r[next_id])
               /\ r[x] = r[next_id] => x = next_id
               /\ r[x] \in Nat /\ r[next_id] \in Nat
               /\ links.next[next_id] # null => r[links.next[next_id]] \in Nat
    <3>1. links.next[next_id] # null => links.next[next_id] \in Object
      BY <1>1, <1>3 DEF LinkType
    <3>3. /\ links.next[next_id] = null => r[x] <= r[next_id]
          /\ links.next[next_id] # null =>
               (r[x] < r[links.next[next_id]] <=> r[x] <= r[next_id])
          /\ r[x] = r[next_id] => x = next_id
      <4>1. ASSUME NEW M, M = Members(iterated), NEW h, h = head[iterated], NEW k, k = links,
                   NEW o, o = next_id
            PROVE  Ranks(k, r, x, o)
        <5>1. /\ M \in SUBSET Object /\ h \in HeadType(Object) /\ k \in LinkType(Object)
              /\ WellFormed(h, k, M) /\ Ordered(h, k, M, r, b) /\ o \in M /\ x \in M
          BY <1>3, <2>1, <2>3, <4>1
        <5>2. r \in [Object -> Nat]
          BY <2>3
        <5> QED BY <5>1, <5>2, NextInOrder
      <4> QED BY <4>1 DEF Ranks
    <3>4. /\ r[x] \in Nat /\ r[next_id] \in Nat
          /\ links.next[next_id] # null => r[links.next[next_id]] \in Nat
      BY <1>1, <1>3, <2>3, <3>1
    <3> QED BY <3>3, <3>4
  <2>7. next_id' = null => to_come' = {}
    <3>1. \A x \in to_come : r[next_id] <= r[x]
      BY <2>2 DEF Along
    <3> QED BY <1>1, <2>4, <2>5, <2>6, <3>1
  <2>8. next_id' # null => Along(r)'
    <3> SUFFICES ASSUME next_id' # null PROVE Along(r)'
      OBVIOUS
    <3>1. \A x \in to_come : r[next_id] <= r[x]
      BY <2>2 DEF Along
    <3>2. \A x \in passed : r[x] < r[next_id]
      BY <2>2 DEF Along
    <3>3. \A x \in to_come' : r[next_id'] <= r[x]
      BY <1>1, <2>4, <2>5, <2>6, <3>1
    <3>4. \A x \in passed' : r[x] < r[next_id']
      BY <1>1, <2>1, <2>4, <2>5, <2>6, <3>2
    <3> QED BY <3>3, <3>4 DEF Along
  <2>9. Members(iterated)' = Members(iterated)
    BY <1>1 DEF Members
  <2>10. to_come' \subseteq Members(iterated) /\ passed' \subseteq Members(iterated) /\ ~ again'
    BY <1>1, <2>1, <2>4
  <2>11. Walking'
    BY <1>1, <2>2, <2>7, <2>8, <2>9, <2>10 DEF Walking
  <2> QED BY <1>1, <1>2, <1>4, <1>6, <2>10, <2>11 DEF IterInv
<1> QED BY <1>5, <1>6 DEF IterInv

\* The loop is left before its end.
LEMMA LoopEnds ==
  ASSUME IterInv, LeaveLoop PROVE IterInv'
<1>1. IInv'
  BY StepIInv DEF IterInv, LeaveLoop
<1> QED BY <1>1 DEF IterInv, LeaveLoop

\* The body of the loop moves, erases or inserts one object.
LEMMA BodyMoves ==
  ASSUME IterInv, NEW o \in Object, Changes(o), Disturbs({o})
  PROVE  IterInv'
<1>1. IInv'
  BY StepIInv DEF IterInv, ListsNext, Changes
<1>2. /\ touched' = (touched \/ next_id = o) /\ ever_touched' = (ever_touched \/ next_id = o)
      /\ to_come' = IF ever_touched' THEN {} ELSE to_come \ {o}
      /\ passed' = IF ever_touched' THEN {} ELSE passed \ {o}
      /\ UNCHANGED <<iterated, next_id, again>> /\ null \notin Object
  BY NullAssumption DEF Disturbs
<1>3. \A x \in Object : x # o => member'[x] = member[x]
  BY MembersKept DEF IterInv
<1>4. iterated # null /\ ~ ever_touched' => Walking'
  <2> SUFFICES ASSUME iterated # null, ~ ever_touched' PROVE Walking'
    OBVIOUS
  <2>1. Walking /\ ~ ever_touched /\ next_id # o /\ iterated \in List
    BY <1>2 DEF IterInv
  <2>2. to_come' = to_come \ {o} /\ passed' = passed \ {o} /\ ~ again' /\ ~ touched'
    BY <1>2, <2>1 DEF Walking
  <2>3. \A x \in Members(iterated) : x # o => x \in Members(iterated)' /\ x \in Object
    BY <1>2, <1>3 DEF Members
  <2>4. to_come' \subseteq Members(iterated)' /\ passed' \subseteq Members(iterated)'
    BY <2>1, <2>2, <2>3 DEF Walking
  <2>5. next_id = null => to_come' = {}
    BY <2>1, <2>2 DEF Walking
  <2>6. ASSUME next_id # null
        PROVE  \E r, b : InOrder(head'[iterated], links', Members(iterated)', r, b) /\ Along(r)'
    <3>1. PICK r, b : InOrder(head[iterated], links, Members(iterated), r, b) /\ Along(r)
      BY <2>1, <2>6 DEF Walking
    <3>2. PICK q, c : OrderedAs(iterated, q, c)' /\ \A x \in Object \ {o} : q[x] = r[x]
      <4>1. OrderedAs(iterated, r, b)
        BY <3>1 DEF OrderedAs
      <4>2. PICK q, c : \E g \in List : /\ g = iterated /\ OrderedAs(g, q, c)'
                                        /\ \A x \in Object \ {o} : q[x] = r[x]
        BY <2>1, <4>1, OrderKept DEF IterInv
      <4> QED BY <1>2, <4>2 DEF OrderedAs
    <3>3. q[next_id] = r[next_id] /\ (\A x \in to_come' \cup passed' : q[x] = r[x])
      BY <2>1, <2>2, <2>3, <2>6, <3>2 DEF Walking, IterInv
    <3>4. Along(q)'
      BY <1>2, <2>2, <3>1, <3>3 DEF Along
    <3> QED BY <1>2, <3>2, <3>4 DEF OrderedAs
  <2>7. Members(iterated') = Members(iterated) /\ iterated' = iterated
    BY <1>2
  <2> QED BY <1>2, <2>2, <2>4, <2>5, <2>6, <2>7 DEF Walking, Members
<1>5. next_id # null /\ ~ touched' => member'[next_id] = iterated
  BY <1>2, <1>3 DEF IterInv
<1>6. ever_touched' => to_come' = {} /\ passed' = {}
  BY <1>2
<1>7. iterated = null => next_id # o
  BY <1>2 DEF IterInv
<1> QED BY <1>1, <1>2, <1>4, <1>5, <1>6, <1>7 DEF IterInv

\* The body of the loop resets the pool.
LEMMA PoolReset ==
  ASSUME IterInv, Reset, Disturbs(Object) PROVE IterInv'
<1>1. IInv'
  BY StepIInv DEF IterInv, ListsNext
<1>2. /\ touched' = (touched \/ next_id \in Object)
      /\ ever_touched' = (ever_touched \/ next_id \in Object)
      /\ to_come' = IF ever_touched' THEN {} ELSE to_come \ Object
      /\ passed' = IF ever_touched' THEN {} ELSE passed \ Object
      /\ UNCHANGED <<iterated, next_id, again>> /\ null \notin Object
  BY NullAssumption DEF Disturbs
<1>3. iterated # null /\ ~ ever_touched' =>
        Walking /\ next_id = null /\ ~ touched' /\ to_come' = {} /\ passed' = {}
  BY <1>2 DEF IterInv, Walking, Members
<1>4. iterated # null /\ ~ ever_touched' => Walking'
  BY <1>2, <1>3 DEF Walking
<1>5. ever_touched' => to_come' = {} /\ passed' = {}
  BY <1>2
<1>6. iterated = null => next_id = null /\ to_come' = {} /\ passed' = {} /\ ~ ever_touched'
  BY <1>2 DEF IterInv
<1>7. next_id # null => touched' /\ ever_touched'
  BY <1>2 DEF IterInv
<1> QED BY <1>1, <1>2, <1>4, <1>5, <1>6, <1>7 DEF IterInv

\* For any number of objects and lists and whatever the body of the loop does to
\* other objects than the next one, the iterator returns every object that stays
\* exactly once; and it never goes on through another list (IteratorInv).
THEOREM IteratorReachesAll == IteratorSpec => []IteratorInv
<1>1. IteratorInit => IterInv
  BY IterStarts
<1>2. IterInv /\ [IteratorNext]_iteratorVars => IterInv'
  <2> SUFFICES ASSUME IterInv, [IteratorNext]_iteratorVars PROVE IterInv'
    OBVIOUS
  <2>1. CASE \E l \in List : ObjList(l)
    BY <2>1, LoopBegins
  <2>2. CASE NextObject
    BY <2>2, NextFetched
  <2>3. CASE LeaveLoop
    BY <2>3, LoopEnds
  <2>4. CASE \/ \E o \in Object, l \in List : (Insert(o, l) \/ Move(o, l)) /\ Disturbs({o})
             \/ \E o \in Object : Erase(o) /\ Disturbs({o})
    BY <2>4, BodyMoves DEF Changes
  <2>5. CASE Reset /\ Disturbs(Object)
    BY <2>5, PoolReset
  <2>6. CASE UNCHANGED iteratorVars
    <3>1. IInv'
      BY <2>6, StepIInv DEF IterInv, iteratorVars
    <3> QED BY <2>6, <3>1
            DEF IterInv, iteratorVars, historyVars, listVars, Walking, Along, Members
  <2> QED BY <2>1, <2>2, <2>3, <2>4, <2>5, <2>6 DEF IteratorNext
<1>3. IterInv => IteratorInv
  BY DEF IterInv, IteratorInv, Walking
<1> QED BY <1>1, <1>2, <1>3, PTL DEF IteratorSpec
------------------------------------------------------------------------------
\* The lists as sequences: s is what one reads of a list from first() forwards
\* and from last() backwards, each member once.
IsList(s, h, k, M) ==
  /\ s \in Seq(M)
  /\ \A x \in M : \E i \in 1 .. Len(s) : s[i] = x
  /\ \A i, j \in 1 .. Len(s) : s[i] = s[j] => i = j
  /\ Reads(s, h, k)
  /\ h.last = IF Len(s) = 0 THEN null ELSE s[Len(s)]
  /\ \A i \in 1 .. Len(s) : k.prev[s[i]] = IF i = 1 THEN null ELSE s[i - 1]

\* A set of indices that is not empty has a least one.
LEMMA LeastIndex ==
  ASSUME NEW T \in SUBSET Nat, T # {}
  PROVE  \E n \in T : \A m \in T : n <= m
<1> DEFINE R == {s \in Nat \X Nat : s[1] < s[2]}
<1>1. IsWellFoundedOn(R, Nat)
  BY NatLessThanWellFounded DEF OpToRel
<1>2. PICK n \in T : \A m \in T : ~ (<<m, n>> \in R)
  BY <1>1, WFMin
<1>3. \A m \in T : <<m, n>> \in Nat \X Nat /\ (m < n => <<m, n>> \in R)
  OBVIOUS
<1>4. \A m \in T : ~ (m < n)
  BY <1>2, <1>3
<1> QED BY <1>4

\* What a list reads is a sequence of as many objects as it has members.
LEMMA AllMembers ==
  ASSUME NEW s, NEW h, NEW k, NEW M, IsList(s, h, k, M)
  PROVE  s \in Orders(M) /\ Len(s) = Cardinality(M) /\ Len(s) \in Nat /\ DOMAIN s = 1 .. Len(s)
<1>1. s \in [1 .. Len(s) -> M] /\ Len(s) \in Nat
  BY LenProperties DEF IsList
<1>2. s \in Bijection(1 .. Len(s), M)
  BY <1>1 DEF IsList, Bijection, Injection, Surjection, IsInjective
<1>3. Cardinality(M) = Len(s)
  BY <1>1, <1>2, FS_CountingElements DEF ExistsBijection
<1> QED BY <1>1, <1>3 DEF Orders

\* And nothing else can be read of it.
LEMMA ReadsOnce ==
  ASSUME NEW s, NEW h, NEW k, NEW M, null \notin M, IsList(s, h, k, M),
         NEW t \in Orders(M), Reads(t, h, k)
  PROVE  t = s
<1> DEFINE n == Cardinality(M)
<1>1. n \in Nat /\ Len(s) = n /\ s \in [1 .. n -> M] /\ t \in [1 .. n -> M]
  BY AllMembers DEF Orders
<1>2. Len(t) = n
  BY <1>1, IsASeq, LenProperties
<1> HIDE DEF n
<1>3. /\ \A i \in 1 .. n : k.next[s[i]] = IF i = n THEN null ELSE s[i + 1]
      /\ \A i \in 1 .. n : k.next[t[i]] = IF i = n THEN null ELSE t[i + 1]
      /\ n # 0 => s[1] = t[1]
  BY <1>1, <1>2 DEF IsList, Reads
<1> DEFINE T == {i \in 1 .. n : s[i] # t[i]}
<1>4. T = {}
  <2> SUFFICES ASSUME T # {} PROVE FALSE
    OBVIOUS
  <2>0. T \in SUBSET Nat
    BY <1>1
  <2>1. PICK i \in T : \A j \in T : i <= j
    <3> HIDE DEF T
    <3> QED BY <2>0, LeastIndex
  <2>2. i # 1 /\ i - 1 \in 1 .. n /\ s[i - 1] = t[i - 1]
    BY <1>1, <1>3, <2>1
  <2>3. s[(i - 1) + 1] = t[(i - 1) + 1]
    BY <1>1, <1>3, <2>2
  <2> QED BY <1>1, <2>1, <2>3
<1> QED BY <1>1, <1>4

\* So the walk of a list is the sequence it was built as.
LEMMA WalkIs ==
  ASSUME NEW s, NEW h, NEW k, NEW M, null \notin M, IsList(s, h, k, M)
  PROVE  Walk(h, k, M) = s
<1>1. s \in Orders(M) /\ Reads(s, h, k)
  BY AllMembers DEF IsList
<1>2. \A t \in Orders(M) : Reads(t, h, k) => t = s
  BY ReadsOnce
<1> QED BY <1>1, <1>2 DEF Walk

\* add() appends to the sequence.
LEMMA ListAdd ==
  ASSUME NEW S, null \notin S, NEW M \in SUBSET S, NEW h \in HeadType(S), NEW k \in LinkType(S),
         NEW o \in S, o \notin M, Detached(k, o), NEW s, IsList(s, h, k, M)
  PROVE  IsList(Append(s, o), AddHead(h, o), AddLinks(h, k, o), M \cup {o})
<1> DEFINE n == Len(s)
           t == Append(s, o)
           g == AddHead(h, o)
           j == AddLinks(h, k, o)
<1>1. n \in Nat /\ s \in [1 .. n -> M] /\ s \in Seq(M \cup {o})
  BY LenProperties, AllMembers DEF IsList, Orders
<1>2. /\ t \in Seq(M \cup {o}) /\ Len(t) = n + 1 /\ t[n + 1] = o
      /\ \A i \in 1 .. n : t[i] = s[i]
  BY <1>1, AppendProperties
<1>3. /\ n = 0 => h.first = null /\ h.last = null
      /\ n # 0 => h.first = s[1] /\ h.last = s[n]
      /\ \A i \in 1 .. n : k.next[s[i]] = IF i = n THEN null ELSE s[i + 1]
      /\ \A i \in 1 .. n : k.prev[s[i]] = IF i = 1 THEN null ELSE s[i - 1]
      /\ \A i, q \in 1 .. n : s[i] = s[q] => i = q
      /\ \A x \in M : \E i \in 1 .. n : s[i] = x
  BY DEF IsList, Reads
<1>4. /\ k.prev \in [S -> S \cup {null}] /\ k.next \in [S -> S \cup {null}]
      /\ k.next[o] = null
  BY DEF LinkType, Detached
<1> HIDE DEF n, t
<1>5. n = 0 => /\ g.first = o /\ g.last = o /\ j.prev[o] = null /\ j.next[o] = null
  BY <1>3, <1>4 DEF AddHead, AddLinks, empty
<1>6. ASSUME n # 0
      PROVE  /\ g.first = s[1] /\ g.last = o /\ j.prev[o] = s[n] /\ j.next[o] = null
             /\ j.next[s[n]] = o
             /\ \A x \in S : x # o => j.prev[x] = k.prev[x]
             /\ \A x \in S : x # s[n] => j.next[x] = k.next[x]
  <2>1. s[n] \in M /\ s[1] \in M
    BY <1>1, <1>6
  <2>2. ~ empty(h)
    BY <1>3, <1>6, <2>1 DEF empty
  <2>3. /\ g = [first |-> h.first, last |-> o]
        /\ j = [prev |-> [k.prev EXCEPT ![o] = h.last], next |-> [k.next EXCEPT ![h.last] = o]]
    BY <2>2 DEF AddHead, AddLinks
  <2> QED BY <1>3, <1>4, <1>6, <2>1, <2>3
<1> HIDE DEF g, j
<1>7. \A x \in M \cup {o} : \E i \in 1 .. n + 1 : t[i] = x
  <2>1. n + 1 \in 1 .. n + 1 /\ 1 .. n \subseteq 1 .. n + 1
    BY <1>1
  <2> QED BY <1>2, <1>3, <2>1
<1>8. \A i, q \in 1 .. n + 1 : t[i] = t[q] => i = q
  <2> SUFFICES ASSUME NEW i \in 1 .. n + 1, NEW q \in 1 .. n + 1, t[i] = t[q] PROVE i = q
    OBVIOUS
  <2>1. \A p \in 1 .. n + 1 : \/ p \in 1 .. n /\ t[p] = s[p] /\ t[p] \in M /\ t[p] # o
                              \/ p = n + 1 /\ t[p] = o
    BY <1>1, <1>2
  <2> QED BY <1>3, <2>1
<1>9. \A i \in 1 .. n + 1 : /\ j.next[t[i]] = IF i = n + 1 THEN null ELSE t[i + 1]
                            /\ j.prev[t[i]] = IF i = 1 THEN null ELSE t[i - 1]
  <2> SUFFICES ASSUME NEW i \in 1 .. n + 1
               PROVE  /\ j.next[t[i]] = IF i = n + 1 THEN null ELSE t[i + 1]
                      /\ j.prev[t[i]] = IF i = 1 THEN null ELSE t[i - 1]
    OBVIOUS
  <2>1. CASE i = n + 1 /\ n = 0
    BY <1>2, <1>5, <2>1
  <2>2. CASE i = n + 1 /\ n # 0
    <3>1. n \in 1 .. n /\ i - 1 = n
      BY <1>1, <2>2
    <3> QED BY <1>2, <1>6, <2>2, <3>1
  <2>3. CASE i = n /\ n # 0
    <3>1. i \in 1 .. n /\ t[i] = s[n] /\ s[n] \in M /\ s[n] # o /\ i + 1 = n + 1
      BY <1>1, <1>2, <2>3
    <3>2. i # 1 => i - 1 \in 1 .. n
      BY <1>1, <2>3
    <3> QED BY <1>2, <1>3, <1>6, <2>3, <3>1, <3>2
  <2>4. CASE i \in 1 .. n /\ i # n
    <3>1. i + 1 \in 1 .. n /\ t[i] = s[i] /\ s[i] \in M /\ s[i] # o /\ t[i + 1] = s[i + 1]
      BY <1>1, <1>2, <2>4
    <3>2. i # 1 => i - 1 \in 1 .. n
      BY <1>1, <2>4
    <3>3. n \in 1 .. n /\ n # 0 /\ s[i] # s[n]
      BY <1>1, <1>3, <2>4
    <3> QED BY <1>1, <1>2, <1>3, <1>6, <2>4, <3>1, <3>2, <3>3
  <2> QED BY <1>1, <2>1, <2>2, <2>3, <2>4
<1>10. /\ Len(t) # 0 /\ g.first = t[1] /\ g.last = t[Len(t)]
  <2>1. CASE n = 0
    BY <1>2, <1>5, <2>1
  <2>2. CASE n # 0
    <3>1. 1 \in 1 .. n
      BY <1>1, <2>2
    <3> QED BY <1>1, <1>2, <1>6, <2>2, <3>1
  <2> QED BY <2>1, <2>2
<1>11. IsList(t, g, j, M \cup {o})
  BY <1>1, <1>2, <1>7, <1>8, <1>9, <1>10 DEF IsList, Reads
<1> QED BY <1>11 DEF t, g, j

------------------------------------------------------------------------------
\* One element taken out of a sequence.
Out(s, at) == [i \in 1 .. Len(s) - 1 |-> IF i < at THEN s[i] ELSE s[i + 1]]

\* A sequence of distinct objects without its entry at an index.
LEMMA TakenOut ==
  ASSUME NEW M, NEW s \in Seq(M), NEW at \in 1 .. Len(s)
  PROVE  SubSeq(s, 1, at - 1) \o SubSeq(s, at + 1, Len(s)) = Out(s, at)
<1> DEFINE n == Len(s)
           a == SubSeq(s, 1, at - 1)
           b == SubSeq(s, at + 1, n)
<1>1. n \in Nat /\ at \in Nat /\ 1 <= at /\ at <= n
  BY LenProperties
<1>2. a \in Seq(M) /\ Len(a) = at - 1 /\ \A i \in 1 .. at - 1 : a[i] = s[i]
  BY <1>1, SubSeqProperties
<1>3. b \in Seq(M) /\ Len(b) = n - at /\ \A i \in 1 .. n - at : b[i] = s[at + i]
  BY <1>1, SubSeqProperties
<1> HIDE DEF a, b, n
<1>4. /\ a \o b \in Seq(M) /\ Len(a \o b) = n - 1
      /\ \A i \in 1 .. n - 1 : (a \o b)[i] = IF i <= at - 1 THEN a[i] ELSE b[i - (at - 1)]
  <2>1. /\ a \o b \in Seq(M) /\ Len(a \o b) = Len(a) + Len(b)
        /\ \A i \in 1 .. Len(a) + Len(b) : (a \o b)[i] = IF i <= Len(a) THEN a[i] ELSE b[i - Len(a)]
    BY <1>2, <1>3, ConcatProperties
  <2>2. Len(a) + Len(b) = n - 1 /\ Len(a) = at - 1
    BY <1>1, <1>2, <1>3
  <2> QED BY <2>1, <2>2
<1>5. \A i \in 1 .. n - 1 : (a \o b)[i] = IF i < at THEN s[i] ELSE s[i + 1]
  <2> SUFFICES ASSUME NEW i \in 1 .. n - 1
               PROVE  (a \o b)[i] = IF i < at THEN s[i] ELSE s[i + 1]
    OBVIOUS
  <2>1. CASE i < at
    BY <1>1, <1>2, <1>4, <2>1
  <2>2. CASE i >= at
    <3>1. i - (at - 1) \in 1 .. n - at /\ at + (i - (at - 1)) = i + 1
      BY <1>1, <2>2
    <3> QED BY <1>1, <1>3, <1>4, <2>2, <3>1
  <2>3. i < at \/ i >= at
    BY <1>1
  <2> QED BY <2>1, <2>2, <2>3
<1>6. a \o b = [i \in 1 .. n - 1 |-> (a \o b)[i]]
  BY <1>4, LenProperties
<1> QED BY <1>5, <1>6 DEF Out, a, b, n

\* Reading a list does not depend on the links of what is not in it.
LEMMA ListFrame ==
  ASSUME NEW s, NEW h, NEW k, NEW j, NEW M, IsList(s, h, k, M), SameLinks(k, j, M)
  PROVE  IsList(s, h, j, M)
<1>1. \A i \in 1 .. Len(s) : s[i] \in M
  BY AllMembers DEF Orders
<1> QED BY <1>1 DEF IsList, Reads, SameLinks

\* remove() takes its object out of the sequence, wherever it stands.
LEMMA ListRemove ==
  ASSUME NEW S, null \notin S, NEW M \in SUBSET S, NEW h \in HeadType(S), NEW k \in LinkType(S),
         NEW s, IsList(s, h, k, M), NEW at \in 1 .. Len(s)
  PROVE  IsList(Out(s, at), RemoveHead(h, k, s[at]), RemoveLinks(h, k, s[at]), M \ {s[at]})
<1> DEFINE n == Len(s)
           o == s[at]
           t == Out(s, at)
           g == RemoveHead(h, k, o)
           j == RemoveLinks(h, k, o)
<1>1. n \in Nat /\ s \in [1 .. n -> M] /\ at \in 1 .. n /\ n # 0
  BY AllMembers DEF Orders
<1>2. t = [i \in 1 .. n - 1 |-> IF i < at THEN s[i] ELSE s[i + 1]]
  BY DEF Out
<1>3. /\ h.first = s[1] /\ h.last = s[n]
      /\ \A i \in 1 .. n : k.next[s[i]] = IF i = n THEN null ELSE s[i + 1]
      /\ \A i \in 1 .. n : k.prev[s[i]] = IF i = 1 THEN null ELSE s[i - 1]
      /\ \A i, q \in 1 .. n : s[i] = s[q] => i = q
      /\ \A x \in M : \E i \in 1 .. n : s[i] = x
  BY <1>1 DEF IsList, Reads
<1>4. k.prev \in [S -> S \cup {null}] /\ k.next \in [S -> S \cup {null}] /\ o \in M
  BY <1>1 DEF LinkType
<1> HIDE DEF n, t, o
<1>5. \A i \in 1 .. n : s[i] \in M /\ s[i] # null /\ (s[i] = o <=> i = at)
  BY <1>1, <1>3 DEF o
<1>6. /\ \A i \in 1 .. n - 1 : t[i] = (IF i < at THEN s[i] ELSE s[i + 1]) /\ t[i] \in M \ {o}
      /\ t \in Seq(M \ {o}) /\ Len(t) = n - 1
  <2>1. ASSUME NEW i \in 1 .. n - 1
        PROVE  t[i] = (IF i < at THEN s[i] ELSE s[i + 1]) /\ t[i] \in M \ {o}
    <3>1. i \in 1 .. n /\ i + 1 \in 1 .. n /\ t[i] = IF i < at THEN s[i] ELSE s[i + 1]
      BY <1>1, <1>2
    <3>2. i < at => i # at
      BY <1>1
    <3>3. ~ i < at => i + 1 # at
      BY <1>1
    <3> QED BY <1>1, <1>5, <3>1, <3>2, <3>3
  <2>2. n - 1 \in Nat /\ t \in [1 .. n - 1 -> M \ {o}]
    BY <1>1, <1>2, <2>1
  <2> QED BY <2>1, <2>2, IsASeq, LenProperties
<1>7. \A x \in M \ {o} : \E i \in 1 .. n - 1 : t[i] = x
  <2> SUFFICES ASSUME NEW x \in M \ {o} PROVE \E i \in 1 .. n - 1 : t[i] = x
    OBVIOUS
  <2>1. PICK i \in 1 .. n : s[i] = x
    BY <1>3
  <2>2. CASE i < at
    <3>1. i \in 1 .. n - 1
      BY <1>1, <2>2
    <3> QED BY <1>6, <2>1, <2>2, <3>1
  <2>3. CASE i > at
    <3>1. i - 1 \in 1 .. n - 1 /\ ~ (i - 1 < at) /\ (i - 1) + 1 = i
      BY <1>1, <2>3
    <3> QED BY <1>6, <2>1, <3>1
  <2> QED BY <1>1, <1>5, <2>1, <2>2, <2>3
<1>8. \A i, q \in 1 .. n - 1 : t[i] = t[q] => i = q
  <2> SUFFICES ASSUME NEW i \in 1 .. n - 1, NEW q \in 1 .. n - 1, t[i] = t[q] PROVE i = q
    OBVIOUS
  <2> DEFINE u(p) == IF p < at THEN p ELSE p + 1
  <2>1. \A p \in 1 .. n - 1 : u(p) \in 1 .. n /\ t[p] = s[u(p)]
    BY <1>1, <1>6
  <2>2. s[u(i)] = s[u(q)] /\ u(i) \in 1 .. n /\ u(q) \in 1 .. n
    BY <2>1
  <2> HIDE DEF u
  <2>3. u(i) = u(q)
    BY <1>3, <2>2
  <2> QED BY <1>1, <2>3 DEF u
<1>9. Sole(h, o) <=> n = 1
  <2>1. 1 \in 1 .. n /\ n \in 1 .. n
    BY <1>1
  <2> QED BY <1>1, <1>3, <1>5, <2>1 DEF Sole
<1>10. CASE n = 1
  <2>1. g = EmptyHead /\ j = k
    BY <1>9, <1>10 DEF RemoveHead, RemoveLinks
  <2>2. Len(t) = 0 /\ 1 .. Len(t) = {}
    BY <1>6, <1>10
  <2>3. IsList(t, g, j, M \ {o})
    BY <1>6, <1>7, <1>10, <2>1, <2>2 DEF IsList, Reads, EmptyHead
  <2> QED BY <2>3 DEF t, o, g, j
<1>11. CASE n # 1
  <2>0. at # 1 => at - 1 \in 1 .. n
    BY <1>1
  <2>1. at # n => at + 1 \in 1 .. n
    BY <1>1
  <2>2. /\ k.next[o] = IF at = n THEN null ELSE s[at + 1]
        /\ k.prev[o] = IF at = 1 THEN null ELSE s[at - 1]
    BY <1>1, <1>3 DEF o
  <2>3. /\ g.first = IF at = 1 THEN s[2] ELSE s[1]
        /\ g.last = IF at = n THEN s[n - 1] ELSE s[n]
    <3>1. g = [first |-> IF h.first = o THEN k.next[o] ELSE h.first,
               last  |-> IF h.last  = o THEN k.prev[o] ELSE h.last]
      BY <1>9, <1>11 DEF RemoveHead
    <3>2. 1 \in 1 .. n /\ n \in 1 .. n
      BY <1>1
    <3>3. (h.first = o <=> at = 1) /\ (h.last = o <=> at = n)
      BY <1>3, <1>5, <3>2
    <3> QED BY <1>1, <1>3, <1>11, <2>2, <3>1, <3>3
  <2>4. /\ \A x \in S : j.prev[x] = IF x = o THEN null ELSE IF x = k.next[o] THEN k.prev[o] ELSE k.prev[x]
        /\ \A x \in S : j.next[x] = IF x = o THEN null ELSE IF x = k.prev[o] THEN k.next[o] ELSE k.next[x]
    BY <1>4, <1>9, <1>11 DEF RemoveLinks
  <2> HIDE DEF g, j
  <2>5. \A i \in 1 .. n : i # at =>
          /\ j.next[s[i]] = IF i + 1 = at THEN k.next[o] ELSE k.next[s[i]]
          /\ j.prev[s[i]] = IF i = at + 1 THEN k.prev[o] ELSE k.prev[s[i]]
    <3> SUFFICES ASSUME NEW i \in 1 .. n, i # at
                 PROVE  /\ j.next[s[i]] = IF i + 1 = at THEN k.next[o] ELSE k.next[s[i]]
                        /\ j.prev[s[i]] = IF i = at + 1 THEN k.prev[o] ELSE k.prev[s[i]]
      OBVIOUS
    <3>1. s[i] \in S /\ s[i] # o /\ s[i] # null
      BY <1>5
    <3>2. s[i] = k.prev[o] <=> i + 1 = at
      BY <1>1, <1>3, <2>0, <2>2, <3>1
    <3>3. s[i] = k.next[o] <=> i = at + 1
      BY <1>1, <1>3, <2>1, <2>2, <3>1
    <3> QED BY <2>4, <3>1, <3>2, <3>3
  <2>6. \A i \in 1 .. n - 1 : /\ j.next[t[i]] = IF i = n - 1 THEN null ELSE t[i + 1]
                              /\ j.prev[t[i]] = IF i = 1 THEN null ELSE t[i - 1]
    <3> SUFFICES ASSUME NEW i \in 1 .. n - 1
                 PROVE  /\ j.next[t[i]] = IF i = n - 1 THEN null ELSE t[i + 1]
                        /\ j.prev[t[i]] = IF i = 1 THEN null ELSE t[i - 1]
      OBVIOUS
    <3>0. /\ i # n - 1 => i + 1 \in 1 .. n - 1
          /\ i # 1 => i - 1 \in 1 .. n - 1
          /\ i \in 1 .. n /\ i + 1 \in 1 .. n
      BY <1>1
    <3>1. CASE i < at
      <4>1. t[i] = s[i] /\ i # at
        BY <1>1, <1>6, <3>1
      <4>2. /\ j.next[s[i]] = IF i + 1 = at THEN k.next[o] ELSE s[i + 1]
            /\ j.prev[s[i]] = IF i = 1 THEN null ELSE s[i - 1]
        <5>1. i # n /\ i # at + 1 /\ i \in 1 .. n
          BY <1>1, <3>0, <3>1
        <5> QED BY <1>3, <2>5, <4>1, <5>1
      <4>3. i # 1 => t[i - 1] = s[i - 1]
        BY <1>1, <1>6, <3>0, <3>1
      <4>4. i # n - 1 => t[i + 1] = IF i + 1 = at THEN s[i + 2] ELSE s[i + 1]
        BY <1>1, <1>6, <3>0, <3>1
      <4>5. i + 1 = at => k.next[o] = IF i = n - 1 THEN null ELSE s[i + 2]
        BY <1>1, <2>2
      <4>6. i + 1 # at => i # n - 1
        BY <1>1, <3>1
      <4> QED BY <4>1, <4>2, <4>3, <4>4, <4>5, <4>6
    <3>2. CASE i >= at
      <4>1. t[i] = s[i + 1] /\ i + 1 # at /\ (i + 1) + 1 # at
        BY <1>1, <1>6, <3>2
      <4>2. /\ j.next[s[i + 1]] = IF i + 1 = n THEN null ELSE s[i + 2]
            /\ j.prev[s[i + 1]] = IF i = at THEN k.prev[o] ELSE s[i]
        BY <1>1, <1>3, <2>5, <3>0, <3>2, <4>1
      <4>3. i # n - 1 => t[i + 1] = s[i + 2]
        BY <1>1, <1>6, <3>0, <3>2
      <4>4. i # 1 => t[i - 1] = IF i = at THEN s[i - 1] ELSE s[i]
        BY <1>1, <1>6, <3>0, <3>2
      <4>5. i = at => k.prev[o] = IF i = 1 THEN null ELSE s[i - 1]
        BY <1>1, <2>2
      <4>6. i # at => i # 1
        BY <1>1, <3>2
      <4> QED BY <1>1, <4>1, <4>2, <4>3, <4>4, <4>5, <4>6
    <3> QED BY <1>1, <3>1, <3>2
  <2>7. /\ Len(t) # 0 /\ g.first = t[1] /\ g.last = t[Len(t)]
    <3>1. 1 \in 1 .. n - 1 /\ n - 1 \in 1 .. n - 1 /\ Len(t) = n - 1
      BY <1>1, <1>6, <1>11
    <3>2. t[1] = IF at = 1 THEN s[2] ELSE s[1]
      BY <1>1, <1>6, <3>1
    <3>3. t[n - 1] = IF at = n THEN s[n - 1] ELSE s[n]
      BY <1>1, <1>6, <3>1
    <3> QED BY <1>1, <1>11, <2>3, <3>1, <3>2, <3>3
  <2>8. IsList(t, g, j, M \ {o})
    BY <1>6, <1>7, <1>8, <2>6, <2>7 DEF IsList, Reads
  <2> QED BY <2>8 DEF t, o, g, j
<1> QED BY <1>10, <1>11

------------------------------------------------------------------------------
\* The abstract operations on the sequence of a list.
LEMMA WithoutIs ==
  ASSUME NEW s, NEW h, NEW k, NEW M, IsList(s, h, k, M), NEW o
  PROVE  /\ AsSequences!Elements(s) = M
         /\ o \notin M => AsSequences!Without(s, o) = s
         /\ o \in M => \E at \in 1 .. Len(s) :
                         s[at] = o /\ AsSequences!Without(s, o) = Out(s, at)
<1>1. AsSequences!Elements(s) = M
  BY AllMembers DEF IsList, AsSequences!Elements, Orders
<1>2. ASSUME o \notin M PROVE AsSequences!Without(s, o) = s
  BY <1>1, <1>2 DEF AsSequences!Without
<1>3. ASSUME o \in M
      PROVE  \E at \in 1 .. Len(s) : s[at] = o /\ AsSequences!Without(s, o) = Out(s, at)
  <2> DEFINE at == CHOOSE i \in 1 .. Len(s) : s[i] = o
  <2>1. at \in 1 .. Len(s) /\ s[at] = o
    BY <1>3 DEF IsList
  <2>2. AsSequences!Without(s, o) = SubSeq(s, 1, at - 1) \o SubSeq(s, at + 1, Len(s))
    BY <1>1, <1>3 DEF AsSequences!Without, AsSequences!RemoveAt
  <2> HIDE DEF at
  <2>3. AsSequences!Without(s, o) = Out(s, at)
    BY <2>1, <2>2, TakenOut DEF IsList
  <2> QED BY <2>1, <2>3
<1> QED BY <1>1, <1>2, <1>3

AllLists(q, hd, k, N) == \A l \in List : IsList(q[l], hd[l], k, N[l])

\* remove() and add() in one list of the family.
LEMMA FamilyOut ==
  ASSUME NEW hd, NEW k, NEW N, Family(hd, k, N, Object, List), NEW q, AllLists(q, hd, k, N),
         NEW f \in List, NEW o \in N[f]
  PROVE  AllLists([l \in List |-> AsSequences!Without(q[l], o)],
                  [hd EXCEPT ![f] = RemoveHead(hd[f], k, o)], RemoveLinks(hd[f], k, o),
                  [N EXCEPT ![f] = N[f] \ {o}])
<1> DEFINE g == [hd EXCEPT ![f] = RemoveHead(hd[f], k, o)]
           j == RemoveLinks(hd[f], k, o)
           K == [N EXCEPT ![f] = N[f] \ {o}]
<1>1. /\ hd \in [List -> HeadType(Object)] /\ k \in LinkType(Object)
      /\ N \in [List -> SUBSET Object] /\ null \notin Object
      /\ \A l \in List : Chained(hd[l], k, N[l], Object)
      /\ \A l, m \in List : l # m => N[l] \cap N[m] = {}
  BY NullAssumption DEF Family
<1>2. SameLinks(k, j, Object \ N[f])
  BY <1>1, RemoveLemma
<1>3. \A l \in List : IsList(q[l], hd[l], k, N[l])
  BY DEF AllLists
<1>4. PICK at \in 1 .. Len(q[f]) :
        q[f][at] = o /\ AsSequences!Without(q[f], o) = Out(q[f], at)
  BY <1>3, WithoutIs
<1>5. IsList(Out(q[f], at), RemoveHead(hd[f], k, q[f][at]), RemoveLinks(hd[f], k, q[f][at]),
             N[f] \ {q[f][at]})
  BY <1>1, <1>3, ListRemove
<1>6. g[f] = RemoveHead(hd[f], k, o) /\ K[f] = N[f] \ {o}
      /\ \A l \in List : l # f => g[l] = hd[l] /\ K[l] = N[l]
  BY <1>1
<1> HIDE DEF g, j, K
<1>7. ASSUME NEW l \in List PROVE IsList(AsSequences!Without(q[l], o), g[l], j, K[l])
  <2>1. CASE l = f
    BY <1>4, <1>5, <1>6, <2>1 DEF j
  <2>2. CASE l # f
    <3>1. o \notin N[l] /\ SameLinks(k, j, N[l])
      BY <1>1, <1>2, <2>2 DEF SameLinks
    <3>2. IsList(q[l], hd[l], j, N[l])
      BY <1>3, <3>1, ListFrame
    <3> QED BY <1>3, <1>6, <2>2, <3>1, <3>2, WithoutIs
  <2> QED BY <2>1, <2>2
<1> QED BY <1>7 DEF AllLists, g, j, K

\* The other lists of the family keep their sequence when one gets an object.
LEMMA FamilyIn ==
  ASSUME NEW hd, NEW k, NEW N, Family(hd, k, N, Object, List), NEW q, AllLists(q, hd, k, N),
         NEW t \in List, NEW o \in Object, \A l \in List : o \notin N[l]
  PROVE  AllLists([l \in List |-> IF l = t THEN Append(q[l], o) ELSE q[l]],
                  [hd EXCEPT ![t] = AddHead(hd[t], o)], AddLinks(hd[t], k, o),
                  [N EXCEPT ![t] = N[t] \cup {o}])
<1> DEFINE g == [hd EXCEPT ![t] = AddHead(hd[t], o)]
           j == AddLinks(hd[t], k, o)
           K == [N EXCEPT ![t] = N[t] \cup {o}]
<1>1. /\ hd \in [List -> HeadType(Object)] /\ k \in LinkType(Object)
      /\ N \in [List -> SUBSET Object] /\ null \notin Object
      /\ \A l \in List : Chained(hd[l], k, N[l], Object)
      /\ \A l, m \in List : l # m => N[l] \cap N[m] = {}
      /\ Detached(k, o)
  BY NullAssumption DEF Family
<1>2. SameLinks(k, j, Object \ (N[t] \cup {o}))
  BY <1>1, AddLemma
<1>3. \A l \in List : IsList(q[l], hd[l], k, N[l])
  BY DEF AllLists
<1>5. IsList(Append(q[t], o), AddHead(hd[t], o), AddLinks(hd[t], k, o), N[t] \cup {o})
  BY <1>1, <1>3, ListAdd
<1>6. g[t] = AddHead(hd[t], o) /\ K[t] = N[t] \cup {o}
      /\ \A l \in List : l # t => g[l] = hd[l] /\ K[l] = N[l]
  BY <1>1
<1> HIDE DEF g, K
<1>7. ASSUME NEW l \in List, l # t PROVE IsList(q[l], g[l], j, K[l])
  <2>1. SameLinks(k, j, N[l])
    BY <1>1, <1>2, <1>7 DEF SameLinks
  <2>2. IsList(q[l], hd[l], j, N[l])
    BY <1>3, <2>1, ListFrame
  <2> QED BY <1>6, <1>7, <2>2
<1>8. IsList(Append(q[t], o), g[t], j, K[t])
  BY <1>5, <1>6
<1> QED BY <1>7, <1>8 DEF AllLists, g, j, K

------------------------------------------------------------------------------
\* What is read of the lists, and that it is all of them.
Read == [l \in List |-> Walk(head[l], links, Members(l))]

SeqsInv == IInv /\ AllLists(Read, head, links, Content)

\* The walks of a family are the sequences its lists were built as.
LEMMA WalksAre ==
  ASSUME NEW hd, NEW k, NEW N, NEW q, AllLists(q, hd, k, N), \A l \in List : null \notin N[l]
  PROVE  \A l \in List : Walk(hd[l], k, N[l]) = q[l]
BY WalkIs DEF AllLists

\* A step that leaves the lists q in the family reads them.
LEMMA ReadAfter ==
  ASSUME IInv', NEW q, AllLists(q, head', links', Content')
  PROVE  /\ AllLists(Read, head, links, Content)'
         /\ Read' = [l \in List |-> q[l]]
<1>1. \A l \in List : Content'[l] = Members(l)' /\ null \notin Content'[l]
  BY NullAssumption DEF Content, Members
<1>2. \A l \in List : Walk(head'[l], links', Content'[l]) = q[l]
  BY <1>1, WalksAre
<1>3. Read' = [l \in List |-> q[l]]
  BY <1>1, <1>2 DEF Read
<1> QED BY <1>3 DEF AllLists

\* Putting a free object in a list is the abstract PushBack.
LEMMA InsertSeq ==
  ASSUME SeqsInv, NEW o \in Object, NEW l \in List, Insert(o, l)
  PROVE  SeqsInv' /\ AsSequences!PushBack(o, l)
<1>1. IInv'
  BY StepIInv DEF SeqsInv, ListsNext
<1>2. Family(head, links, Content, Object, List) /\ AllLists(Read, head, links, Content)
  BY DEF SeqsInv, IInv
<1>3. \A m \in List : Content[m] = Members(m) /\ o \notin Content[m]
  BY NullAssumption DEF Insert, Content, Members
<1>4. Content' = [Content EXCEPT ![l] = Content[l] \cup {o}]
  <2>1. \A m \in List : Members(m)' = IF m = l THEN Members(m) \cup {o} ELSE Members(m)
    BY <1>3, NullAssumption DEF SeqsInv, IInv, ListsTypeOK, Insert, Members
  <2> QED BY <2>1 DEF Content
<1> DEFINE q == [m \in List |-> IF m = l THEN Append(Read[m], o) ELSE Read[m]]
<1>5. AllLists(q, head', links', Content')
  BY <1>2, <1>3, <1>4, FamilyIn DEF Insert
<1>6. AllLists(Read, head, links, Content)' /\ Read' = [m \in List |-> q[m]]
  <2> HIDE DEF q
  <2> QED BY <1>1, <1>5, ReadAfter
<1>7. \A m \in List : AsSequences!Elements(Read[m]) = Content[m]
  BY <1>2, WithoutIs DEF AllLists
<1>8. Read' = [Read EXCEPT ![l] = Append(@, o)]
  BY <1>6 DEF Read
<1> QED BY <1>1, <1>3, <1>6, <1>7, <1>8 DEF SeqsInv, AsSequences!PushBack, Read

\* Taking an object out of its list is the abstract Drop.
LEMMA EraseSeq ==
  ASSUME SeqsInv, NEW o \in Object, Erase(o)
  PROVE  SeqsInv' /\ AsSequences!Drop(o)
<1> DEFINE f == member[o]
<1>1. IInv'
  BY StepIInv DEF SeqsInv, ListsNext
<1>2. Family(head, links, Content, Object, List) /\ AllLists(Read, head, links, Content)
  BY DEF SeqsInv, IInv
<1>3. f \in List /\ o \in Content[f] /\ \A m \in List : Content[m] = Members(m)
  BY DEF SeqsInv, IInv, ListsTypeOK, Erase, Content, Members
<1>4. Content' = [Content EXCEPT ![f] = Content[f] \ {o}]
  <2>1. \A m \in List : Members(m)' = IF m = f THEN Members(m) \ {o} ELSE Members(m)
    BY <1>3, NullAssumption DEF SeqsInv, IInv, ListsTypeOK, Erase, Members
  <2> QED BY <2>1 DEF Content
<1> DEFINE q == [m \in List |-> AsSequences!Without(Read[m], o)]
<1>5. AllLists(q, head', links', Content')
  BY <1>2, <1>3, <1>4, FamilyOut DEF Erase
<1>6. AllLists(Read, head, links, Content)' /\ Read' = [m \in List |-> q[m]]
  <2> HIDE DEF q
  <2> QED BY <1>1, <1>5, ReadAfter
<1>7. \A m \in List : AsSequences!Elements(Read[m]) = Content[m]
  BY <1>2, WithoutIs DEF AllLists
<1> QED BY <1>1, <1>3, <1>6, <1>7 DEF SeqsInv, AsSequences!Drop, Read

\* Moving an object to the end of a list is the abstract Relocate.
LEMMA MoveSeq ==
  ASSUME SeqsInv, NEW o \in Object, NEW l \in List, Move(o, l)
  PROVE  SeqsInv' /\ AsSequences!Relocate(o, l)
<1> DEFINE f == member[o]
           hd == [head EXCEPT ![f] = RemoveHead(head[f], links, o)]
           k == RemoveLinks(head[f], links, o)
           N == [Content EXCEPT ![f] = Content[f] \ {o}]
           p == [m \in List |-> AsSequences!Without(Read[m], o)]
           q == [m \in List |-> IF m = l THEN Append(p[m], o) ELSE p[m]]
<1>1. IInv'
  BY StepIInv DEF SeqsInv, ListsNext
<1>2. Family(head, links, Content, Object, List) /\ AllLists(Read, head, links, Content)
  BY DEF SeqsInv, IInv
<1>3. /\ f \in List /\ o \in Content[f]
      /\ \A m \in List : Content[m] = Members(m) /\ (m # f => o \notin Content[m])
  BY DEF SeqsInv, IInv, ListsTypeOK, Move, Content, Members
<1>4. Content' = [N EXCEPT ![l] = N[l] \cup {o}] /\ \A m \in List : o \notin N[m]
  <2>1. \A m \in List : Members(m)' = IF m = l THEN Members(m) \cup {o}
                                     ELSE IF m = f THEN Members(m) \ {o} ELSE Members(m)
    BY <1>3, NullAssumption DEF SeqsInv, IInv, ListsTypeOK, Move, Members
  <2>2. \A m \in List : N[m] = IF m = f THEN Members(m) \ {o} ELSE Members(m)
    BY <1>3 DEF Content
  <2>3. \A m \in List : Content'[m] = [N EXCEPT ![l] = N[l] \cup {o}][m]
    BY <1>3, <2>1, <2>2 DEF Content
  <2>4. Content' = [m \in List |-> Content'[m]] /\ N = [m \in List |-> N[m]]
    BY DEF Content
  <2>5. \A m \in List : o \notin N[m]
    BY <1>3, <2>2
  <2> HIDE DEF N
  <2> QED BY <2>3, <2>4, <2>5
<1>5. AllLists(p, hd, k, N) /\ Family(hd, k, N, Object, List)
  BY <1>2, <1>3, NullAssumption, FamilyOut, FamilyRemove
<1>6. head' = [hd EXCEPT ![l] = AddHead(hd[l], o)] /\ links' = AddLinks(hd[l], k, o)
  BY DEF Move
<1>7. AllLists(q, head', links', Content')
  <2> HIDE DEF hd, k, N, p
  <2> QED BY <1>4, <1>5, <1>6, FamilyIn
<1>8. AllLists(Read, head, links, Content)' /\ Read' = [m \in List |-> q[m]]
  <2> HIDE DEF q
  <2> QED BY <1>1, <1>7, ReadAfter
<1>9. \A m \in List : AsSequences!Elements(Read[m]) = Content[m]
  BY <1>2, WithoutIs DEF AllLists
<1> QED BY <1>1, <1>3, <1>8, <1>9 DEF SeqsInv, AsSequences!Relocate, Read

\* A list after clear() is the empty sequence.
LEMMA EmptyList ==
  IsList(<< >>, EmptyHead, NoLinks(Object), {})
<1>1. << >> \in Seq({}) /\ Len(<< >>) = 0 /\ 1 .. 0 = {}
  BY EmptySeq
<1> QED BY <1>1 DEF IsList, Reads, EmptyHead

\* Iterating a list from first() along the next fields gives the objects put into
\* it, each once and in order of insertion, for any number of objects and lists
\* (ImplementsSequences).
THEOREM ListsImplementSequences == ListsSpec => ImplementsSequences
<1> DEFINE q == [l \in List |-> << >>]
<1>1. ListsInit => SeqsInv /\ AsSequences!Init
  <2> SUFFICES ASSUME ListsInit PROVE SeqsInv /\ AsSequences!Init
    OBVIOUS
  <2>1. IInv /\ \A l \in List : Members(l) = {} /\ Content[l] = {}
    BY InitIInv, NullAssumption DEF ListsInit, Members, Content
  <2>2. AllLists(q, head, links, Content)
    BY <2>1, EmptyList DEF ListsInit, AllLists
  <2>3. \A l \in List : Walk(head[l], links, Members(l)) = << >>
    <3>1. \A l \in List : null \notin Content[l]
      BY <2>1
    <3>2. \A l \in List : Walk(head[l], links, Content[l]) = q[l]
      <4> HIDE DEF q
      <4> QED BY <2>2, <3>1, WalksAre
    <3> QED BY <2>1, <3>2
  <2>4. Read = q
    BY <2>3 DEF Read
  <2> QED BY <2>1, <2>2, <2>4 DEF SeqsInv, AsSequences!Init, Read
<1>2. SeqsInv /\ [ListsNext]_listVars => SeqsInv' /\ [AsSequences!Next]_Read
  <2> SUFFICES ASSUME SeqsInv, [ListsNext]_listVars
               PROVE  SeqsInv' /\ [AsSequences!Next]_Read
    OBVIOUS
  <2>1. ASSUME NEW o \in Object, NEW l \in List, Insert(o, l) \/ Move(o, l)
        PROVE  SeqsInv' /\ AsSequences!Next
    BY <2>1, InsertSeq, MoveSeq DEF AsSequences!Next
  <2>2. ASSUME NEW o \in Object, Erase(o)
        PROVE  SeqsInv' /\ AsSequences!Next
    BY <2>2, EraseSeq DEF AsSequences!Next
  <2>3. CASE Reset
    <3>1. IInv'
      BY <2>3, StepIInv DEF SeqsInv, ListsNext
    <3>2. \A l \in List : Content'[l] = {}
      BY <2>3, NullAssumption DEF Reset, Members, Content
    <3>3. AllLists(q, head', links', Content')
      BY <2>3, <3>2, EmptyList DEF Reset, AllLists
    <3>4. AllLists(Read, head, links, Content)' /\ Read' = [l \in List |-> q[l]]
      <4> HIDE DEF q
      <4> QED BY <3>1, <3>3, ReadAfter
    <3> QED BY <3>1, <3>4 DEF SeqsInv, AsSequences!Next, AsSequences!Empty, Read
  <2>4. CASE UNCHANGED listVars
    <3>1. IInv'
      BY <2>4, StepIInv DEF SeqsInv
    <3>2. Content' = Content /\ Read' = Read
      BY <2>4 DEF listVars, Content, Read, Members
    <3> QED BY <2>4, <3>1, <3>2 DEF SeqsInv, listVars
  <2> QED BY <2>1, <2>2, <2>3, <2>4 DEF ListsNext
<1> QED BY <1>1, <1>2, PTL DEF ListsSpec, ImplementsSequences, AsSequences!Spec, Read
==============================================================================
