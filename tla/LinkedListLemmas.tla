--------------------------- MODULE LinkedListLemmas ---------------------------
(***************************************************************************)
(* What add() and remove() do to a well formed list, for any set of        *)
(* objects.  The proofs about the modules that keep their objects in such  *)
(* lists cite these lemmas instead of the definitions of the operators.    *)
(***************************************************************************)
EXTENDS LinkedListOps, Naturals, TLAPS

HeadType(S) == [first : S \cup {null}, last : S \cup {null}]
LinkType(S) == [prev : [S -> S \cup {null}], next : [S -> S \cup {null}]]

\* The links k and j agree on the objects of T.
SameLinks(k, j, T) ==
  \A x \in T : j.prev[x] = k.prev[x] /\ j.next[x] = k.next[x]

(***************************************************************************)
(* WellFormed alone is not inductive: a list of one object and a detached  *)
(* cycle of others satisfies it, and removing that object leaves an empty  *)
(* head with a non-empty set.  Ordered rules the cycle out: r gives every  *)
(* object the time of its insertion, all before b, and next leads to the   *)
(* object inserted next.                                                   *)
(***************************************************************************)
Ordered(h, k, M, r, b) ==
  /\ \A x \in M : r[x] < b /\ r[h.first] <= r[x] /\ r[x] <= r[h.last]
  /\ \A x, y \in M : r[x] = r[y] => x = y
  /\ \A x \in M : k.next[x] # null =>
       /\ r[x] < r[k.next[x]]
       /\ \A y \in M : r[x] < r[y] => r[k.next[x]] <= r[y]

Chained(h, k, M, S) ==
  /\ WellFormed(h, k, M)
  /\ \E r \in [S -> Nat], b \in Nat : Ordered(h, k, M, r, b)

\* A list whose only end object is o holds nothing else.
LEMMA SoleMember ==
  ASSUME NEW S, NEW M \in SUBSET S, NEW h \in HeadType(S),
         NEW k \in LinkType(S), NEW o \in M,
         NEW r \in [S -> Nat], NEW b \in Nat, Ordered(h, k, M, r, b), Sole(h, o)
  PROVE  M = {o}
<1>1. \A x \in M : r[x] = r[o]
  BY DEF Ordered, Sole
<1> QED BY <1>1 DEF Ordered

\* Two links that agree on the objects of a list describe the same list.
LEMMA ChainedFrame ==
  ASSUME NEW S, NEW M \in SUBSET S, NEW h \in HeadType(S),
         NEW k \in LinkType(S), NEW j \in LinkType(S), null \notin S,
         Chained(h, k, M, S), SameLinks(k, j, M)
  PROVE  Chained(h, j, M, S)
<1>1. WellFormed(h, j, M)
  BY DEF Chained, WellFormed, SameLinks, HeadType, LinkType
<1>2. PICK r \in [S -> Nat], b \in Nat : Ordered(h, k, M, r, b)
  BY DEF Chained
<1>3. Ordered(h, j, M, r, b)
  BY <1>2 DEF Ordered, SameLinks
<1> QED BY <1>1, <1>3 DEF Chained

\* What the order of a list says of a pointer that moves along it: it starts at
\* the least object, the next one is the least of those after the present one,
\* and it becomes null behind the greatest.
LEMMA AlongList ==
  ASSUME NEW S, NEW M \in SUBSET S, NEW h \in HeadType(S), NEW k \in LinkType(S),
         NEW r \in [S -> Nat], NEW b, WellFormed(h, k, M), Ordered(h, k, M, r, b),
         NEW o \in M, NEW x \in M
  PROVE  /\ h.first \in M /\ r[h.first] <= r[x]
         /\ k.next[o] = null => r[x] <= r[o]
         /\ k.next[o] # null => /\ k.next[o] \in M
                                /\ r[o] < r[k.next[o]]
                                /\ r[x] < r[k.next[o]] <=> r[x] <= r[o]
         /\ r[x] = r[o] => x = o
<1>1. r[h.first] <= r[x] /\ h.first \in M
  BY DEF WellFormed, Ordered
<1>2. ASSUME k.next[o] = null PROVE r[x] <= r[o]
  BY <1>2 DEF WellFormed, Ordered
<1>3. ASSUME k.next[o] # null
      PROVE  k.next[o] \in M /\ r[o] < r[k.next[o]] /\ (r[x] < r[k.next[o]] <=> r[x] <= r[o])
  <2>1. /\ k.next[o] \in M /\ r[o] < r[k.next[o]]
        /\ r[o] < r[x] => r[k.next[o]] <= r[x]
    BY <1>3 DEF WellFormed, Ordered
  <2> QED BY <2>1
<1>4. r[x] = r[o] => x = o
  BY DEF Ordered
<1> QED BY <1>1, <1>2, <1>3, <1>4

\* The order of a list depends on the ranks and links of its objects only.
LEMMA OrderedFrame ==
  ASSUME NEW S, NEW M \in SUBSET S, NEW h \in HeadType(S), NEW k, NEW j,
         NEW r \in [S -> Nat], NEW q \in [S -> Nat], NEW b \in Nat, NEW c \in Nat,
         WellFormed(h, k, M), Ordered(h, k, M, r, b), SameLinks(k, j, M),
         \A x \in M : q[x] = r[x], b <= c
  PROVE  Ordered(h, j, M, q, c)
<1>1. ASSUME NEW x \in M PROVE q[x] < c /\ q[h.first] <= q[x] /\ q[x] <= q[h.last]
  BY DEF WellFormed, Ordered
<1>2. \A x, y \in M : q[x] = q[y] => x = y
  BY DEF Ordered
<1>3. ASSUME NEW x \in M, j.next[x] # null
      PROVE  q[x] < q[j.next[x]] /\ \A y \in M : q[x] < q[y] => q[j.next[x]] <= q[y]
  <2>1. j.next[x] = k.next[x] /\ k.next[x] \in M
    BY <1>3 DEF SameLinks, WellFormed
  <2> QED BY <1>3, <2>1 DEF Ordered
<1> QED BY <1>1, <1>2, <1>3 DEF Ordered

\* add() and remove() keep the types of heads and links.
LEMMA AddType ==
  ASSUME NEW S, NEW h \in HeadType(S), NEW k \in LinkType(S), NEW o \in S
  PROVE  AddHead(h, o) \in HeadType(S) /\ AddLinks(h, k, o) \in LinkType(S)
<1>1. AddHead(h, o) \in HeadType(S)
  BY DEF AddHead, HeadType
<1>2. AddLinks(h, k, o) \in LinkType(S)
  BY DEF AddLinks, HeadType, LinkType
<1> QED BY <1>1, <1>2

LEMMA RemoveType ==
  ASSUME NEW S, NEW h \in HeadType(S), NEW k \in LinkType(S), NEW o \in S
  PROVE  RemoveHead(h, k, o) \in HeadType(S) /\ RemoveLinks(h, k, o) \in LinkType(S)
<1>1. RemoveHead(h, k, o) \in HeadType(S)
  BY DEF RemoveHead, EmptyHead, HeadType, LinkType
<1>2. RemoveLinks(h, k, o) \in LinkType(S)
  BY DEF RemoveLinks, HeadType, LinkType
<1> QED BY <1>1, <1>2

\* Appending an object that is in no list extends the list by it, makes it the
\* latest, and touches the links of no object outside the extended list.
LEMMA AddOrdered ==
  ASSUME NEW S, NEW M \in SUBSET S, NEW h \in HeadType(S), null \notin S,
         NEW k \in LinkType(S), NEW o \in S, o \notin M,
         NEW r \in [S -> Nat], NEW b \in Nat,
         WellFormed(h, k, M), Ordered(h, k, M, r, b), Detached(k, o)
  PROVE  /\ WellFormed(AddHead(h, o), AddLinks(h, k, o), M \cup {o})
         /\ Ordered(AddHead(h, o), AddLinks(h, k, o), M \cup {o},
                    [r EXCEPT ![o] = b], b + 1)
         /\ SameLinks(k, AddLinks(h, k, o), S \ (M \cup {o}))
<1> DEFINE g == AddHead(h, o)
           j == AddLinks(h, k, o)
<1>1. WellFormed(h, k, M)
  OBVIOUS
<1>2. Ordered(h, k, M, r, b)
  OBVIOUS
<1> DEFINE q == [r EXCEPT ![o] = b]
<1>3. q \in [S -> Nat] /\ \A x \in S : q[x] = IF x = o THEN b ELSE r[x]
  OBVIOUS
<1> HIDE DEF q
<1>4. CASE empty(h)
  <2>1. /\ M = {} /\ g = [first |-> o, last |-> o]
        /\ \A x \in S : /\ j.prev[x] = (IF x = o THEN null ELSE k.prev[x])
                        /\ j.next[x] = (IF x = o THEN null ELSE k.next[x])
    BY <1>1, <1>4 DEF AddHead, AddLinks, WellFormed, empty, LinkType
  <2> HIDE DEF g, j
  <2>2. WellFormed(g, j, M \cup {o})
    BY <2>1 DEF WellFormed
  <2>3. Ordered(g, j, M \cup {o}, q, b + 1)
    BY <2>1, <1>3 DEF Ordered
  <2>5. SameLinks(k, j, S \ (M \cup {o}))
    BY <2>1 DEF SameLinks
  <2> QED BY <2>2, <2>3, <2>5 DEF g, j, q
<1>5. CASE ~ empty(h)
  <2>1. h.last \in M /\ h.first \in M /\ h.last # o /\ k.next[h.last] = null
    BY <1>1, <1>5 DEF WellFormed, empty, HeadType
  <2>2. g = [first |-> h.first, last |-> o]
    BY <1>5 DEF AddHead
  <2>3. /\ j.prev = [k.prev EXCEPT ![o] = h.last]
        /\ j.next = [k.next EXCEPT ![h.last] = o]
    BY <1>5 DEF AddLinks
  <2>4. \A x \in S : /\ j.prev[x] = (IF x = o THEN h.last ELSE k.prev[x])
                     /\ j.next[x] = (IF x = h.last THEN o ELSE k.next[x])
    BY <2>1, <2>3 DEF LinkType
  <2> HIDE DEF g, j
  <2>5. WellFormed(g, j, M \cup {o})
    BY <1>1, <2>1, <2>2, <2>4 DEF WellFormed, Detached, HeadType, LinkType
  <2>6. Ordered(g, j, M \cup {o}, q, b + 1)
    <3>1. \A x \in M \cup {o} : /\ q[x] < b + 1
                                /\ q[g.first] <= q[x] /\ q[x] <= q[g.last]
      BY <1>2, <1>3, <2>1, <2>2 DEF Ordered
    <3>2. \A x, y \in M \cup {o} : q[x] = q[y] => x = y
      BY <1>2, <1>3 DEF Ordered
    <3>3. ASSUME NEW x \in M \cup {o}, j.next[x] # null
          PROVE  /\ q[x] < q[j.next[x]]
                 /\ \A y \in M \cup {o} : q[x] < q[y] => q[j.next[x]] <= q[y]
      <4>1. x # o
        BY <3>3, <2>1, <2>4 DEF Detached
      <4>2. CASE x = h.last
        BY <4>1, <4>2, <1>2, <1>3, <2>1, <2>4 DEF Ordered
      <4>3. CASE x # h.last
        <5>1. /\ j.next[x] = k.next[x] /\ x \in M /\ k.next[x] \in M
              /\ k.next[x] # o /\ q[k.next[x]] = r[k.next[x]] /\ q[x] = r[x]
          BY <1>1, <3>3, <4>1, <4>3, <2>4, <1>3 DEF WellFormed
        <5> QED BY <3>3, <5>1, <1>2, <1>3 DEF Ordered
      <4> QED BY <4>2, <4>3
    <3> QED BY <3>1, <3>2, <3>3 DEF Ordered
  <2>7. SameLinks(k, j, S \ (M \cup {o}))
    BY <2>1, <2>4 DEF SameLinks
  <2> QED BY <2>5, <2>6, <2>7 DEF g, j, q
<1> QED BY <1>4, <1>5

LEMMA AddLemma ==
  ASSUME NEW S, NEW M \in SUBSET S, NEW h \in HeadType(S), null \notin S,
         NEW k \in LinkType(S), NEW o \in S, o \notin M,
         Chained(h, k, M, S), Detached(k, o)
  PROVE  /\ Chained(AddHead(h, o), AddLinks(h, k, o), M \cup {o}, S)
         /\ SameLinks(k, AddLinks(h, k, o), S \ (M \cup {o}))
<1>1. WellFormed(h, k, M)
  BY DEF Chained
<1>2. PICK r \in [S -> Nat], b \in Nat : Ordered(h, k, M, r, b)
  BY DEF Chained
<1>3. [r EXCEPT ![o] = b] \in [S -> Nat] /\ b + 1 \in Nat
  OBVIOUS
<1>4. /\ WellFormed(AddHead(h, o), AddLinks(h, k, o), M \cup {o})
      /\ Ordered(AddHead(h, o), AddLinks(h, k, o), M \cup {o},
                 [r EXCEPT ![o] = b], b + 1)
      /\ SameLinks(k, AddLinks(h, k, o), S \ (M \cup {o}))
  BY <1>1, <1>2, AddOrdered
<1> QED BY <1>3, <1>4, Zenon DEF Chained

\* Removing an object of a list gives a list of the others, leaves the object
\* with null links and touches the links of no object outside the list.
LEMMA RemoveOrdered ==
  ASSUME NEW S, NEW M \in SUBSET S, NEW h \in HeadType(S), null \notin S,
         NEW k \in LinkType(S), NEW o \in M,
         NEW r \in [S -> Nat], NEW b \in Nat,
         WellFormed(h, k, M), Ordered(h, k, M, r, b)
  PROVE  /\ WellFormed(RemoveHead(h, k, o), RemoveLinks(h, k, o), M \ {o})
         /\ Ordered(RemoveHead(h, k, o), RemoveLinks(h, k, o), M \ {o}, r, b)
         /\ Detached(RemoveLinks(h, k, o), o)
         /\ SameLinks(k, RemoveLinks(h, k, o), S \ M)
<1>0. WellFormed(h, k, M)
  OBVIOUS
<1>r. Ordered(h, k, M, r, b)
  OBVIOUS
<1>1. CASE Sole(h, o)
  <2>1. k.prev[o] = null /\ k.next[o] = null
    BY <1>0, <1>1 DEF Sole, WellFormed
  <2>2. M = {o}
    BY <1>1, SoleMember
  <2>3. /\ RemoveHead(h, k, o) = EmptyHead
        /\ RemoveLinks(h, k, o) = k
    BY <1>1 DEF RemoveHead, RemoveLinks
  <2>4. WellFormed(EmptyHead, k, {}) /\ Ordered(EmptyHead, k, {}, r, b)
    BY DEF WellFormed, Ordered, EmptyHead
  <2>5. M \ {o} = {}
    BY <2>2
  <2> QED
    BY <2>1, <2>3, <2>4, <2>5 DEF Detached, SameLinks
<1>2. CASE ~ Sole(h, o)
  <2> DEFINE j == RemoveLinks(h, k, o)
             g == RemoveHead(h, k, o)
             p == k.prev[o]
             n == k.next[o]
  <2>1. g = [first |-> IF h.first = o THEN n ELSE h.first,
             last  |-> IF h.last  = o THEN p ELSE h.last]
    BY <1>2 DEF RemoveHead
  <2>2. \A x \in S :
          /\ j.prev[x] = (IF x = o THEN null ELSE IF x = n THEN p ELSE k.prev[x])
          /\ j.next[x] = (IF x = o THEN null ELSE IF x = p THEN n ELSE k.next[x])
    BY <1>2 DEF RemoveLinks, LinkType
  <2>3. /\ p # null => p \in M /\ p # o /\ k.next[p] = o
        /\ n # null => n \in M /\ n # o /\ k.prev[n] = o
        /\ p = null <=> h.first = o
        /\ n = null <=> h.last = o
    <3>1. p # o /\ n # o
      <4>1. n # null => r[o] < r[n]
        BY <1>r DEF Ordered
      <4>2. p # null => p \in M /\ k.next[p] = o /\ r[p] < r[o]
        BY <1>0, <1>r DEF WellFormed, Ordered
      <4> QED BY <4>1, <4>2
    <3> QED BY <1>0, <3>1 DEF WellFormed
  <2> HIDE DEF j, g
  <2>4. WellFormed(g, j, M \ {o})
    BY <1>0, <1>2, <2>1, <2>2, <2>3 DEF WellFormed, Sole, HeadType
  <2>5. Detached(j, o)
    BY <2>2 DEF Detached
  <2>6. SameLinks(k, j, S \ M)
    BY <2>2, <2>3 DEF SameLinks
  <2>7. Ordered(g, j, M \ {o}, r, b)
    <3>1. \A x \in M \ {o} : /\ r[x] < b
                             /\ r[g.first] <= r[x] /\ r[x] <= r[g.last]
      BY <1>0, <1>r, <2>1, <2>3 DEF Ordered, WellFormed
    <3>2. \A x, y \in M \ {o} : r[x] = r[y] => x = y
      BY <1>r DEF Ordered
    <3>3. ASSUME NEW x \in M \ {o}, j.next[x] # null
          PROVE  /\ r[x] < r[j.next[x]]
                 /\ \A y \in M \ {o} : r[x] < r[y] => r[j.next[x]] <= r[y]
      <4>1. CASE x = p
        BY <4>1, <3>3, <1>r, <2>2, <2>3 DEF Ordered
      <4>2. CASE x # p
        BY <4>2, <3>3, <1>r, <2>2 DEF Ordered
      <4> QED BY <4>1, <4>2
    <3> QED BY <3>1, <3>2, <3>3 DEF Ordered
  <2> QED BY <2>4, <2>5, <2>6, <2>7 DEF g, j
<1> QED BY <1>1, <1>2

LEMMA RemoveLemma ==
  ASSUME NEW S, NEW M \in SUBSET S, NEW h \in HeadType(S), null \notin S,
         NEW k \in LinkType(S), NEW o \in M, Chained(h, k, M, S)
  PROVE  /\ Chained(RemoveHead(h, k, o), RemoveLinks(h, k, o), M \ {o}, S)
         /\ Detached(RemoveLinks(h, k, o), o)
         /\ SameLinks(k, RemoveLinks(h, k, o), S \ M)
<1>1. WellFormed(h, k, M)
  BY DEF Chained
<1>2. PICK r \in [S -> Nat], b \in Nat : Ordered(h, k, M, r, b)
  BY DEF Chained
<1>3. /\ WellFormed(RemoveHead(h, k, o), RemoveLinks(h, k, o), M \ {o})
      /\ Ordered(RemoveHead(h, k, o), RemoveLinks(h, k, o), M \ {o}, r, b)
      /\ Detached(RemoveLinks(h, k, o), o)
      /\ SameLinks(k, RemoveLinks(h, k, o), S \ M)
  BY <1>1, <1>2, RemoveOrdered
<1> QED BY <1>2, <1>3, Zenon DEF Chained

------------------------------------------------------------------------------
(***************************************************************************)
(* A family of lists that share their link fields: list l of L holds the   *)
(* objects N[l], and an object in none of them has null links.             *)
(***************************************************************************)
Family(hd, k, N, S, L) ==
  /\ hd \in [L -> HeadType(S)] /\ k \in LinkType(S) /\ N \in [L -> SUBSET S]
  /\ \A l \in L : Chained(hd[l], k, N[l], S)
  /\ \A l, m \in L : l # m => N[l] \cap N[m] = {}
  /\ \A x \in S : (\A l \in L : x \notin N[l]) => Detached(k, x)

\* The family before anything is inserted.
LEMMA FamilyEmpty ==
  ASSUME NEW S, NEW L, null \notin S
  PROVE  Family([l \in L |-> EmptyHead], NoLinks(S), [l \in L |-> {}], S, L)
<1> DEFINE k == NoLinks(S)
<1>1. EmptyHead \in HeadType(S) /\ k \in LinkType(S)
  BY DEF EmptyHead, HeadType, NoLinks, LinkType
<1>2. Chained(EmptyHead, k, {}, S)
  <2>1. WellFormed(EmptyHead, k, {})
    BY DEF WellFormed, EmptyHead
  <2>2. [o \in S |-> 0] \in [S -> Nat] /\ 0 \in Nat
    OBVIOUS
  <2>3. Ordered(EmptyHead, k, {}, [o \in S |-> 0], 0)
    BY DEF Ordered
  <2> QED BY <2>1, <2>2, <2>3, Zenon DEF Chained
<1>3. \A x \in S : Detached(k, x)
  BY DEF NoLinks, Detached
<1> QED BY <1>1, <1>2, <1>3 DEF Family

\* remove() on the list that holds the object.
LEMMA FamilyRemove ==
  ASSUME NEW S, NEW L, null \notin S, NEW hd, NEW k, NEW N,
         Family(hd, k, N, S, L), NEW f \in L, NEW o \in N[f]
  PROVE  Family([hd EXCEPT ![f] = RemoveHead(hd[f], k, o)],
                RemoveLinks(hd[f], k, o),
                [N EXCEPT ![f] = N[f] \ {o}], S, L)
<1> DEFINE h == RemoveHead(hd[f], k, o)
           j == RemoveLinks(hd[f], k, o)
           M == [N EXCEPT ![f] = N[f] \ {o}]
<1>1. /\ hd[f] \in HeadType(S) /\ k \in LinkType(S) /\ N[f] \in SUBSET S
      /\ Chained(hd[f], k, N[f], S) /\ o \in S
  BY DEF Family
<1>2. /\ Chained(h, j, N[f] \ {o}, S) /\ Detached(j, o)
      /\ SameLinks(k, j, S \ N[f])
  BY <1>1, RemoveLemma
<1>3. h \in HeadType(S) /\ j \in LinkType(S)
  BY <1>1, RemoveType
<1> HIDE DEF h, j
<1>4. /\ M \in [L -> SUBSET S] /\ M[f] = N[f] \ {o}
      /\ \A l \in L : l # f => M[l] = N[l]
  BY <1>1 DEF Family
<1> HIDE DEF M
<1>5. ASSUME NEW l \in L, l # f PROVE Chained(hd[l], j, N[l], S)
  <2>1. /\ hd[l] \in HeadType(S) /\ N[l] \in SUBSET S /\ Chained(hd[l], k, N[l], S)
        /\ SameLinks(k, j, N[l])
    BY <1>2, <1>5 DEF Family, SameLinks
  <2> QED BY <2>1, <1>1, <1>3, ChainedFrame
<1>6. \A l, m \in L : l # m => M[l] \cap M[m] = {}
  BY <1>4 DEF Family
<1>7. ASSUME NEW x \in S, \A l \in L : x \notin M[l] PROVE Detached(j, x)
  <2>1. CASE x = o
    BY <2>1, <1>2
  <2>2. CASE x # o
    <3>1. \A l \in L : x \notin N[l]
      BY <2>2, <1>4, <1>7
    <3> QED BY <3>1, <1>2 DEF Family, Detached, SameLinks
  <2> QED BY <2>1, <2>2
<1>8. [hd EXCEPT ![f] = h] \in [L -> HeadType(S)]
  BY <1>3 DEF Family
<1>9. \A l \in L : Chained([hd EXCEPT ![f] = h][l], j, M[l], S)
  BY <1>2, <1>4, <1>5 DEF Family
<1> QED BY <1>3, <1>4, <1>6, <1>7, <1>8, <1>9 DEF Family, M, h, j

\* add() of an object that is in no list of the family.
LEMMA FamilyAdd ==
  ASSUME NEW S, NEW L, null \notin S, NEW hd, NEW k, NEW N,
         Family(hd, k, N, S, L), NEW t \in L, NEW o \in S,
         \A l \in L : o \notin N[l]
  PROVE  Family([hd EXCEPT ![t] = AddHead(hd[t], o)],
                AddLinks(hd[t], k, o),
                [N EXCEPT ![t] = N[t] \cup {o}], S, L)
<1> DEFINE h == AddHead(hd[t], o)
           j == AddLinks(hd[t], k, o)
           M == [N EXCEPT ![t] = N[t] \cup {o}]
<1>1. /\ hd[t] \in HeadType(S) /\ k \in LinkType(S) /\ N[t] \in SUBSET S
      /\ Chained(hd[t], k, N[t], S) /\ o \notin N[t] /\ Detached(k, o)
  BY DEF Family
<1>2. /\ Chained(h, j, N[t] \cup {o}, S)
      /\ SameLinks(k, j, S \ (N[t] \cup {o}))
  BY <1>1, AddLemma
<1>3. h \in HeadType(S) /\ j \in LinkType(S)
  BY <1>1, AddType
<1> HIDE DEF h, j
<1>4. /\ M \in [L -> SUBSET S] /\ M[t] = N[t] \cup {o}
      /\ \A l \in L : l # t => M[l] = N[l]
  BY <1>1 DEF Family
<1> HIDE DEF M
<1>5. ASSUME NEW l \in L, l # t PROVE Chained(hd[l], j, N[l], S)
  <2>1. /\ hd[l] \in HeadType(S) /\ N[l] \in SUBSET S /\ Chained(hd[l], k, N[l], S)
        /\ SameLinks(k, j, N[l])
    BY <1>2, <1>5 DEF Family, SameLinks
  <2> QED BY <2>1, <1>1, <1>3, ChainedFrame
<1>6. \A l, m \in L : l # m => M[l] \cap M[m] = {}
  BY <1>4 DEF Family
<1>7. ASSUME NEW x \in S, \A l \in L : x \notin M[l] PROVE Detached(j, x)
  <2>1. x # o /\ \A l \in L : x \notin N[l]
    BY <1>4, <1>7
  <2> QED BY <2>1, <1>2 DEF Family, Detached, SameLinks
<1>8. [hd EXCEPT ![t] = h] \in [L -> HeadType(S)]
  BY <1>3 DEF Family
<1>9. \A l \in L : Chained([hd EXCEPT ![t] = h][l], j, M[l], S)
  BY <1>2, <1>4, <1>5 DEF Family
<1> QED BY <1>3, <1>4, <1>6, <1>7, <1>8, <1>9 DEF Family, M, h, j
==============================================================================
