----------------------- MODULE GameObjectPassesProofs -----------------------
(***************************************************************************)
(* The structures of the object pool and the pointers of its passes stay   *)
(* consistent under every interleaving of passes and scripts, for any      *)
(* number of objects, groups, layers and classes and any choice of what    *)
(* scripts call.                                                           *)
(***************************************************************************)
EXTENDS GameObjectPasses, LinkedListLemmas, WellFoundedInduction

(* What each operation of the pool does to its three structures: PoolInv,  *)
(* the consistency of the update list, the detect lists and the render     *)
(* set, is kept by allocation, by the setters, by ResetObject and by       *)
(* freeing.                                                                *)

Grouped == [g \in Group |-> InGroup(g)]

\* The update list is in the order of the unique ids.
UpdateListInv ==
  /\ WellFormed(update_list, update_links, used)
  /\ Ordered(update_list, update_links, used, unique_id, m_iUid)
  /\ \A o \in Object \ used : Detached(update_links, o)

ObjectType ==
  /\ used \subseteq Object /\ object_table \subseteq used
  /\ status \in [Object -> {"free", "active", "dead", "killed"}]
  /\ used = {o \in Object : status[o] # "free"}
  /\ unique_id \in [Object -> Nat] /\ m_iUid \in Nat
  /\ group \in [Object -> Group] /\ layer \in [Object -> Layer]
  /\ callbacks \in [Object -> Class \cup {{}}]
  /\ ignore_super_pause \in [Object -> BOOLEAN]
  /\ update_list \in HeadType(Object) /\ update_links \in LinkType(Object)

PoolInv ==
  /\ ObjectType
  /\ UpdateListInv
  /\ Family(detect_lists, detect_links, Grouped, Object, Group)
  /\ RenderListInv

------------------------------------------------------------------------------
(* What the operations of the pool do to its structures. *)

LEMMA InitPool == Init => PoolInv
<1> SUFFICES ASSUME Init PROVE PoolInv
  OBVIOUS
<1>1. ObjectType
  BY PoolAssumption DEF Init, ObjectType, HeadType, LinkType, EmptyHead, NoLinks
<1>2. UpdateListInv
  BY DEF Init, UpdateListInv, WellFormed, Ordered, Detached, EmptyHead, NoLinks
<1>3. Grouped = [g \in Group |-> {}]
  BY DEF Init, Grouped, InGroup
<1>4. Family(detect_lists, detect_links, Grouped, Object, Group)
  BY <1>3, PoolAssumption, FamilyEmpty DEF Init
<1>5. RenderListInv
  BY DEF Init, RenderListInv
<1> QED BY <1>1, <1>2, <1>4, <1>5 DEF PoolInv

\* A step that changes no structure, only fields of objects in use.
LEMMA FieldStep ==
  ASSUME PoolInv, ObjectType',
         UNCHANGED <<used, unique_id, m_iUid, group, layer, listVars>>
  PROVE  PoolInv'
<1>1. UpdateListInv'
  BY DEF PoolInv, UpdateListInv, listVars
<1>2. Grouped' = Grouped
  BY DEF Grouped, InGroup
<1>3. RenderListInv'
  BY DEF PoolInv, RenderListInv, Key, listVars
<1> QED BY <1>1, <1>2, <1>3 DEF PoolInv, listVars

\* A step that leaves the pool alone.
LEMMA PoolFrame ==
  ASSUME PoolInv, UNCHANGED poolVars
  PROVE  PoolInv'
<1>1. ObjectType'
  BY DEF PoolInv, ObjectType, poolVars, objectVars, listVars
<1> QED BY <1>1, FieldStep DEF poolVars, objectVars

LEMMA AllocateStep ==
  ASSUME PoolInv, NEW o \in Object, NEW class \in Class \cup {{}},
         allocateWithCallbacks(o, class), object_table' \subseteq object_table \cup {o}
  PROVE  PoolInv'
<1>t. ObjectType
  BY DEF PoolInv
<1>n. o \notin used /\ used' = used \cup {o}
  BY DEF allocateWithCallbacks
<1>1. ObjectType'
  <2>1. update_list' \in HeadType(Object) /\ update_links' \in LinkType(Object)
    BY <1>t, AddType DEF ObjectType, allocateWithCallbacks
  <2> QED BY <1>t, <2>1, PoolAssumption DEF ObjectType, allocateWithCallbacks, TakeUid
<1>2. UpdateListInv'
  <2>1. /\ WellFormed(update_list, update_links, used)
        /\ Ordered(update_list, update_links, used, unique_id, m_iUid)
        /\ Detached(update_links, o)
    BY <1>n DEF PoolInv, UpdateListInv
  <2>2. /\ unique_id' = [unique_id EXCEPT ![o] = m_iUid] /\ m_iUid' = m_iUid + 1
        /\ update_list' = AddHead(update_list, o)
        /\ update_links' = AddLinks(update_list, update_links, o)
    BY DEF allocateWithCallbacks, TakeUid
  <2>3. /\ WellFormed(update_list', update_links', used')
        /\ Ordered(update_list', update_links', used', unique_id', m_iUid')
        /\ SameLinks(update_links, update_links', Object \ (used \cup {o}))
    BY <1>t, <1>n, <2>1, <2>2, PoolAssumption, AddOrdered DEF ObjectType
  <2> QED BY <1>n, <2>3 DEF PoolInv, UpdateListInv, SameLinks, Detached
<1>3. Family(detect_lists, detect_links, Grouped, Object, Group)'
  <2>1. \A g \in Group : o \notin Grouped[g]
    BY <1>n DEF Grouped, InGroup
  <2>2. Family(detect_lists', detect_links',
               [Grouped EXCEPT ![DefaultGroup] = Grouped[DefaultGroup] \cup {o}],
               Object, Group)
    BY <2>1, PoolAssumption, FamilyAdd DEF PoolInv, allocateWithCallbacks
  <2>3. \A g \in Group : InGroup(g)' = IF g = DefaultGroup THEN InGroup(g) \cup {o}
                                                          ELSE InGroup(g)
    <3>1. \A x \in used' : group'[x] = IF x = o THEN DefaultGroup ELSE group[x]
      BY <1>t, <1>n DEF allocateWithCallbacks, ObjectType
    <3> QED BY <1>n, <3>1, PoolAssumption DEF InGroup
  <2>4. Grouped' = [Grouped EXCEPT ![DefaultGroup] = Grouped[DefaultGroup] \cup {o}]
    BY <2>3, PoolAssumption DEF Grouped
  <2> QED BY <2>2, <2>4
<1>4. RenderListInv'
  <2> DEFINE e == [layer |-> DefaultLayer, uid |-> m_iUid, object |-> o]
  <2>1. render_list = {Key(x) : x \in used} /\ \A x \in used : unique_id[x] < m_iUid
    BY DEF PoolInv, RenderListInv
  <2>2. \A x \in render_list : ~ SameKey(x, e)
    BY <2>1, <1>t DEF Key, SameKey, ObjectType
  <2>3. render_list' = render_list \cup {e}
    BY <2>2 DEF allocateWithCallbacks, SetInsert
  <2>4. /\ \A x \in used : Key(x)' = Key(x) /\ unique_id'[x] = unique_id[x]
        /\ Key(o)' = e /\ unique_id'[o] = m_iUid /\ m_iUid' = m_iUid + 1
    BY <1>t, <1>n DEF Key, allocateWithCallbacks, TakeUid, ObjectType
  <2>5. render_list' = {Key(x)' : x \in used'}
    BY <1>n, <2>1, <2>3, <2>4
  <2> QED BY <1>t, <1>n, <2>4, <2>5 DEF PoolInv, RenderListInv, ObjectType
<1> QED BY <1>1, <1>2, <1>3, <1>4 DEF PoolInv
\* Of the group change only the detect lists take part.
LEMMA SetGroupStep ==
  ASSUME PoolInv, NEW o \in Object, NEW g \in Group, setGroup(o, g)
  PROVE  PoolInv'
<1>t. ObjectType /\ o \in used
  BY DEF PoolInv, ObjectType, setGroup
<1>1. ObjectType' /\ UpdateListInv' /\ RenderListInv'
  <2>1. ObjectType'
    BY <1>t DEF ObjectType, setGroup
  <2>2. UpdateListInv'
    BY DEF PoolInv, UpdateListInv, setGroup
  <2>3. RenderListInv'
    BY DEF PoolInv, RenderListInv, Key, setGroup
  <2> QED BY <2>1, <2>2, <2>3
<1> DEFINE f     == group[o]
           lists == [detect_lists EXCEPT
                       ![f] = RemoveHead(detect_lists[f], detect_links, o)]
           links == RemoveLinks(detect_lists[f], detect_links, o)
           rest  == [Grouped EXCEPT ![f] = Grouped[f] \ {o}]
<1>2. f \in Group /\ o \in Grouped[f]
  BY <1>t DEF ObjectType, Grouped, InGroup
<1>3. Family(lists, links, rest, Object, Group)
  BY <1>2, PoolAssumption, FamilyRemove DEF PoolInv
<1>4. /\ detect_lists' = [lists EXCEPT ![g] = AddHead(lists[g], o)]
      /\ detect_links' = AddLinks(lists[g], links, o)
  BY DEF setGroup
<1>5. \A h \in Group : o \notin rest[h]
  BY DEF Grouped, InGroup
<1>6. \A h \in Group : InGroup(h)' = IF h = g THEN rest[h] \cup {o} ELSE rest[h]
  <2>1. used' = used /\ \A x \in used : group'[x] = IF x = o THEN g ELSE group[x]
    BY <1>t DEF setGroup, ObjectType
  <2> QED BY <1>2, <2>1 DEF InGroup, Grouped
<1>7. rest \in [Group -> SUBSET Object]
  BY <1>3 DEF Family
<1> HIDE DEF lists, links, rest
<1>8. Family(detect_lists', detect_links',
             [rest EXCEPT ![g] = rest[g] \cup {o}], Object, Group)
  BY <1>3, <1>4, <1>5, PoolAssumption, FamilyAdd
<1>9. Grouped' = [rest EXCEPT ![g] = rest[g] \cup {o}]
  BY <1>6, <1>7 DEF Grouped
<1> QED BY <1>1, <1>8, <1>9 DEF PoolInv

\* Erasing the old key of o before the new one goes in keeps the set exact.
LEMMA RekeyStep ==
  ASSUME RenderListInv, ObjectType, NEW o \in used, NEW e, Key(o)' = e,
         used' = used, \A x \in used \ {o} : Key(x)' = Key(x) /\ e.uid # unique_id[x],
         render_list' = Rekeyed(o, e)
  PROVE  render_list' = {Key(x)' : x \in used'}
<1>1. SetErase(render_list, Key(o)) = {Key(x) : x \in used \ {o}}
  <2>1. \A x \in used : SameKey(Key(x), Key(o)) <=> x = o
    BY DEF RenderListInv, SameKey, Key
  <2>2. SetErase(render_list, Key(o)) = {y \in {Key(x) : x \in used} : ~ SameKey(y, Key(o))}
    BY DEF RenderListInv, SetErase
  <2> QED BY <2>1, <2>2
<1>2. \A y \in SetErase(render_list, Key(o)) : ~ SameKey(y, e)
  <2>1. \A x \in used : Key(x).uid = unique_id[x]
    BY DEF Key
  <2>2. \A x \in used \ {o} : ~ SameKey(Key(x), e)
    BY <2>1 DEF SameKey
  <2> QED BY <1>1, <2>2
<1>3. render_list' = {Key(x) : x \in used \ {o}} \cup {e}
  BY <1>1, <1>2 DEF Rekeyed, SetInsert
<1> QED BY <1>3

LEMMA SetLayerStep ==
  ASSUME PoolInv, NEW o \in Object, NEW l \in Layer, setLayer(o, l)
  PROVE  PoolInv'
<1>t. ObjectType /\ o \in used
  BY DEF PoolInv, ObjectType, setLayer
<1>1. ObjectType'
  BY <1>t DEF ObjectType, setLayer
<1>2. UpdateListInv'
  BY DEF PoolInv, UpdateListInv, setLayer
<1>3. Grouped' = Grouped
  BY DEF Grouped, InGroup, setLayer
<1>4. RenderListInv'
  <2> DEFINE e == [layer |-> l, uid |-> unique_id[o], object |-> o]
  <2>1. /\ Key(o)' = e /\ used' = used /\ render_list' = Rekeyed(o, e)
        /\ \A x \in used \ {o} : Key(x)' = Key(x)
    BY <1>t DEF Key, setLayer, ObjectType
  <2>2. \A x \in used \ {o} : e.uid # unique_id[x]
    BY <1>t DEF PoolInv, RenderListInv
  <2> HIDE DEF e
  <2>3. render_list' = {Key(x)' : x \in used'}
    BY <1>t, <2>1, <2>2, RekeyStep DEF PoolInv
  <2> QED BY <2>3 DEF PoolInv, RenderListInv, setLayer
<1> QED BY <1>1, <1>2, <1>3, <1>4 DEF PoolInv, setLayer

LEMMA ResetObjectStep ==
  ASSUME PoolInv, NEW o \in Object, DirtResetObject(o)
  PROVE  PoolInv'
<1>t. ObjectType /\ o \in used
  BY DEF PoolInv, ObjectType, DirtResetObject
<1> DEFINE head  == RemoveHead(update_list, update_links, o)
           links == RemoveLinks(update_list, update_links, o)
<1>h. head \in HeadType(Object) /\ links \in LinkType(Object)
  BY <1>t, RemoveType DEF ObjectType
<1>u. /\ update_list' = AddHead(head, o) /\ update_links' = AddLinks(head, links, o)
      /\ unique_id' = [unique_id EXCEPT ![o] = m_iUid] /\ m_iUid' = m_iUid + 1
      /\ used' = used
  BY DEF DirtResetObject, MovedHead, MovedLinks, TakeUid
<1>1. ObjectType'
  <2>1. update_list' \in HeadType(Object) /\ update_links' \in LinkType(Object)
    BY <1>h, <1>u, AddType
  <2> QED BY <1>t, <1>u, <2>1 DEF ObjectType, DirtResetObject
<1>2. UpdateListInv'
  <2>1. /\ WellFormed(head, links, used \ {o})
        /\ Ordered(head, links, used \ {o}, unique_id, m_iUid)
        /\ Detached(links, o)
        /\ SameLinks(update_links, links, Object \ used)
    BY <1>t, PoolAssumption, RemoveOrdered DEF PoolInv, UpdateListInv, ObjectType
  <2> HIDE DEF head, links
  <2>2. /\ WellFormed(update_list', update_links', (used \ {o}) \cup {o})
        /\ Ordered(update_list', update_links', (used \ {o}) \cup {o}, unique_id', m_iUid')
        /\ SameLinks(links, update_links', Object \ ((used \ {o}) \cup {o}))
    <3>1. /\ used \ {o} \in SUBSET Object /\ o \notin used \ {o}
          /\ unique_id \in [Object -> Nat] /\ m_iUid \in Nat
      BY <1>t DEF ObjectType
    <3> QED BY <1>h, <1>u, <2>1, <3>1, PoolAssumption, AddOrdered
  <2>3. (used \ {o}) \cup {o} = used
    BY <1>t
  <2> QED BY <1>u, <2>1, <2>2, <2>3 DEF PoolInv, UpdateListInv, SameLinks, Detached
<1>3. Family(detect_lists, detect_links, Grouped, Object, Group)'
  <2> DEFINE f  == group[o]
             hd == [detect_lists EXCEPT ![f] = RemoveHead(detect_lists[f], detect_links, o)]
             k  == RemoveLinks(detect_lists[f], detect_links, o)
             N  == [Grouped EXCEPT ![f] = Grouped[f] \ {o}]
  <2>1. f \in Group /\ o \in Grouped[f] /\ detect_lists \in [Group -> HeadType(Object)]
        /\ Grouped \in [Group -> SUBSET Object]
    BY <1>t DEF ObjectType, Grouped, InGroup, PoolInv, Family
  <2>2. Family(hd, k, N, Object, Group)
    BY <2>1, PoolAssumption, FamilyRemove DEF PoolInv
  <2>3. /\ detect_lists' = [hd EXCEPT ![f] = AddHead(hd[f], o)]
        /\ detect_links' = AddLinks(hd[f], k, o)
    BY <2>1 DEF DirtResetObject, MovedHead, MovedLinks
  <2>4. \A i \in Group : o \notin N[i]
    BY DEF Grouped, InGroup
  <2>5. Grouped = [N EXCEPT ![f] = N[f] \cup {o}]
    BY <2>1
  <2>6. Grouped' = Grouped
    BY <1>u DEF Grouped, InGroup, DirtResetObject
  <2> HIDE DEF hd, k, N
  <2>7. Family(detect_lists', detect_links', [N EXCEPT ![f] = N[f] \cup {o}], Object, Group)
    BY <2>1, <2>2, <2>3, <2>4, PoolAssumption, <1>t, FamilyAdd
  <2> QED BY <2>5, <2>6, <2>7
<1>4. RenderListInv'
  <2> DEFINE e == [layer |-> layer[o], uid |-> m_iUid, object |-> o]
  <2>1. /\ Key(o)' = e /\ render_list' = Rekeyed(o, e)
        /\ \A x \in used \ {o} : Key(x)' = Key(x)
    BY <1>t, <1>u DEF Key, DirtResetObject, ObjectType
  <2>2. \A x \in used \ {o} : e.uid # unique_id[x]
    BY <1>t DEF PoolInv, RenderListInv, ObjectType
  <2> HIDE DEF e
  <2>3. render_list' = {Key(x)' : x \in used'}
    BY <1>t, <1>u, <2>1, <2>2, RekeyStep DEF PoolInv
  <2> QED BY <1>t, <1>u, <2>3 DEF PoolInv, RenderListInv, ObjectType
<1> QED BY <1>1, <1>2, <1>3, <1>4 DEF PoolInv

\* Freeing the object under the loop; the pointer moves to an object still in
\* use, and to the first one if the freed object was the first.
LEMMA FreeStep ==
  ASSUME PoolInv, NEW o \in used, freeWithCallbacks(o)
  PROVE  /\ PoolInv'
         /\ p' \in used' \cup {null}
         /\ o = update_list.first => p' = update_list'.first
<1>t. ObjectType /\ o \in Object /\ used' = used \ {o}
  BY DEF PoolInv, ObjectType, freeWithCallbacks
<1> DEFINE head  == RemoveHead(update_list, update_links, o)
           links == RemoveLinks(update_list, update_links, o)
<1>u. update_list' = head /\ update_links' = links
  BY DEF freeWithCallbacks
<1>1. ObjectType'
  <2>1. update_list' \in HeadType(Object) /\ update_links' \in LinkType(Object)
    BY <1>t, <1>u, RemoveType DEF ObjectType
  <2> QED BY <1>t, <2>1 DEF ObjectType, freeWithCallbacks
<1>2. UpdateListInv'
  <2>1. /\ WellFormed(head, links, used \ {o})
        /\ Ordered(head, links, used \ {o}, unique_id, m_iUid)
        /\ Detached(links, o)
        /\ SameLinks(update_links, links, Object \ used)
    BY <1>t, PoolAssumption, RemoveOrdered DEF PoolInv, UpdateListInv, ObjectType
  <2> HIDE DEF head, links
  <2>2. unique_id' = unique_id /\ m_iUid' = m_iUid
    BY DEF freeWithCallbacks
  <2> QED BY <1>t, <1>u, <2>1, <2>2 DEF PoolInv, UpdateListInv, SameLinks, Detached
<1>3. Family(detect_lists, detect_links, Grouped, Object, Group)'
  <2> DEFINE f == group[o]
  <2>1. f \in Group /\ o \in Grouped[f] /\ Grouped \in [Group -> SUBSET Object]
    BY <1>t DEF ObjectType, Grouped, InGroup
  <2>2. Family([detect_lists EXCEPT ![f] = RemoveHead(detect_lists[f], detect_links, o)],
               RemoveLinks(detect_lists[f], detect_links, o),
               [Grouped EXCEPT ![f] = Grouped[f] \ {o}], Object, Group)
    BY <2>1, PoolAssumption, FamilyRemove DEF PoolInv
  <2>3. \A g \in Group : InGroup(g)' = InGroup(g) \ {o}
    BY <1>t DEF InGroup, freeWithCallbacks
  <2>4. \A g \in Group : g # f => o \notin InGroup(g)
    BY DEF InGroup
  <2>5. Grouped' = [Grouped EXCEPT ![f] = Grouped[f] \ {o}]
    BY <2>1, <2>3, <2>4 DEF Grouped
  <2> QED BY <2>2, <2>5 DEF freeWithCallbacks
<1>4. RenderListInv'
  <2>1. \A x \in used' : Key(x)' = Key(x)
    BY <1>t DEF Key, freeWithCallbacks
  <2>2. render_list' = {Key(x) : x \in used'}
    BY <1>t DEF PoolInv, RenderListInv, SetErase, SameKey, Key, freeWithCallbacks
  <2> QED BY <1>t, <2>1, <2>2 DEF PoolInv, RenderListInv, freeWithCallbacks
<1>5. p' \in used' \cup {null} /\ (o = update_list.first => p' = update_list'.first)
  <2>1. update_links.next[o] # null => update_links.next[o] \in used \ {o}
    BY <1>t DEF PoolInv, UpdateListInv, WellFormed, Ordered, ObjectType
  <2>2. o = update_list.first => update_list'.first = NextAfterRemove(o)
    BY <1>u DEF NextAfterRemove, RemoveHead, EmptyHead
  <2> QED BY <1>t, <2>1, <2>2 DEF NextAfterRemove, freeWithCallbacks
<1> QED BY <1>1, <1>2, <1>3, <1>4, <1>5 DEF PoolInv

------------------------------------------------------------------------------
(* The passes over them.                                                   *)

PassType ==
  /\ m_is_rendering \in BOOLEAN /\ m_is_detecting_intersect \in BOOLEAN
  /\ m_superpause \in Nat /\ m_nextsuperpause \in Nat
  /\ pc \in {"main"} \cup Loop \cup Callback
  /\ groups \in Group \X Group
  /\ cache \subseteq [a : Object, uidA : Nat, b : Object, uidB : Nat]
  /\ version \in {1, 2}
  /\ present \subseteq Object /\ visits \in [Object -> Nat]
  /\ moved \subseteq Object /\ tested \subseteq Object \X Object
  /\ regrouped \in BOOLEAN /\ displaced \in BOOLEAN
  /\ p \in Object \cup {null}

\* Which locals are live where, and that a pass which frees objects holds no
\* pointer but the one under the loop.
PassLocalsInv ==
  /\ p = null => ptrA = null /\ ptrB = null
  /\ pc \notin {"detect", "detect.callback"} => ptrA = null /\ ptrB = null
  /\ pc \notin {"bound2", "bound2.callback", "detect2", "detect2.callback"} => cache = {}
  /\ pc = "main" => p = null
  /\ pc \in {"update.callback", "render.callback", "bound.callback",
             "bound2.callback"} => p # null
  /\ \A e \in cache : e.a \in used /\ e.b \in used
  /\ pc = "reset" => p = update_list.first
  /\ displaced => "ResetObject" \in CallbackOps

\* The locks and the two flags are set exactly while their pass runs.
PassFlagsInv ==
  /\ m_LockObjectA # null <=> pc \in {"detect.callback", "detect2.callback"}
  /\ m_LockObjectB # null <=> m_LockObjectA # null
  /\ m_is_rendering <=> pc \in {"render", "render.callback"}
  /\ m_is_detecting_intersect <=>
       pc \in {"detect", "detect.callback", "detect2", "detect2.callback"}

PassInv == PassType /\ PassPointersInv /\ PassFlagsInv /\ PassLocalsInv

IInv == PoolInv /\ PassInv

\* The pointers a pass can read lead to objects in use or are null.
LEMMA LinksInUse ==
  ASSUME PoolInv
  PROVE  /\ update_list.first \in used \cup {null}
         /\ \A o \in used : update_links.next[o] \in used \cup {null}
         /\ \A g \in Group : detect_lists[g].first \in used \cup {null}
         /\ \A o \in used : detect_links.next[o] \in used \cup {null}
<1>1. WellFormed(update_list, update_links, used)
  BY DEF PoolInv, UpdateListInv
<1>2. ASSUME NEW g \in Group PROVE WellFormed(detect_lists[g], detect_links, InGroup(g))
  BY DEF PoolInv, Family, Chained, Grouped
<1>3. \A g \in Group : InGroup(g) \subseteq used
  BY DEF InGroup
<1>4. \A o \in used : group[o] \in Group /\ o \in InGroup(group[o])
  BY DEF PoolInv, ObjectType, InGroup
<1>5. /\ update_list.first \in used \cup {null}
      /\ \A o \in used : update_links.next[o] \in used \cup {null}
  BY <1>1 DEF WellFormed
<1>6. \A g \in Group : detect_lists[g].first \in used \cup {null}
  BY <1>2, <1>3 DEF WellFormed
<1>7. \A o \in used : detect_links.next[o] \in used \cup {null}
  BY <1>2, <1>3, <1>4 DEF WellFormed
<1> QED BY <1>5, <1>6, <1>7

LessThan == {s \in Nat \X Nat : s[1] < s[2]}

\* A set of keys has one that no other comes before, even an infinite set.
LEMMA LeastNumber ==
  ASSUME NEW T \in SUBSET Nat, T # {}
  PROVE  \E n \in T : \A m \in T : n <= m
<1>1. IsWellFoundedOn(LessThan, Nat)
  BY NatLessThanWellFounded DEF LessThan, OpToRel
<1>2. PICK n \in T : \A m \in T : ~ (<<m, n>> \in LessThan)
  BY <1>1, WFMin
<1>3. \A m \in T : <<m, n>> \in Nat \X Nat /\ (m < n => <<m, n>> \in LessThan)
  BY DEF LessThan
<1>4. \A m \in T : ~ (m < n)
  BY <1>2, <1>3
<1>5. \A m \in T : n <= m
  BY <1>4
<1> QED BY <1>5

\* The walk over the tree goes to a key that no other of S comes before.
LEMMA LeastKey ==
  ASSUME PoolInv, NEW S \in SUBSET render_list, S # {}
  PROVE  /\ Least(S) \in used
         /\ Key(Least(S)) \in S
         /\ \A x \in S : ~ Before(x, Key(Least(S)))
<1>1. \A e \in S : /\ e.layer \in Nat /\ e.uid \in Nat /\ e.object \in used
                   /\ e = Key(e.object)
  <2>1. \A o \in used : Key(o).layer \in Nat /\ Key(o).uid \in Nat /\ Key(o).object = o
    BY PoolAssumption DEF PoolInv, Key, ObjectType
  <2>2. \A e \in S : \E o \in used : e = Key(o)
    BY DEF PoolInv, RenderListInv
  <2> QED BY <2>1, <2>2
<1>2. PICK n \in {e.layer : e \in S} : \A m \in {e.layer : e \in S} : n <= m
  <2>1. {e.layer : e \in S} \in SUBSET Nat /\ {e.layer : e \in S} # {}
    BY <1>1
  <2> QED BY <2>1, LeastNumber
<1> DEFINE T == {e \in S : e.layer = n}
<1>3. PICK u \in {e.uid : e \in T} : \A m \in {e.uid : e \in T} : u <= m
  <2>1. {e.uid : e \in T} \in SUBSET Nat /\ {e.uid : e \in T} # {}
    BY <1>1
  <2> QED BY <2>1, LeastNumber
<1>4. PICK e \in T : e.uid = u
  OBVIOUS
<1>5. \A x \in S : ~ Before(x, e)
  BY <1>1, <1>2, <1>3, <1>4 DEF Before
<1>6. \E y \in S : \A x \in S : ~ Before(x, y)
  BY <1>5
<1> DEFINE y == CHOOSE y \in S : \A x \in S : ~ Before(x, y)
<1>7. y \in S /\ \A x \in S : ~ Before(x, y)
  BY <1>6
<1>8. Least(S) = y.object
  BY DEF Least
<1> QED BY <1>1, <1>7, <1>8

LEMMA LeastInUse ==
  ASSUME PoolInv, NEW S \in SUBSET render_list
  PROVE  Least(S) \in used \cup {null}
  BY LeastKey DEF Least

\* What every step of a pass may use.
PointersLeadInside ==
  /\ used \subseteq Object
  /\ update_list.first \in used \cup {null}
  /\ \A o \in used : update_links.next[o] \in used \cup {null}
  /\ \A g \in Group : detect_lists[g].first \in used \cup {null}
  /\ \A o \in used : detect_links.next[o] \in used \cup {null}
  /\ \A S \in SUBSET render_list : Least(S) \in used \cup {null}

LEMMA PassContext == IInv => PassInv /\ PointersLeadInside
  BY LinksInUse, LeastInUse DEF IInv, PoolInv, ObjectType, PointersLeadInside

LEMMA InitPass == Init => PassInv
<1> SUFFICES ASSUME Init PROVE PassInv
  OBVIOUS
<1>1. PassType
  BY PoolAssumption DEF Init, PassType
<1>2. PassPointersInv
  BY DEF Init, PassPointersInv
<1>3. PassLocalsInv
  BY DEF Init, PassLocalsInv
<1>4. PassFlagsInv
  BY DEF Init, PassFlagsInv
<1> QED BY <1>1, <1>2, <1>3, <1>4 DEF PassInv

\* The steps of ObjFrame after its first.
LEMMA UpdateSteps ==
  ASSUME IInv, \/ updateSkip \/ updatePlain \/ updateCall
               \/ updateReturn \/ updateMove \/ updateEnd
  PROVE  PassInv'
<1> USE PoolAssumption DEF PassInv, PassType, PassPointersInv, PassFlagsInv,
        PassLocalsInv,
        PointersLeadInside, passLocals, history, pauseVars, lockVars, Loop, Callback
<1>1. PassInv /\ PointersLeadInside
  BY PassContext
<1>2. UNCHANGED poolVars => used' = used /\ update_list' = update_list
  BY DEF poolVars, listVars
<1>3. CASE updateSkip
  BY <1>1, <1>2, <1>3 DEF updateSkip
<1>4. CASE updatePlain
  BY <1>1, <1>2, <1>4 DEF updatePlain, Updated
<1>5. CASE updateCall
  BY <1>1, <1>2, <1>5 DEF updateCall
<1>6. CASE updateReturn
  BY <1>1, <1>2, <1>6 DEF updateReturn, Updated
<1>7. CASE updateMove
  BY <1>1, <1>2, <1>7 DEF updateMove, Paused
<1>8. CASE updateEnd
  BY <1>1, <1>2, <1>8 DEF updateEnd, EndPass
<1> QED BY <1>3, <1>4, <1>5, <1>6, <1>7, <1>8 DEF IInv

\* The steps of ObjRender after its first.
LEMMA RenderSteps ==
  ASSUME IInv, renderPlain \/ renderCall \/ renderReturn \/ renderEnd
  PROVE  PassInv'
<1> USE PoolAssumption DEF PassInv, PassType, PassPointersInv, PassFlagsInv,
        PassLocalsInv,
        PointersLeadInside, passLocals, history, pauseVars, lockVars, Loop, Callback
<1>1. PassInv /\ PointersLeadInside
  BY PassContext
<1>2. UNCHANGED poolVars => used' = used /\ update_list' = update_list
  BY DEF poolVars, listVars
<1>3. CASE renderPlain
  BY <1>1, <1>2, <1>3 DEF renderPlain, RenderedOne, FollowingInTree, Visited
<1>4. CASE renderCall
  BY <1>1, <1>2, <1>4 DEF renderCall
<1>5. CASE renderReturn
  BY <1>1, <1>2, <1>5 DEF renderReturn, RenderedOne, FollowingInTree, Visited
<1>6. CASE renderEnd
  BY <1>1, <1>2, <1>6 DEF renderEnd, EndPass, poolVars, listVars
<1> QED BY <1>3, <1>4, <1>5, <1>6 DEF IInv

\* The steps of BoundCheck after its first.
LEMMA BoundSteps ==
  ASSUME IInv, \/ boundInside \/ boundOutside \/ boundReturn \/ boundEnd
               \/ (\E e \in cache : bound2Call(e)) \/ bound2Return \/ bound2End
  PROVE  PassInv'
<1> USE PoolAssumption DEF PassInv, PassType, PassPointersInv, PassFlagsInv,
        PassLocalsInv,
        PointersLeadInside, passLocals, history, pauseVars, lockVars, Loop, Callback
<1>1. PassInv /\ PointersLeadInside
  BY PassContext
<1>2. UNCHANGED poolVars => used' = used /\ update_list' = update_list
  BY DEF poolVars, listVars
<1>3. CASE boundInside
  BY <1>1, <1>2, <1>3 DEF boundInside, Visited
<1>4. CASE boundOutside
  BY <1>1, <1>2, <1>4 DEF boundOutside, Visited, listVars
<1>5. CASE boundReturn
  BY <1>1, <1>2, <1>5 DEF boundReturn, Visited
<1>6. CASE boundEnd
  BY <1>1, <1>2, <1>6 DEF boundEnd, EndPass
<1>7. ASSUME NEW e \in cache, bound2Call(e) PROVE PassInv'
  BY <1>1, <1>2, <1>7 DEF bound2Call
<1>8. CASE bound2Return
  BY <1>1, <1>2, <1>8 DEF bound2Return, Visited
<1>9. CASE bound2End
  BY <1>1, <1>2, <1>9 DEF bound2End, EndPass
<1> QED BY <1>3, <1>4, <1>5, <1>6, <1>7, <1>8, <1>9 DEF IInv

\* The steps of CollisionCheck after its first.
LEMMA DetectSteps ==
  ASSUME IInv, \/ detectMiss \/ detectHit \/ detectReturn \/ detectOuter \/ detectEnd
               \/ (\E e \in cache : detect2Call(e)) \/ detect2Return \/ detect2End
  PROVE  PassInv'
<1> USE PoolAssumption DEF PassInv, PassType, PassPointersInv, PassFlagsInv,
        PassLocalsInv,
        PointersLeadInside, passLocals, history, pauseVars, lockVars, Loop, Callback
<1>1. PassInv /\ PointersLeadInside
  BY PassContext
<1>2. UNCHANGED poolVars => used' = used /\ update_list' = update_list
  BY DEF poolVars, listVars
<1>3. CASE detectMiss
  BY <1>1, <1>2, <1>3 DEF detectMiss, NextPair
<1>4. CASE detectHit
  BY <1>1, <1>2, <1>4 DEF detectHit, NextPair
<1>5. CASE detectReturn
  BY <1>1, <1>2, <1>5 DEF detectReturn
<1>6. CASE detectOuter
  BY <1>1, <1>2, <1>6 DEF detectOuter, OuterStep
<1>7. CASE detectEnd
  BY <1>1, <1>2, <1>7 DEF detectEnd, EndPass
<1>8. ASSUME NEW e \in cache, detect2Call(e) PROVE PassInv'
  BY <1>1, <1>2, <1>8 DEF detect2Call
<1>9. CASE detect2Return
  BY <1>1, <1>2, <1>9 DEF detect2Return
<1>10. CASE detect2End
  BY <1>1, <1>2, <1>10 DEF detect2End, EndPass
<1> QED BY <1>3, <1>4, <1>5, <1>6, <1>7, <1>8, <1>9, <1>10 DEF IInv

\* The steps of AfterFrame that free nothing.
LEMMA NextSteps ==
  ASSUME IInv, nextSkip \/ nextTimer \/ nextEnd
  PROVE  PassInv'
<1> USE PoolAssumption DEF PassInv, PassType, PassPointersInv, PassFlagsInv,
        PassLocalsInv,
        PointersLeadInside, passLocals, history, pauseVars, lockVars, Loop, Callback
<1>1. PassInv /\ PointersLeadInside
  BY PassContext
<1>2. UNCHANGED poolVars => used' = used /\ update_list' = update_list
  BY DEF poolVars, listVars
<1>3. CASE nextSkip
  BY <1>1, <1>2, <1>3 DEF nextSkip
<1>4. CASE nextTimer
  BY <1>1, <1>2, <1>4 DEF nextTimer, Visited
<1>5. CASE nextEnd
  BY <1>1, <1>2, <1>5 DEF nextEnd, EndPass
<1> QED BY <1>3, <1>4, <1>5 DEF IInv

\* The first step of a pass.
LEMMA StartSteps ==
  ASSUME IInv, StartPass
  PROVE  PassInv'
<1> USE PoolAssumption DEF PassInv, PassType, PassPointersInv, PassFlagsInv,
        PassLocalsInv,
        PointersLeadInside, passLocals, history, pauseVars, lockVars, Loop, Callback
<1>1. PassInv /\ PointersLeadInside
  BY PassContext
<1>2. UNCHANGED poolVars => used' = used /\ update_list' = update_list
  BY DEF poolVars, listVars
<1>3. ASSUME NEW v \in {1, 2}, ObjFrame(v) PROVE PassInv'
  BY <1>1, <1>2, <1>3 DEF ObjFrame, BeginPass, UpdateSuperPause
<1>4. ASSUME NEW v \in {1, 2}, AfterFrame(v) PROVE PassInv'
  BY <1>1, <1>2, <1>4 DEF AfterFrame, BeginPass, UpdateSuperPause
<1>5. CASE ObjRender
  BY <1>1, <1>2, <1>5 DEF ObjRender, BeginPass
<1>6. CASE BoundCheckLegacy
  BY <1>1, <1>2, <1>6 DEF BoundCheckLegacy, BeginPass
<1>7. CASE ResetPool
  BY <1>1, <1>2, <1>7 DEF ResetPool, BeginPass
<1>8. ASSUME NEW Out \in SUBSET used, BoundCheck(Out) PROVE PassInv'
  <2>1. \A e \in cache' : /\ e \in [a : Object, uidA : Nat, b : Object, uidB : Nat]
                          /\ e.a \in used /\ e.b \in used
    BY <1>1, <1>8 DEF BoundCheck, Result, IInv, PoolInv, ObjectType
  <2>2. used' = used /\ update_list' = update_list
    BY <1>8 DEF BoundCheck, listVars
  <2> QED BY <1>1, <1>8, <2>1, <2>2 DEF BoundCheck, BeginPass
<1>9. ASSUME NEW g1 \in Group, NEW g2 \in Group, CollisionCheckLegacy(g1, g2)
       PROVE  PassInv'
  BY <1>1, <1>2, <1>9 DEF CollisionCheckLegacy, BeginPass, OuterStep
<1>10. ASSUME NEW Hits \in SUBSET Candidates, CollisionCheck(Hits) PROVE PassInv'
  <2>1. \A h \in Hits : h[1] \in used /\ h[2] \in used
    BY DEF Candidates
  <2>2. \A e \in cache' : /\ e \in [a : Object, uidA : Nat, b : Object, uidB : Nat]
                          /\ e.a \in used /\ e.b \in used
    BY <1>1, <1>10, <2>1 DEF CollisionCheck, Result, IInv, PoolInv, ObjectType
  <2> QED BY <1>1, <1>2, <1>10, <2>2 DEF CollisionCheck, BeginPass
<1> QED BY <1>3, <1>4, <1>5, <1>6, <1>7, <1>8, <1>9, <1>10 DEF StartPass

\* Script code changes the pool and never the pass that runs it.
LEMMA ScriptFrame ==
  ASSUME IInv, pc \in {"main"} \cup Callback, used \subseteq used', used' \subseteq Object,
         UNCHANGED <<lockVars, passLocals, present, visits, moved, tested>>,
         regrouped' \in BOOLEAN, displaced' \in BOOLEAN,
         displaced' => displaced \/ "ResetObject" \in CallbackOps,
         displaced => displaced',
         m_superpause' \in Nat, m_nextsuperpause' \in Nat
  PROVE  PassInv'
<1> USE DEF passLocals, lockVars, Loop, Callback
<1>1. PassType'
  BY DEF IInv, PassInv, PassType
<1>2. PassPointersInv'
  BY DEF IInv, PassInv, PassPointersInv, PassFlagsInv
<1>3. PassLocalsInv'
  BY DEF IInv, PassInv, PassLocalsInv
<1>4. PassFlagsInv'
  BY DEF IInv, PassInv, PassFlagsInv
<1> QED BY <1>1, <1>2, <1>3, <1>4 DEF PassInv

LEMMA ScriptSteps ==
  ASSUME IInv, ScriptStep
  PROVE  IInv'
<1>p. PoolInv /\ ObjectType
  BY DEF IInv, PoolInv
<1>q. regrouped \in BOOLEAN /\ displaced \in BOOLEAN /\ m_superpause \in Nat /\ m_nextsuperpause \in Nat
  BY DEF IInv, PassInv, PassType
<1>f. ASSUME PoolInv', pc \in {"main"} \cup Callback, used \subseteq used',
             UNCHANGED <<lockVars, pauseVars, passVars>>
      PROVE  IInv'
  <2>1. used' \subseteq Object
    BY <1>f DEF PoolInv, ObjectType
  <2> QED BY <1>f, <1>q, <2>1, ScriptFrame DEF passVars, history, pauseVars, IInv
<1>1. ASSUME NEW o \in Object, NEW class \in Class, New(o, class) PROVE IInv'
  <2>1. PoolInv'
    BY <1>1, <1>p, AllocateStep DEF New
  <2> QED BY <1>1, <2>1, <1>f DEF New, Script, allocateWithCallbacks
<1>2. ASSUME NEW o \in Object, NewInvalidClass(o) PROVE IInv'
  <2>1. PoolInv'
    BY <1>2, <1>p, AllocateStep DEF NewInvalidClass
  <2> QED BY <1>2, <2>1, <1>f DEF NewInvalidClass, Script, allocateWithCallbacks
<1>3. ASSUME NEW o \in Object, NEW mark \in {"dead", "killed"}, queueToFree(o, mark)
      PROVE  IInv'
  <2>1. ObjectType'
    BY <1>3, <1>p DEF queueToFree, ObjectType, listVars
  <2>2. PoolInv'
    BY <1>3, <1>p, <2>1, FieldStep DEF queueToFree
  <2> QED BY <1>3, <2>2, <1>f DEF queueToFree, Script
<1>4. ASSUME NEW o \in Object, NEW x \in {"active", "dead", "killed"}, setStatus(o, x)
      PROVE  IInv'
  <2>1. ObjectType'
    BY <1>4, <1>p DEF setStatus, ObjectType, listVars
  <2>2. PoolInv'
    BY <1>4, <1>p, <2>1, FieldStep DEF setStatus
  <2> QED BY <1>4, <2>2, <1>f DEF setStatus, Script
<1>5. ASSUME NEW o \in Object, NEW class \in Class \cup {{}}, setClass(o, class)
      PROVE  IInv'
  <2>1. ObjectType'
    BY <1>5, <1>p DEF setClass, ObjectType, listVars
  <2>2. PoolInv'
    BY <1>5, <1>p, <2>1, FieldStep DEF setClass
  <2> QED BY <1>5, <2>2, <1>f DEF setClass, Script
<1>6. ASSUME NEW o \in Object, NEW g \in Group, setGroup(o, g) PROVE IInv'
  <2>1. PoolInv'
    BY <1>6, <1>p, SetGroupStep
  <2>2. PassInv'
    BY <1>6, <1>p, <1>q, ScriptFrame DEF setGroup, Script, pauseVars, ObjectType
  <2> QED BY <2>1, <2>2 DEF IInv
<1>7. ASSUME NEW o \in Object, NEW l \in Layer, setLayer(o, l) PROVE IInv'
  <2>1. PoolInv'
    BY <1>7, <1>p, SetLayerStep
  <2> QED BY <1>7, <2>1, <1>f DEF setLayer, Script
<1>8. ASSUME NEW o \in Object, DirtResetObject(o) PROVE IInv'
  <2>1. PoolInv'
    BY <1>8, <1>p, ResetObjectStep
  <2>2. displaced' => displaced \/ "ResetObject" \in CallbackOps
    <3>1. ASSUME isLockedByDetectIntersection(o) \/ pc = "render.callback"
          PROVE  pc # "main"
      BY <3>1, <1>8, PoolAssumption DEF isLockedByDetectIntersection, IInv, PassInv, PassFlagsInv
    <3> QED BY <1>8, <3>1 DEF DirtResetObject, Script
  <2>3. /\ pc \in {"main"} \cup Callback /\ used' = used /\ used \subseteq Object
        /\ displaced' \in BOOLEAN /\ (displaced => displaced')
        /\ UNCHANGED <<lockVars, pauseVars, passLocals, present, visits, moved, tested,
                       regrouped>>
    BY <1>8, <1>p, <1>q DEF DirtResetObject, Script, ObjectType, isLockedByDetectIntersection
  <2>4. PassInv'
    BY <1>q, <2>2, <2>3, ScriptFrame DEF pauseVars
  <2> QED BY <2>1, <2>4 DEF IInv
<1>9. ASSUME NEW o \in Object, NEW b \in BOOLEAN, setIgnoreSuperPause(o, b) PROVE IInv'
  <2>1. ObjectType'
    BY <1>9, <1>p DEF setIgnoreSuperPause, ObjectType, listVars
  <2>2. PoolInv'
    BY <1>9, <1>p, <2>1, FieldStep DEF setIgnoreSuperPause
  <2> QED BY <1>9, <2>2, <1>f DEF setIgnoreSuperPause, Script
<1>10. ASSUME NEW time \in 0 .. PauseBound, SetNextFrameSuperPauseTime(time) PROVE IInv'
  <2>1. PoolInv' /\ used' = used
    BY <1>10, <1>p, PoolFrame DEF SetNextFrameSuperPauseTime, poolVars
  <2>2. m_superpause' \in Nat /\ m_nextsuperpause' \in Nat
    BY <1>10, <1>q, PoolAssumption DEF SetNextFrameSuperPauseTime
  <2>3. PassInv'
    BY <1>10, <1>p, <1>q, <2>1, <2>2, ScriptFrame
       DEF SetNextFrameSuperPauseTime, Script, passVars, history, ObjectType
  <2> QED BY <2>1, <2>3 DEF IInv
<1> QED BY <1>1, <1>2, <1>3, <1>4, <1>5, <1>6, <1>7, <1>8, <1>9, <1>10 DEF ScriptStep

\* The steps that free objects: nothing but the pointer under the loop can
\* name one, and it moves on.  When ResetPool drops the pool, the update list
\* is empty, hence nothing is in use.
LEMMA FreeSteps ==
  ASSUME IInv, nextFree \/ resetFree \/ resetEnd
  PROVE  IInv'
<1> USE DEF passLocals, history, pauseVars, lockVars, Loop, Callback
<1>0. PoolInv /\ PassType /\ PassPointersInv /\ PassFlagsInv /\ PassLocalsInv
  BY DEF IInv, PassInv
<1>1. ASSUME p # null, freeWithCallbacks(p), pc = "next" \/ pc = "reset",
             UNCHANGED <<lockVars, pauseVars, pc, ptrA, ptrB, groups, cache, version,
                         history>>
      PROVE  IInv'
  <2>1. p \in used
    BY <1>0, <1>1 DEF PassPointersInv, PassFlagsInv
  <2>2. /\ PoolInv' /\ p' \in used' \cup {null}
        /\ p = update_list.first => p' = update_list'.first
    BY <1>0, <1>1, <2>1, FreeStep
  <2>3. PassType'
    BY <1>0, <1>1, <2>2 DEF PassType, PoolInv, ObjectType
  <2>4. PassPointersInv'
    BY <1>0, <1>1, <2>2 DEF PassPointersInv, PassFlagsInv, PassLocalsInv
  <2>5. PassLocalsInv'
    BY <1>0, <1>1, <2>2 DEF PassLocalsInv
  <2>6. PassFlagsInv'
    BY <1>0, <1>1 DEF PassFlagsInv
  <2> QED BY <2>2, <2>3, <2>4, <2>5, <2>6 DEF IInv, PassInv
<1>2. CASE nextFree
  BY <1>1, <1>2 DEF nextFree
<1>3. CASE resetFree
  BY <1>1, <1>3 DEF resetFree
<1>4. CASE resetEnd
  <2>1. update_list.first = null
    BY <1>0, <1>4 DEF resetEnd, EndPass, PassLocalsInv
  <2>2. used = {}
    BY <1>0, <2>1 DEF PoolInv, UpdateListInv, WellFormed
  <2>3. render_list = {}
    BY <1>0, <2>2 DEF PoolInv, RenderListInv
  <2>4. UNCHANGED poolVars
    BY <1>4, <2>2, <2>3 DEF resetEnd, poolVars, listVars
  <2>5. PoolInv'
    BY <1>0, <2>4, PoolFrame
  <2>6. PassInv'
    BY <1>0, <1>4, <2>4, PoolAssumption
       DEF resetEnd, EndPass, PassInv, PassType, PassPointersInv, PassFlagsInv,
        PassLocalsInv,
           poolVars
  <2> QED BY <2>5, <2>6 DEF IInv
<1> QED BY <1>2, <1>3, <1>4

\* The other steps of the passes leave the pool alone, but for the mark that
\* BoundCheck puts on objects in use.
LEMMA PoolSteps ==
  ASSUME IInv, StartPass \/ LoopStep \/ CallbackReturn,
         ~ (nextFree \/ resetFree \/ resetEnd)
  PROVE  PoolInv'
<1>p. PoolInv /\ ObjectType
  BY DEF IInv, PoolInv
<1>1. ASSUME NEW Out \in SUBSET used, BoundCheck(Out) PROVE PoolInv'
  <2>1. ObjectType'
    BY <1>1, <1>p DEF BoundCheck, ObjectType, listVars
  <2> QED BY <1>1, <1>p, <2>1, FieldStep DEF BoundCheck
<1>2. CASE boundOutside
  <2>1. p \in used
    BY <1>2 DEF boundOutside, IInv, PassInv, PassPointersInv, PassFlagsInv
  <2>2. ObjectType'
    BY <1>2, <1>p, <2>1 DEF boundOutside, ObjectType, listVars
  <2> QED BY <1>2, <1>p, <2>2, FieldStep DEF boundOutside
<1>3. ASSUME StartPass, \A Out \in SUBSET used : ~ BoundCheck(Out) PROVE UNCHANGED poolVars
  BY <1>3 DEF StartPass, ObjFrame, AfterFrame, ObjRender, BoundCheckLegacy, ResetPool,
              CollisionCheckLegacy, CollisionCheck
<1>4. ASSUME LoopStep, ~ boundOutside PROVE UNCHANGED poolVars
  BY <1>4 DEF LoopStep, updateSkip, updatePlain, updateCall, updateMove, updateEnd,
              renderPlain, renderCall, renderEnd, boundInside, boundEnd, bound2Call,
              bound2End, detectMiss, detectHit, detectOuter, detectEnd, detect2Call,
              detect2End, nextSkip, nextTimer, nextEnd
<1>5. ASSUME CallbackReturn PROVE UNCHANGED poolVars
  BY <1>5 DEF CallbackReturn, updateReturn, renderReturn, boundReturn, bound2Return,
              detectReturn, detect2Return
<1> QED BY <1>p, <1>1, <1>2, <1>3, <1>4, <1>5, PoolFrame

LEMMA InitIInv == Init => IInv
  BY InitPool, InitPass DEF IInv

LEMMA StepIInv == IInv /\ [Next]_vars => IInv'
<1> SUFFICES ASSUME IInv, [Next]_vars PROVE IInv'
  OBVIOUS
<1>1. CASE ScriptStep
  BY <1>1, ScriptSteps
<1>2. CASE nextFree \/ resetFree \/ resetEnd
  BY <1>2, FreeSteps
<1>3. ASSUME StartPass \/ LoopStep \/ CallbackReturn, ~ (nextFree \/ resetFree \/ resetEnd)
      PROVE  IInv'
  <2>1. PoolInv'
    BY <1>3, PoolSteps
  <2>2. PassInv'
    BY <1>3, UpdateSteps, RenderSteps, BoundSteps, DetectSteps, NextSteps, StartSteps
       DEF LoopStep, CallbackReturn
  <2> QED BY <2>1, <2>2 DEF IInv
<1>4. CASE UNCHANGED vars
  <2>1. PoolInv'
    BY <1>4, PoolFrame DEF vars, IInv
  <2>2. PassInv'
    BY <1>4 DEF vars, poolVars, listVars, lockVars, pauseVars, passVars, passLocals,
                history, IInv, PassInv, PassType, PassPointersInv, PassFlagsInv,
        PassLocalsInv
  <2> QED BY <2>1, <2>2 DEF IInv
<1> QED BY <1>1, <1>2, <1>3, <1>4 DEF Next

LEMMA IInvHolds == Spec => []IInv
  BY InitIInv, StepIInv, PTL DEF Spec

------------------------------------------------------------------------------
\* Every variable of the pool and of the passes keeps its type (GameObjectPool).
THEOREM PassesTypeCorrect == Spec => []TypeOK
<1>1. IInv => TypeOK
  <2> SUFFICES ASSUME IInv PROVE TypeOK
    OBVIOUS
  <2>1. ObjectType /\ PassType /\ PassPointersInv
    BY DEF IInv, PoolInv, PassInv
  <2>2. detect_lists \in [Group -> HeadType(Object)] /\ detect_links \in LinkType(Object)
    BY DEF IInv, PoolInv, Family
  <2>3. render_list \subseteq [layer : Layer, uid : Nat, object : Object]
    <3>1. \A o \in used : Key(o) \in [layer : Layer, uid : Nat, object : Object]
      BY <2>1 DEF ObjectType, Key
    <3> QED BY <3>1 DEF IInv, PoolInv, RenderListInv
  <2>4. /\ p \in Object \cup {null} /\ ptrA \in Object \cup {null}
        /\ ptrB \in Object \cup {null} /\ m_LockObjectA \in Object \cup {null}
        /\ m_LockObjectB \in Object \cup {null}
    BY <2>1 DEF ObjectType, PassType, PassPointersInv
  <2> QED BY <2>1, <2>2, <2>3, <2>4 DEF TypeOK, ObjectType, PassType, HeadType, LinkType
<1> QED BY IInvHolds, <1>1, PTL

\* The update list and every detect list hold exactly the objects they should,
\* whatever callbacks do to them while a pass walks them (GameObjectLinkedList).
THEOREM PoolListsWellFormed == Spec => []ListsInv
<1>1. IInv => ListsInv
  <2> SUFFICES ASSUME IInv PROVE ListsInv
    OBVIOUS
  <2>1. /\ WellFormed(update_list, update_links, used)
        /\ \A o \in Object \ used : Detached(update_links, o)
    BY DEF IInv, PoolInv, UpdateListInv
  <2>2. \A g \in Group : WellFormed(detect_lists[g], detect_links, InGroup(g))
    BY DEF IInv, PoolInv, Family, Chained, Grouped
  <2>3. \A o \in Object \ used : Detached(detect_links, o)
    BY DEF IInv, PoolInv, Family, Grouped, InGroup
  <2> QED BY <2>1, <2>2, <2>3 DEF ListsInv
<1> QED BY IInvHolds, <1>1, PTL

\* The render set holds every object in use under its present key and nothing
\* else, and unique ids are unique (setLayer, DirtResetObject, freeWithCallbacks).
THEOREM RenderListExact == Spec => []RenderListInv
<1>1. IInv => RenderListInv
  BY DEF IInv, PoolInv
<1> QED BY IInvHolds, <1>1, PTL

\* The update list is in order of creation or of the last ResetObject.
THEOREM UpdateListOrdered == Spec => []UpdateOrderInv
<1>1. IInv => UpdateOrderInv
  BY DEF IInv, PoolInv, UpdateListInv, Ordered, UpdateOrderInv
<1> QED BY IInvHolds, <1>1, PTL

\* No pass ever holds a pointer to a freed object and no lock outlives its
\* object, whatever is created, marked, regrouped, reset and freed meanwhile;
\* only the iterator of ObjRender is lost, when the object it is at is reset
\* (updateNextLegacy, updateNext, detectIntersectionLegacy, render).
THEOREM PassPointersValid == Spec => []PassPointersInv
<1>1. IInv => PassPointersInv
  BY DEF IInv, PassInv
<1> QED BY IInvHolds, <1>1, PTL

------------------------------------------------------------------------------
(* The detect lists of the pool are a family of intrusive lists.           *)

\* The list an object is in, as its owner sees it.
ListOf == [o \in Object |-> IF o \in used THEN group[o] ELSE null]

LEMMA ListsStutter ==
  ASSUME UNCHANGED <<used, group, detect_lists, detect_links>>
  PROVE  UNCHANGED Lists!listVars
  BY DEF Lists!listVars

LEMMA AllocateInserts ==
  ASSUME IInv, NEW o \in Object, NEW class, allocateWithCallbacks(o, class)
  PROVE  Lists!Insert(o, DefaultGroup)
<1>1. ListOf[o] = null
  BY DEF allocateWithCallbacks, ListOf
<1>2. ListOf' = [ListOf EXCEPT ![o] = DefaultGroup]
  BY DEF allocateWithCallbacks, ListOf, IInv, PoolInv, ObjectType
<1>3. /\ detect_lists' = [detect_lists EXCEPT ![DefaultGroup] =
                             AddHead(detect_lists[DefaultGroup], o)]
      /\ detect_links' = AddLinks(detect_lists[DefaultGroup], detect_links, o)
  BY DEF allocateWithCallbacks
<1> QED BY <1>1, <1>2, <1>3
    DEF Lists!Insert, ListOf, AddHead, AddLinks, empty, Lists!AddHead, Lists!AddLinks, Lists!empty

LEMMA SetGroupMoves ==
  ASSUME IInv, NEW o \in Object, NEW g \in Group, setGroup(o, g)
  PROVE  Lists!Move(o, g)
<1>1. o \in used /\ group \in [Object -> Group]
  BY DEF setGroup, IInv, PoolInv, ObjectType
<1>2. ListOf[o] = group[o] /\ ListOf[o] # null
  BY <1>1, PoolAssumption DEF ListOf
<1>3. ListOf' = [ListOf EXCEPT ![o] = g]
  BY <1>1 DEF setGroup, ListOf
<1> DEFINE from  == ListOf[o]
           lists == [detect_lists EXCEPT ![from] = RemoveHead(detect_lists[from], detect_links, o)]
           links == RemoveLinks(detect_lists[from], detect_links, o)
<1>4. /\ detect_lists' = [lists EXCEPT ![g] = AddHead(lists[g], o)]
      /\ detect_links' = AddLinks(lists[g], links, o)
  BY <1>2 DEF setGroup
<1> QED BY <1>2, <1>3, <1>4
    DEF Lists!Move, ListOf, AddHead, AddLinks, empty, RemoveHead, RemoveLinks, Sole, EmptyHead,
        Lists!AddHead, Lists!AddLinks, Lists!empty, Lists!RemoveHead, Lists!RemoveLinks,
        Lists!Sole, Lists!EmptyHead

LEMMA ResetObjectMoves ==
  ASSUME IInv, NEW o \in Object, NEW g, g = group[o], DirtResetObject(o)
  PROVE  Lists!Move(o, g)
<1>1. o \in used /\ group \in [Object -> Group] /\ detect_lists \in [Group -> HeadType(Object)]
  BY DEF DirtResetObject, IInv, PoolInv, ObjectType, Family
<1>2. ListOf[o] = group[o] /\ ListOf[o] # null
  BY <1>1, PoolAssumption DEF ListOf
<1>3. ListOf' = [ListOf EXCEPT ![o] = group[o]]
  BY <1>1 DEF DirtResetObject, ListOf
<1> DEFINE from  == ListOf[o]
           lists == [detect_lists EXCEPT ![from] = RemoveHead(detect_lists[from], detect_links, o)]
           links == RemoveLinks(detect_lists[from], detect_links, o)
<1>4. /\ detect_lists' = [lists EXCEPT ![from] = AddHead(lists[from], o)]
      /\ detect_links' = AddLinks(lists[from], links, o)
  BY <1>1, <1>2 DEF DirtResetObject, MovedHead, MovedLinks
<1> QED BY <1>2, <1>3, <1>4
    DEF Lists!Move, ListOf, AddHead, AddLinks, empty, RemoveHead, RemoveLinks, Sole, EmptyHead,
        Lists!AddHead, Lists!AddLinks, Lists!empty, Lists!RemoveHead, Lists!RemoveLinks,
        Lists!Sole, Lists!EmptyHead

LEMMA FreeErases ==
  ASSUME IInv, NEW o, o = p, o # null, pc \in {"next", "reset"}, freeWithCallbacks(p)
  PROVE  o \in Object /\ Lists!Erase(o)
<1>1. o \in used /\ o \in Object /\ group \in [Object -> Group]
  BY DEF IInv, PassInv, PassPointersInv, PassFlagsInv, PoolInv, ObjectType
<1>2. ListOf[o] = group[o] /\ ListOf[o] # null
  BY <1>1, PoolAssumption DEF ListOf
<1>3. ListOf' = [ListOf EXCEPT ![o] = null]
  BY <1>1 DEF freeWithCallbacks, ListOf
<1>4. /\ detect_lists' = [detect_lists EXCEPT ![ListOf[o]] =
                             RemoveHead(detect_lists[ListOf[o]], detect_links, o)]
      /\ detect_links' = RemoveLinks(detect_lists[ListOf[o]], detect_links, o)
  BY <1>2 DEF freeWithCallbacks
<1> QED BY <1>1, <1>2, <1>3, <1>4
    DEF Lists!Erase, ListOf, RemoveHead, RemoveLinks, Sole, EmptyHead,
        Lists!RemoveHead, Lists!RemoveLinks, Lists!Sole, Lists!EmptyHead

LEMMA StepKeepsProtocol ==
  ASSUME IInv, [Next]_vars
  PROVE  [Lists!ListsNext]_(Lists!listVars)
<1>1. CASE ScriptStep
  <2>1. ASSUME NEW o \in Object, NEW class, allocateWithCallbacks(o, class) PROVE Lists!ListsNext
    BY <2>1, AllocateInserts, PoolAssumption DEF Lists!ListsNext
  <2>2. ASSUME NEW o \in Object, NEW g \in Group, setGroup(o, g) PROVE Lists!ListsNext
    BY <2>2, SetGroupMoves DEF Lists!ListsNext
  <2>3. ASSUME NEW o \in Object, DirtResetObject(o) PROVE Lists!ListsNext
    <3>1. PICK g \in Group : g = group[o]
      BY DEF IInv, PoolInv, ObjectType
    <3> QED BY <2>3, <3>1, ResetObjectMoves DEF Lists!ListsNext
  <2>4. CASE \E o \in Object : (\E class \in Class : New(o, class)) \/ NewInvalidClass(o)
    BY <2>1, <2>4 DEF New, NewInvalidClass
  <2>5. ASSUME ~ \E o \in Object : (\E class \in Class : New(o, class)) \/ NewInvalidClass(o),
               ~ \E o \in Object, g \in Group : setGroup(o, g),
               ~ \E o \in Object : DirtResetObject(o)
        PROVE  UNCHANGED <<used, group, detect_lists, detect_links>>
    BY <1>1, <2>5 DEF ScriptStep, queueToFree, setStatus, setClass, setLayer,
         setIgnoreSuperPause, SetNextFrameSuperPauseTime, poolVars, objectVars, listVars
  <2> QED BY <2>2, <2>3, <2>4, <2>5, ListsStutter
<1>2. CASE nextFree \/ resetFree
  <2>1. PICK o : o = p
    OBVIOUS
  <2> QED BY <1>2, <2>1, FreeErases DEF nextFree, resetFree, Lists!ListsNext
<1>3. CASE resetEnd
  <2>1. update_list.first = null
    BY <1>3 DEF resetEnd, EndPass, IInv, PassInv, PassLocalsInv
  <2>2. used = {}
    BY <2>1 DEF IInv, PoolInv, UpdateListInv, WellFormed
  <2> QED BY <1>3, <2>2, ListsStutter DEF resetEnd, objectVars
<1>4. CASE StartPass
  <2>1. UNCHANGED <<used, group, detect_lists, detect_links>>
    BY <1>4 DEF StartPass, ObjFrame, AfterFrame, ObjRender, BoundCheckLegacy, ResetPool,
                BoundCheck, CollisionCheckLegacy, CollisionCheck, poolVars, objectVars, listVars
  <2> QED BY <2>1, ListsStutter
<1>5. ASSUME LoopStep, ~ (nextFree \/ resetFree \/ resetEnd)
      PROVE  UNCHANGED <<used, group, detect_lists, detect_links>>
  BY <1>5 DEF LoopStep, updateSkip, updatePlain, updateCall, updateMove, updateEnd,
              renderPlain, renderCall, renderEnd, boundInside, boundOutside, boundEnd,
              bound2Call, bound2End, detectMiss, detectHit, detectOuter, detectEnd,
              detect2Call, detect2End, nextSkip, nextTimer, nextEnd, poolVars, objectVars,
              listVars
<1>6. ASSUME CallbackReturn PROVE UNCHANGED <<used, group, detect_lists, detect_links>>
  BY <1>6 DEF CallbackReturn, updateReturn, renderReturn, boundReturn, bound2Return,
              detectReturn, detect2Return, poolVars, objectVars, listVars
<1>7. CASE UNCHANGED vars
  BY <1>7, ListsStutter DEF vars, poolVars, objectVars, listVars
<1> QED BY <1>1, <1>2, <1>3, <1>4, <1>5, <1>6, <1>7, ListsStutter DEF Next

\* The pool and its passes use the detect lists as the family of lists that
\* GameObjectLinkedList specifies: each step of theirs is one insertion, one
\* move or one removal of an object that is where the operation expects it, or
\* leaves the lists alone (allocateWithCallbacks, setGroup, DirtResetObject,
\* freeWithCallbacks, resetGameObjectLists).
THEOREM PoolKeepsListsProtocol == Spec => DetectListsProtocol
<1>1. Init => Lists!ListsInit
  BY DEF Init, Lists!ListsInit, EmptyHead, NoLinks, Lists!EmptyHead, Lists!NoLinks
<1>2. IInv /\ [Next]_vars => [Lists!ListsNext]_(Lists!listVars)
  BY StepKeepsProtocol
<1> QED BY <1>1, <1>2, IInvHolds, PTL DEF Spec, DetectListsProtocol, Lists!ListsSpec
==============================================================================
