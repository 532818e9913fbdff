--------------------------- MODULE GameObjectPasses ---------------------------
(***************************************************************************)
(* The passes of GameObjectPool, each interleaved with the script code it  *)
(* calls, and what must hold while they run.                               *)
(***************************************************************************)
EXTENDS GameObjectPool, FiniteSets

Paused(o) == m_superpause > 0 /\ ~ ignore_super_pause[o]

BeginPass(name, loop) ==
  /\ name \in Passes /\ pc = "main"
  /\ pc' = loop
  /\ present' = used
  /\ UNCHANGED <<visits, moved, tested, regrouped, displaced>>

\* The object under the loop has been processed.
Visited ==
  /\ visits' = [visits EXCEPT ![p] = @ + 1]
  /\ UNCHANGED <<present, moved, tested, regrouped, displaced>>

\* The pass returns; its locals and its history go out of scope.
EndPass(loop) ==
  /\ pc = loop /\ p = null /\ cache = {}
  /\ pc' = "main"
  /\ p' = null /\ ptrA' = null /\ ptrB' = null /\ cache' = {}
  /\ groups' = <<DefaultGroup, DefaultGroup>> /\ version' = 1
  /\ present' = {} /\ visits' = [o \in Object |-> 0]
  /\ moved' = {} /\ tested' = {} /\ regrouped' = FALSE /\ displaced' = FALSE

UpdateSuperPause ==
  /\ m_superpause' = m_nextsuperpause
  /\ m_nextsuperpause' = IF m_nextsuperpause > 0 THEN m_nextsuperpause - 1 ELSE 0

------------------------------------------------------------------------------
(* lstg.ObjFrame: updateMovementsLegacy (1) and updateMovements (2). *)

ObjFrame(v) ==
  /\ BeginPass("ObjFrame", "update")
  /\ version' = v
  /\ p' = update_list.first
  /\ IF v = 1 THEN UpdateSuperPause ELSE UNCHANGED pauseVars
  /\ UNCHANGED <<poolVars, lockVars, ptrA, ptrB, groups, cache>>

\* The object has been updated; the first version also moves it here.
Updated ==
  /\ p' = update_links.next[p]
  /\ visits' = [visits EXCEPT ![p] = @ + 1]
  /\ moved' = IF version = 1 THEN moved \cup {p} ELSE moved
  /\ UNCHANGED <<present, tested, regrouped, displaced>>

updateSkip ==
  /\ pc = "update" /\ p # null /\ Paused(p)
  /\ p' = update_links.next[p]
  /\ UNCHANGED <<poolVars, lockVars, pauseVars, pc, ptrA, ptrB, groups, cache,
                 version, history>>

updatePlain ==
  /\ pc = "update" /\ p # null /\ ~ Paused(p) /\ "frame" \notin callbacks[p]
  /\ Updated
  /\ UNCHANGED <<poolVars, lockVars, pauseVars, pc, ptrA, ptrB, groups, cache, version>>

updateCall ==
  /\ pc = "update" /\ p # null /\ ~ Paused(p) /\ "frame" \in callbacks[p]
  /\ pc' = "update.callback"
  /\ UNCHANGED <<poolVars, lockVars, pauseVars, p, ptrA, ptrB, groups, cache,
                 version, history>>

\* The link is read after the callback has returned.
updateReturn ==
  /\ pc = "update.callback" /\ pc' = "update"
  /\ Updated
  /\ UNCHANGED <<poolVars, lockVars, pauseVars, ptrA, ptrB, groups, cache, version>>

\* The second version moves the objects in a loop of its own, which runs no
\* script code and is one step.
updateMovePresent ==                                                 \* mutant
  /\ pc = "update" /\ p = null /\ version = 2
  /\ pc' = "update2"
  /\ moved' = {o \in present : ~ Paused(o)}
  /\ UNCHANGED <<poolVars, lockVars, pauseVars, p, ptrA, ptrB, groups, cache, version,
                 present, visits, tested, regrouped, displaced>>

updateMove ==
  /\ pc = "update" /\ p = null /\ version = 2
  /\ pc' = "update2"
  /\ moved' = {o \in used : ~ Paused(o)}
  /\ UNCHANGED <<poolVars, lockVars, pauseVars, p, ptrA, ptrB, groups, cache, version,
                 present, visits, tested, regrouped, displaced>>

updateEnd ==
  /\ pc = IF version = 1 THEN "update" ELSE "update2"
  /\ EndPass(pc)
  /\ UNCHANGED <<poolVars, lockVars, pauseVars>>

------------------------------------------------------------------------------
(* lstg.ObjRender: render, an in-order iteration of the set. *)

\* The object of the least key of S, or null.
Least(S) ==
  IF S = {} THEN null
  ELSE (CHOOSE e \in S : \A x \in S : ~ Before(x, e)).object

FollowingInTree(o) == Least({x \in render_list : Before(Key(o), x)})

\* The iterator is at p, unless a callback has erased its node: stepping from
\* there is undefined, and what it leads to is any object or the end.
RenderedOne ==
  IF displaced THEN p' \in Object \cup {null} /\ UNCHANGED history
               ELSE p' = FollowingInTree(p) /\ Visited

ObjRender ==
  /\ BeginPass("ObjRender", "render")
  /\ ~ m_is_rendering /\ m_is_rendering' = TRUE
  /\ p' = Least(render_list)
  /\ UNCHANGED <<poolVars, m_LockObjectA, m_LockObjectB, m_is_detecting_intersect,
                 pauseVars, ptrA, ptrB, groups, cache, version>>

\* The object is hidden, or drawn by GameObject::Render.
renderPlain ==
  /\ pc = "render" /\ p # null
  /\ RenderedOne
  /\ UNCHANGED <<poolVars, lockVars, pauseVars, pc, ptrA, ptrB, groups, cache, version>>

renderCall ==
  /\ pc = "render" /\ p # null /\ "render" \in callbacks[p]
  /\ pc' = "render.callback"
  /\ UNCHANGED <<poolVars, lockVars, pauseVars, p, ptrA, ptrB, groups, cache,
                 version, history>>

renderReturn ==
  /\ pc = "render.callback" /\ pc' = "render"
  /\ RenderedOne
  /\ UNCHANGED <<poolVars, lockVars, pauseVars, ptrA, ptrB, groups, cache, version>>

renderEnd ==
  /\ EndPass("render")
  /\ m_is_rendering' = FALSE
  /\ UNCHANGED <<poolVars, m_LockObjectA, m_LockObjectB, m_is_detecting_intersect,
                 pauseVars>>

------------------------------------------------------------------------------
(* lstg.BoundCheck: detectOutOfWorldBoundLegacy and detectOutOfWorldBound. *)

BoundCheckLegacy ==
  /\ BeginPass("BoundCheck", "bound")
  /\ p' = update_list.first
  /\ UNCHANGED <<poolVars, lockVars, pauseVars, ptrA, ptrB, groups, cache, version>>

boundInside ==
  /\ pc = "bound" /\ p # null
  /\ p' = update_links.next[p] /\ Visited
  /\ UNCHANGED <<poolVars, lockVars, pauseVars, pc, ptrA, ptrB, groups, cache, version>>

\* Marks the object whatever its status was, then calls del if there is one.
boundOutside ==
  /\ pc = "bound" /\ p # null
  /\ status' = [status EXCEPT ![p] = "dead"]
  /\ IF "del" \in callbacks[p]
     THEN pc' = "bound.callback" /\ UNCHANGED <<p, history>>
     ELSE pc' = pc /\ p' = update_links.next[p] /\ Visited
  /\ UNCHANGED <<used, object_table, m_iUid, unique_id, group, layer, callbacks,
                 ignore_super_pause, listVars, lockVars, pauseVars, ptrA, ptrB,
                 groups, cache, version>>

boundReturn ==
  /\ pc = "bound.callback" /\ pc' = "bound"
  /\ p' = update_links.next[p] /\ Visited
  /\ UNCHANGED <<poolVars, lockVars, pauseVars, ptrA, ptrB, groups, cache, version>>

boundEnd ==
  /\ EndPass("bound")
  /\ UNCHANGED <<poolVars, lockVars, pauseVars>>

Result(a, b) == [a |-> a, uidA |-> unique_id[a], b |-> b, uidB |-> unique_id[b]]

\* The batch form marks every object outside first and calls back afterwards.
\* The scan runs no script code and is one step; Out are the objects found.
BoundCheck(Out) ==
  /\ BeginPass("BoundCheck2", "bound2")
  /\ status' = [o \in Object |-> IF o \in Out THEN "dead" ELSE status[o]]
  /\ cache' = {Result(o, o) : o \in {x \in Out : "del" \in callbacks[x]}}
  /\ UNCHANGED <<used, object_table, m_iUid, unique_id, group, layer, callbacks,
                 ignore_super_pause, listVars, lockVars, pauseVars, p, ptrA, ptrB,
                 groups, version>>

\* Whether the objects of a cached result are still those that were tested.
Fresh(e) == unique_id[e.a] = e.uidA /\ unique_id[e.b] = e.uidB

bound2Call(e) ==
  /\ pc = "bound2" /\ e \in cache
  /\ cache' = cache \ {e}
  /\ IF Fresh(e) THEN pc' = "bound2.callback" /\ p' = e.a
                 ELSE UNCHANGED <<pc, p>>                      \* assert(false)
  /\ UNCHANGED <<poolVars, lockVars, pauseVars, ptrA, ptrB, groups, version,
                 history>>

bound2Return ==
  /\ pc = "bound2.callback" /\ pc' = "bound2"
  /\ Visited /\ p' = null
  /\ UNCHANGED <<poolVars, lockVars, pauseVars, ptrA, ptrB, groups, cache, version>>

bound2End ==
  /\ EndPass("bound2")
  /\ UNCHANGED <<poolVars, lockVars, pauseVars>>

------------------------------------------------------------------------------
(* lstg.CollisionCheck: detectIntersectionLegacy and detectIntersection. *)

\* p is pA; the outer pointer is advanced before the inner loop starts.
OuterStepKeepsB(first) ==                                            \* mutant
  /\ p' = first /\ ptrB' = ptrB
  /\ ptrA' = IF first = null THEN null ELSE detect_links.next[first]

OuterStep(first) ==
  IF first = null THEN /\ p' = null /\ ptrA' = null /\ ptrB' = null
  ELSE /\ p' = first
       /\ ptrA' = detect_links.next[first]
       /\ ptrB' = detect_lists[groups'[2]].first

CollisionCheckLegacy(g1, g2) ==
  /\ ~ m_is_detecting_intersect
  /\ BeginPass("CollisionCheck", "detect")
  /\ m_is_detecting_intersect' = TRUE
  /\ groups' = <<g1, g2>>
  /\ OuterStep(detect_lists[g1].first)
  /\ UNCHANGED <<poolVars, m_LockObjectA, m_LockObjectB, m_is_rendering, pauseVars,
                 cache, version>>

\* The inner pointer is advanced before the callback runs.
NextPair ==
  /\ ptrB' = detect_links.next[ptrB]
  /\ tested' = tested \cup {<<p, ptrB>>}
  /\ UNCHANGED <<p, ptrA, groups, cache, version, present, visits, moved, regrouped,
                 displaced>>

\* The next object of the inner loop does not intersect.
detectMiss ==
  /\ pc = "detect" /\ ptrB # null
  /\ NextPair
  /\ UNCHANGED <<poolVars, lockVars, pauseVars, pc>>

\* It does.
detectHit ==
  /\ pc = "detect" /\ ptrB # null /\ "colli" \in callbacks[p]
  /\ NextPair
  /\ m_LockObjectA' = p /\ m_LockObjectB' = ptrB
  /\ pc' = "detect.callback"
  /\ UNCHANGED <<poolVars, m_is_rendering, m_is_detecting_intersect, pauseVars>>

detectReturn ==
  /\ pc = "detect.callback" /\ pc' = "detect"
  /\ m_LockObjectA' = null /\ m_LockObjectB' = null
  /\ UNCHANGED <<poolVars, m_is_rendering, m_is_detecting_intersect, pauseVars, p,
                 ptrA, ptrB, groups, cache, version, history>>

detectOuter ==
  /\ pc = "detect" /\ p # null /\ ptrB = null
  /\ UNCHANGED groups
  /\ OuterStep(ptrA)
  /\ UNCHANGED <<poolVars, lockVars, pauseVars, pc, cache, version, history>>

detectEnd ==
  /\ EndPass("detect")
  /\ m_is_detecting_intersect' = FALSE
  /\ UNCHANGED <<poolVars, m_LockObjectA, m_LockObjectB, m_is_rendering, pauseVars>>

\* The batch form takes a list of group pairs, tests every pair of objects
\* first and calls back afterwards.  The tests run no script code and are one
\* step; Hits are the pairs of objects found.
Candidates == {h \in used \X used : "colli" \in callbacks[h[1]]}

CollisionCheck(Hits) ==
  /\ ~ m_is_detecting_intersect
  /\ Cardinality(Hits) <= HitBound
  /\ BeginPass("CollisionCheck2", "detect2")
  /\ m_is_detecting_intersect' = TRUE
  /\ cache' = {Result(h[1], h[2]) : h \in Hits}
  /\ UNCHANGED <<poolVars, m_LockObjectA, m_LockObjectB, m_is_rendering, pauseVars,
                 p, ptrA, ptrB, groups, version>>

detect2Call(e) ==
  /\ pc = "detect2" /\ e \in cache
  /\ cache' = cache \ {e}
  /\ IF Fresh(e)
     THEN /\ pc' = "detect2.callback"
          /\ m_LockObjectA' = e.a /\ m_LockObjectB' = e.b
     ELSE UNCHANGED <<pc, m_LockObjectA, m_LockObjectB>>        \* assert(false)
  /\ UNCHANGED <<poolVars, m_is_rendering, m_is_detecting_intersect, pauseVars, p,
                 ptrA, ptrB, groups, version, history>>

detect2Return ==
  /\ pc = "detect2.callback" /\ pc' = "detect2"
  /\ m_LockObjectA' = null /\ m_LockObjectB' = null
  /\ UNCHANGED <<poolVars, m_is_rendering, m_is_detecting_intersect, pauseVars, p,
                 ptrA, ptrB, groups, cache, version, history>>

detect2End ==
  /\ EndPass("detect2")
  /\ m_is_detecting_intersect' = FALSE
  /\ UNCHANGED <<poolVars, m_LockObjectA, m_LockObjectB, m_is_rendering, pauseVars>>

------------------------------------------------------------------------------
(* lstg.AfterFrame and lstg.ResetPool, the two passes that free objects. *)

\* remove() returns the next object, or null from its path for the last one.
StaysAfterRemove(o) == o                                             \* mutant
NextAfterRemove(o) == IF Sole(update_list, o) THEN null ELSE update_links.next[o]

freeWithCallbacks(o) ==
  /\ used' = used \ {o}
  /\ object_table' = object_table \ {o}
  /\ status' = [status EXCEPT ![o] = "free"]
  /\ p' = NextAfterRemove(o)
  /\ update_list' = RemoveHead(update_list, update_links, o)
  /\ update_links' = RemoveLinks(update_list, update_links, o)
  /\ LET g == group[o] IN
       /\ detect_lists' = [detect_lists EXCEPT ![g] = RemoveHead(@, detect_links, o)]
       /\ detect_links' = RemoveLinks(detect_lists[g], detect_links, o)
  /\ render_list' = SetErase(render_list, Key(o))
  /\ UNCHANGED <<m_iUid, unique_id, group, layer, callbacks, ignore_super_pause>>

AfterFrame(v) ==
  /\ BeginPass("AfterFrame", "next")
  /\ version' = v
  /\ p' = update_list.first
  /\ IF v = 2 THEN UpdateSuperPause ELSE UNCHANGED pauseVars
  /\ UNCHANGED <<poolVars, lockVars, ptrA, ptrB, groups, cache>>

nextSkip ==
  /\ pc = "next" /\ p # null /\ Paused(p)
  /\ p' = update_links.next[p]
  /\ UNCHANGED <<poolVars, lockVars, pauseVars, pc, ptrA, ptrB, groups, cache,
                 version, history>>

nextFree ==
  /\ pc = "next" /\ p # null /\ ~ Paused(p) /\ status[p] # "active"
  /\ freeWithCallbacks(p)
  /\ UNCHANGED <<lockVars, pauseVars, pc, ptrA, ptrB, groups, cache, version,
                 history>>

nextTimerPaused ==                                                   \* mutant
  /\ pc = "next" /\ p # null /\ status[p] = "active"
  /\ p' = update_links.next[p] /\ Visited
  /\ UNCHANGED <<poolVars, lockVars, pauseVars, pc, ptrA, ptrB, groups, cache, version>>

nextTimerKilled ==                                                   \* mutant
  /\ pc = "next" /\ p # null /\ ~ Paused(p) /\ status[p] # "dead"
  /\ p' = update_links.next[p] /\ Visited
  /\ UNCHANGED <<poolVars, lockVars, pauseVars, pc, ptrA, ptrB, groups, cache, version>>

nextTimer ==
  /\ pc = "next" /\ p # null /\ ~ Paused(p) /\ status[p] = "active"
  /\ p' = update_links.next[p] /\ Visited
  /\ UNCHANGED <<poolVars, lockVars, pauseVars, pc, ptrA, ptrB, groups, cache, version>>

nextEnd ==
  /\ EndPass("next")
  /\ UNCHANGED <<poolVars, lockVars, pauseVars>>

ResetPool ==
  /\ BeginPass("ResetPool", "reset")
  /\ p' = update_list.first
  /\ UNCHANGED <<poolVars, lockVars, pauseVars, ptrA, ptrB, groups, cache, version>>

resetFree ==
  /\ pc = "reset" /\ p # null
  /\ freeWithCallbacks(p)
  /\ UNCHANGED <<lockVars, pauseVars, pc, ptrA, ptrB, groups, cache, version,
                 history>>

\* resetGameObjectLists: clear() nulls the links of the elements it finds and
\* leaves m_first and m_last; the lists are empty by now.  render_list.clear()
\* and m_ObjectPool.clear() follow.
resetEnd ==
  /\ EndPass("reset")
  /\ render_list' = {}
  /\ used' = {}
  /\ m_LockObjectA' = null /\ m_LockObjectB' = null
  /\ m_superpause' = 0 /\ m_nextsuperpause' = 0
  /\ UNCHANGED <<object_table, m_iUid, objectVars, update_list, update_links,
                 detect_lists, detect_links, m_is_rendering, m_is_detecting_intersect>>

------------------------------------------------------------------------------
StartPass ==
  \/ \E v \in {1, 2} : ObjFrame(v) \/ AfterFrame(v)
  \/ ObjRender \/ BoundCheckLegacy \/ ResetPool
  \/ \E Out \in SUBSET used : BoundCheck(Out)
  \/ \E g1, g2 \in Group : CollisionCheckLegacy(g1, g2)
  \/ \E Hits \in SUBSET Candidates : CollisionCheck(Hits)

LoopStep ==
  \/ updateSkip \/ updatePlain \/ updateCall \/ updateMove \/ updateEnd
  \/ renderPlain \/ renderCall \/ renderEnd
  \/ boundInside \/ boundOutside \/ boundEnd
  \/ (\E e \in cache : bound2Call(e)) \/ bound2End
  \/ detectMiss \/ detectHit \/ detectOuter \/ detectEnd
  \/ (\E e \in cache : detect2Call(e)) \/ detect2End
  \/ nextSkip \/ nextFree \/ nextTimer \/ nextEnd
  \/ resetFree \/ resetEnd

CallbackReturn ==
  \/ updateReturn \/ renderReturn \/ boundReturn \/ bound2Return
  \/ detectReturn \/ detect2Return

Next == ScriptStep \/ StartPass \/ LoopStep \/ CallbackReturn

Spec == Init /\ [][Next]_vars

\* The engine calls the main script once per frame and the script calls
\* AfterFrame in it; a callback returns; a loop is plain C++ code.
Fairness ==
  /\ WF_vars(LoopStep)
  /\ WF_vars(CallbackReturn)
  /\ SF_vars(\E v \in {1, 2} : AfterFrame(v))

FairSpec == Spec /\ Fairness

------------------------------------------------------------------------------
(* Structure: what the passes and the binding rely on at all times. *)

\* The update list holds exactly the objects in use, each detect list exactly
\* those of its group, and a free slot has null links, whatever callbacks do
\* to the lists while a pass walks them (GameObjectLinkedList in
\* GameObjectPool.h; add() appends without writing the next field).
ListsInv ==
  /\ WellFormed(update_list, update_links, used)
  /\ \A g \in Group : WellFormed(detect_lists[g], detect_links, InGroup(g))
  /\ \A o \in Object \ used : Detached(update_links, o) /\ Detached(detect_links, o)

\* The render set holds every object in use under its present layer and unique
\* id and nothing else, and no two objects share a unique id: a key changed
\* while the object is in the set would make erase() miss it
\* (GameObjectLayerComparer, setLayer and DirtResetObject).
RenderListInv ==
  /\ render_list = {Key(o) : o \in used}
  /\ \A o1, o2 \in used : unique_id[o1] = unique_id[o2] => o1 = o2
  /\ \A o \in used : unique_id[o] < m_iUid

\* The update list is in order of creation (or of the last ResetObject).
UpdateOrderInv ==
  \A o \in used : update_links.next[o] # null =>
                    unique_id[o] < unique_id[update_links.next[o]]

\* No pointer of a pass outlives its object: not the ones a loop holds over a
\* callback, not the one it stands on when AfterFrame or ResetPool frees that
\* object, and not the two locks, which stay set between passes if a pass
\* forgets them.  Only the iterator of the render set may be lost, when a
\* render callback resets the object it is at (updateMovementsLegacy,
\* updateNext, detectIntersectionLegacy, freeWithCallbacks).
PassPointersInv ==
  /\ {ptrA, ptrB, m_LockObjectA, m_LockObjectB} \subseteq used \cup {null}
  /\ p \in used \cup {null} \/ (m_is_rendering /\ displaced)

------------------------------------------------------------------------------
(* Coverage: what a pass does to the objects. *)

\* ObjFrame, both versions, has called frame on every object in use exactly
\* once and moved it when it ends, those created by the callbacks it ran
\* included, unless a super pause is on (updateMovementsLegacy, updateMovements).
FrameCoversAll ==
  pc = (IF version = 1 THEN "update" ELSE "update2") /\ p = null /\ m_superpause = 0
  => \A o \in used : visits[o] = 1 /\ o \in moved

\* BoundCheck has tested every object in use exactly once when it ends, those
\* its del callbacks created included (detectOutOfWorldBoundLegacy).
BoundCoversAll ==
  pc = "bound" /\ p = null => \A o \in used : visits[o] = 1

\* CollisionCheck(A, B) tests every object of A with every object of B that
\* existed when it began, and no pair twice, while it walks with prefetched
\* pointers the lists that callbacks append to, as long as no callback moves
\* an object between groups (detectIntersectionLegacy).
DetectCoversAll ==
  pc = "detect" /\ ~ regrouped =>
    /\ p = null => (InGroup(groups[1]) \cap present) \X (InGroup(groups[2]) \cap present)
                      \subseteq tested
    /\ ptrB # null => <<p, ptrB>> \notin tested

\* AfterFrame leaves no marked object behind and ticks each other one exactly
\* once, although it frees the object its loop stands on; the objects a super
\* pause freezes it leaves alone (updateNextLegacy, updateNext, remove).
AfterFrameCoversAll ==
  pc = "next" /\ p = null =>
    \A o \in used : IF Paused(o) THEN visits[o] = 0
                                 ELSE visits[o] = 1 /\ status[o] = "active"

\* The walks of a frame reach every object exactly once: ObjFrame to update
\* them, AfterFrame to free and to tick them (updateMovementsLegacy,
\* updateMovements, updateNextLegacy, updateNext).
FrameInv == FrameCoversAll /\ AfterFrameCoversAll

\* ObjRender has rendered each object that existed when it began exactly once,
\* and no object twice, although render callbacks create objects, which go
\* into the set that is being iterated (render, setLayer).
RenderCoversAll ==
  pc = "render" /\ p = null =>
    /\ \A o \in present : visits[o] = 1
    /\ \A o \in used : visits[o] <= 1

\* The walks over a set and a list that their own callbacks grow process each
\* object once: ObjRender and BoundCheck (render, detectOutOfWorldBoundLegacy).
WalksInv == RenderCoversAll /\ BoundCoversAll

\* A result that detectOutOfWorldBound or detectIntersection cached still
\* names the objects that were tested when its callback is due, so the
\* assert(false) in both dispatch loops is never reached.
CacheStaysFresh == pc \in {"bound2", "detect2"} => \A e \in cache : Fresh(e)

\* CollisionCheck(A, B) calls the colli callback of an object of group A with
\* an object of group B (detectIntersectionLegacy).
CollisionGroups ==
  pc = "detect.callback" =>
    group[m_LockObjectA] = groups[1] /\ group[m_LockObjectB] = groups[2]

\* An object locked by a colli callback keeps its place in the detect list:
\* assert(p != m_LockObjectA && p != m_LockObjectB) in DirtResetObject.
LockedInPlace == pc \in {"detect.callback", "detect2.callback"} => ~ displaced

Lists == INSTANCE GameObjectLinkedList WITH
           List <- Group, head <- detect_lists, links <- detect_links,
           member <- [o \in Object |-> IF o \in used THEN group[o] ELSE null]

\* The operations of the pool use the detect lists within their protocol: an
\* object is only added while it is in no list and only removed from the list
\* it is in.  ResetPool frees the objects one by one first, so resetting the
\* empty lists changes nothing (allocateWithCallbacks, setGroup,
\* DirtResetObject, freeWithCallbacks).
DetectListsProtocol == Lists!ListsSpec

\* A marked object is eventually freed, unless a script revives it or pauses
\* every later frame (updateNextLegacy, updateNext).
MarkedIsFreed ==
  []<>(pc = "next" /\ m_superpause = 0) =>
    \A o \in Object : status[o] \in {"dead", "killed"} ~> status[o] \in {"free", "active"}
==============================================================================
