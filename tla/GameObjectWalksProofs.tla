------------------------- MODULE GameObjectWalksProofs -------------------------
(***************************************************************************)
(* What the passes of the pool reach.  A pass walks a list or a tree that  *)
(* its own callbacks change, and keeps nothing but a pointer; that it      *)
(* processes each object exactly once follows from the order of what it    *)
(* walks: the objects behind the pointer have been visited, those at it    *)
(* and after it have not.                                                  *)
(***************************************************************************)
EXTENDS GameObjectPassesProofs

\* The walk over the update list, which is in the order of the unique ids,
\* has passed object o.
Passed(o) == p = null \/ unique_id[o] < unique_id[p]

VisitedOnce == \A o \in Object : visits[o] = IF o \in used /\ Passed(o) THEN 1 ELSE 0

\* ObjFrame without a super pause, with the moves of its two versions.
UpdateWalk ==
  pc \in {"update", "update.callback", "update2"} /\ m_superpause = 0 =>
    /\ VisitedOnce
    /\ version = 1 /\ pc # "update2" => \A o \in used : Passed(o) => o \in moved
    /\ pc = "update2" => p = null /\ version = 2 /\ used \subseteq moved

BoundWalk == pc \in {"bound", "bound.callback"} => VisitedOnce

\* AfterFrame has freed the marked objects it has passed and ticked the others,
\* but for those a super pause freezes.
NextWalk ==
  pc = "next" =>
    \A o \in Object :
      /\ visits[o] = IF o \in used /\ Passed(o) /\ ~ Paused(o) THEN 1 ELSE 0
      /\ o \in used /\ Passed(o) /\ ~ Paused(o) => status[o] = "active"

\* ObjRender walks the tree, which is in the order of the keys.  What is
\* inserted before the pointer is never visited, what is inserted after it is.
Rendered(o) == p = null \/ Before(Key(o), Key(p))

RenderWalk ==
  pc \in {"render", "render.callback"} =>
    /\ present \subseteq used
    /\ \A o \in Object \ used : visits[o] = 0
    /\ \A o \in used :
         /\ visits[o] \in {0, 1}
         /\ Rendered(o) /\ o \in present => visits[o] = 1
         /\ ~ Rendered(o) => visits[o] = 0

AtMain == pc = "main" => visits = [o \in Object |-> 0] /\ moved = {} /\ tested = {}

WalkInv == AtMain /\ UpdateWalk /\ BoundWalk /\ NextWalk /\ RenderWalk

------------------------------------------------------------------------------
(* Which steps lead into, or stay in, the loop of a pass. *)

\* A script leaves the locals and the history of the pass that runs it alone.
LEMMA ScriptLocals ==
  ASSUME ScriptStep
  PROVE  /\ UNCHANGED <<passLocals, lockVars, present, visits, moved, tested, m_superpause>>
         /\ pc = "main" \/ pc \in Callback
  BY DEF ScriptStep, New, NewInvalidClass, queueToFree, setStatus, setClass, setGroup,
         setLayer, DirtResetObject, setIgnoreSuperPause, SetNextFrameSuperPauseTime,
         allocateWithCallbacks, Script, pauseVars, passVars, history

LEMMA IntoUpdate ==
  ASSUME Next, pc' \in {"update", "update.callback", "update2"}
  PROVE  \/ ScriptStep
         \/ \E v \in {1, 2} : ObjFrame(v)
         \/ updateSkip \/ updatePlain \/ updateCall \/ updateReturn \/ updateMove
<1>1. ASSUME StartPass PROVE \E v \in {1, 2} : ObjFrame(v)
  BY <1>1 DEF StartPass, AfterFrame, ObjRender, BoundCheckLegacy, ResetPool, BoundCheck,
              CollisionCheckLegacy, CollisionCheck, BeginPass
<1>2. ASSUME LoopStep PROVE updateSkip \/ updatePlain \/ updateCall \/ updateMove
  BY <1>2 DEF LoopStep, updateEnd, renderPlain, renderCall, renderEnd, boundInside,
              boundOutside, boundEnd, bound2Call, bound2End, detectMiss, detectHit,
              detectOuter, detectEnd, detect2Call, detect2End, nextSkip, nextFree,
              nextTimer, nextEnd, resetFree, resetEnd, EndPass
<1>3. ASSUME CallbackReturn PROVE updateReturn
  BY <1>3 DEF CallbackReturn, renderReturn, boundReturn, bound2Return, detectReturn,
              detect2Return
<1> QED BY <1>1, <1>2, <1>3 DEF Next

LEMMA IntoBound ==
  ASSUME Next, pc' \in {"bound", "bound.callback"}
  PROVE  ScriptStep \/ BoundCheckLegacy \/ boundInside \/ boundOutside \/ boundReturn
<1>1. ASSUME StartPass PROVE BoundCheckLegacy
  BY <1>1 DEF StartPass, AfterFrame, ObjRender, ObjFrame, ResetPool, BoundCheck,
              CollisionCheckLegacy, CollisionCheck, BeginPass
<1>2. ASSUME LoopStep PROVE boundInside \/ boundOutside
  BY <1>2 DEF LoopStep, updateEnd, renderPlain, renderCall, renderEnd, updateSkip,
              updatePlain, updateCall, updateMove, boundEnd, bound2Call, bound2End,
              detectMiss, detectHit, detectOuter, detectEnd, detect2Call, detect2End,
              nextSkip, nextFree, nextTimer, nextEnd, resetFree, resetEnd, EndPass
<1>3. ASSUME CallbackReturn PROVE boundReturn
  BY <1>3 DEF CallbackReturn, renderReturn, updateReturn, bound2Return, detectReturn,
              detect2Return
<1> QED BY <1>1, <1>2, <1>3 DEF Next

LEMMA IntoNext ==
  ASSUME Next, pc' = "next"
  PROVE  (\E v \in {1, 2} : AfterFrame(v)) \/ nextSkip \/ nextFree \/ nextTimer
<1>1. ASSUME StartPass PROVE \E v \in {1, 2} : AfterFrame(v)
  BY <1>1 DEF StartPass, BoundCheckLegacy, ObjRender, ObjFrame, ResetPool, BoundCheck,
              CollisionCheckLegacy, CollisionCheck, BeginPass
<1>2. ASSUME LoopStep PROVE nextSkip \/ nextFree \/ nextTimer
  BY <1>2 DEF LoopStep, updateEnd, renderPlain, renderCall, renderEnd, updateSkip,
              updatePlain, updateCall, updateMove, boundInside, boundOutside, boundEnd,
              bound2Call, bound2End, detectMiss, detectHit, detectOuter, detectEnd,
              detect2Call, detect2End, nextEnd, resetFree, resetEnd, EndPass
<1>3. ~ CallbackReturn
  BY DEF CallbackReturn, renderReturn, updateReturn, boundReturn, bound2Return,
         detectReturn, detect2Return
<1>4. ~ ScriptStep
  BY ScriptLocals DEF passLocals, Callback
<1> QED BY <1>1, <1>2, <1>3, <1>4 DEF Next

LEMMA IntoRender ==
  ASSUME Next, pc' \in {"render", "render.callback"}
  PROVE  ScriptStep \/ ObjRender \/ renderPlain \/ renderCall \/ renderReturn
<1>1. ASSUME StartPass PROVE ObjRender
  BY <1>1 DEF StartPass, BoundCheckLegacy, AfterFrame, ObjFrame, ResetPool, BoundCheck,
              CollisionCheckLegacy, CollisionCheck, BeginPass
<1>2. ASSUME LoopStep PROVE renderPlain \/ renderCall
  BY <1>2 DEF LoopStep, updateEnd, renderEnd, updateSkip, updatePlain, updateCall,
              updateMove, boundInside, boundOutside, boundEnd, bound2Call, bound2End,
              detectMiss, detectHit, detectOuter, detectEnd, detect2Call, detect2End,
              nextSkip, nextFree, nextTimer, nextEnd, resetFree, resetEnd, EndPass
<1>3. ASSUME CallbackReturn PROVE renderReturn
  BY <1>3 DEF CallbackReturn, boundReturn, updateReturn, bound2Return, detectReturn,
              detect2Return
<1> QED BY <1>1, <1>2, <1>3 DEF Next

\* A pass begins and ends with no history.
LEMMA MainStep ==
  ASSUME AtMain, Next
  PROVE  AtMain'
<1> SUFFICES ASSUME pc' = "main"
             PROVE  visits' = [o \in Object |-> 0] /\ moved' = {} /\ tested' = {}
  BY DEF AtMain
<1>1. CASE ScriptStep
  BY <1>1, ScriptLocals DEF passLocals, AtMain
<1>2. ~ StartPass
  BY DEF StartPass, ObjFrame, AfterFrame, ObjRender, BoundCheckLegacy, ResetPool,
         BoundCheck, CollisionCheckLegacy, CollisionCheck, BeginPass
<1>3. ~ CallbackReturn
  BY DEF CallbackReturn, renderReturn, updateReturn, boundReturn, bound2Return,
         detectReturn, detect2Return
<1>4. ASSUME LoopStep
      PROVE  visits' = [o \in Object |-> 0] /\ moved' = {} /\ tested' = {}
  <2>1. \/ updateEnd \/ renderEnd \/ boundEnd \/ bound2End \/ detectEnd \/ detect2End
        \/ nextEnd \/ resetEnd
    BY <1>4 DEF LoopStep, updateSkip, updatePlain, updateCall, updateMove, renderPlain,
                renderCall, boundInside, boundOutside, bound2Call, detectMiss, detectHit,
                detectOuter, detect2Call, nextSkip, nextFree, nextTimer, resetFree
  <2> QED BY <2>1 DEF updateEnd, renderEnd, boundEnd, bound2End, detectEnd, detect2End,
                      nextEnd, resetEnd, EndPass
<1> QED BY <1>1, <1>2, <1>3, <1>4 DEF Next
------------------------------------------------------------------------------
(* The walks over the update list. *)

\* What the order of the list says of a pointer that moves along it.
LEMMA AlongUpdateList ==
  ASSUME IInv, NEW o \in used, NEW x \in used
  PROVE  /\ used \subseteq Object /\ unique_id \in [Object -> Nat]
         /\ update_list.first \in used
         /\ unique_id[update_list.first] <= unique_id[x]
         /\ update_links.next[o] = null => unique_id[x] <= unique_id[o]
         /\ update_links.next[o] # null =>
              /\ update_links.next[o] \in used
              /\ unique_id[x] < unique_id[update_links.next[o]]
                   <=> unique_id[x] <= unique_id[o]
         /\ unique_id[x] = unique_id[o] => x = o
<1>1. /\ WellFormed(update_list, update_links, used)
      /\ Ordered(update_list, update_links, used, unique_id, m_iUid)
      /\ used \in SUBSET Object /\ unique_id \in [Object -> Nat]
      /\ update_list \in HeadType(Object) /\ update_links \in LinkType(Object)
  BY DEF IInv, PoolInv, UpdateListInv, ObjectType
<1> QED BY <1>1, AlongList

\* The start of the list: nothing has been passed.
LEMMA PassedAtStart ==
  ASSUME IInv, p' = update_list.first, UNCHANGED <<used, unique_id>>
  PROVE  \A x \in used : ~ Passed(x)'
<1> SUFFICES ASSUME NEW x \in used PROVE ~ Passed(x)'
  OBVIOUS
<1>1. /\ unique_id \in [Object -> Nat] /\ used \subseteq Object
      /\ update_list.first \in used /\ unique_id[update_list.first] <= unique_id[x]
  BY AlongUpdateList
<1>2. null \notin Object
  BY PoolAssumption
<1> QED BY <1>1, <1>2 DEF Passed

\* A step along the list passes the object it leaves and no other.
LEMMA PassedByStep ==
  ASSUME IInv, p # null, pc \notin {"render", "render.callback"},
         p' = update_links.next[p], UNCHANGED unique_id
  PROVE  /\ p \in used /\ ~ Passed(p)
         /\ \A x \in used : Passed(x)' <=> Passed(x) \/ x = p
<1>1. p \in used
  BY DEF IInv, PassInv, PassPointersInv, PassFlagsInv
<1>2. ~ Passed(p)
  BY <1>1, AlongUpdateList DEF Passed
<1>3. ASSUME NEW x \in used PROVE Passed(x)' <=> Passed(x) \/ x = p
  <2>1. /\ update_links.next[p] = null => unique_id[x] <= unique_id[p]
        /\ update_links.next[p] # null =>
             (unique_id[x] < unique_id[update_links.next[p]]
                   <=> unique_id[x] <= unique_id[p])
        /\ unique_id[x] = unique_id[p] => x = p
        /\ unique_id[x] \in Nat /\ unique_id[p] \in Nat
    BY <1>1, AlongUpdateList
  <2>2. Passed(x) <=> unique_id[x] < unique_id[p]
    BY DEF Passed
  <2>3. Passed(x)' <=> update_links.next[p] = null
                       \/ unique_id[x] < unique_id[update_links.next[p]]
    BY DEF Passed
  <2> QED BY <2>1, <2>2, <2>3
<1> QED BY <1>1, <1>2, <1>3

\* What a callback creates is not passed, and what it leaves alone stays where
\* it was.
LEMMA CallbackScript ==
  ASSUME IInv, ScriptStep, pc \in Callback, "ResetObject" \notin CallbackOps
  PROVE  /\ used \subseteq used'
         /\ \A x \in used : unique_id'[x] = unique_id[x]
         /\ \A x \in used' \ used : unique_id'[x] = m_iUid
         /\ \A x \in used : m_iUid > unique_id[x]
         /\ pc = "render.callback" => \A x \in used : layer'[x] = layer[x]
<1>t. ObjectType /\ \A x \in used : unique_id[x] < m_iUid
  BY DEF IInv, PoolInv, RenderListInv
<1>g. \A x \in used : m_iUid > unique_id[x]
  BY <1>t DEF ObjectType
<1>1. ASSUME NEW o \in Object, NEW class, allocateWithCallbacks(o, class)
      PROVE  /\ used \subseteq used'
             /\ \A x \in used : unique_id'[x] = unique_id[x] /\ layer'[x] = layer[x]
             /\ \A x \in used' \ used : unique_id'[x] = m_iUid
  BY <1>t, <1>1 DEF allocateWithCallbacks, ObjectType
<1>2. \A o : ~ DirtResetObject(o)
  BY DEF DirtResetObject, Script, Callback
<1>3. ASSUME NEW o \in Object, NEW l \in Layer, setLayer(o, l)
      PROVE  UNCHANGED <<used, unique_id>> /\ pc # "render.callback"
  BY <1>3 DEF setLayer, isRendering, IInv, PassInv, PassPointersInv, PassFlagsInv,
         PassLocalsInv
<1>4. CASE \E o \in Object : (\E class \in Class : New(o, class)) \/ NewInvalidClass(o)
  BY <1>1, <1>4, <1>g DEF New, NewInvalidClass
<1>5. CASE \E o \in Object, l \in Layer : setLayer(o, l)
  BY <1>3, <1>5, <1>g
<1>6. ASSUME ScriptStep,
             ~ \E o \in Object : (\E class \in Class : New(o, class)) \/ NewInvalidClass(o),
             ~ \E o \in Object, l \in Layer : setLayer(o, l)
      PROVE  UNCHANGED <<used, unique_id, layer>>
  BY <1>6, <1>2 DEF ScriptStep, queueToFree, setStatus, setClass, setGroup,
         setIgnoreSuperPause, SetNextFrameSuperPauseTime, poolVars, objectVars
<1> QED BY <1>4, <1>5, <1>6, <1>g

LEMMA PassedInCallback ==
  ASSUME IInv, ScriptStep, pc \in Callback, "ResetObject" \notin CallbackOps, p # null
  PROVE  /\ \A x \in used : Passed(x)' = Passed(x)
         /\ \A x \in used' \ used : ~ Passed(x)'
         /\ p' = p
<1>1. /\ used \subseteq used'
      /\ \A x \in used : unique_id'[x] = unique_id[x]
      /\ \A x \in used' \ used : unique_id'[x] = m_iUid
      /\ \A x \in used : m_iUid > unique_id[x]
  BY CallbackScript
<1>2. p' = p /\ p \in used
  BY ScriptLocals DEF passLocals, IInv, PassInv, PassPointersInv, PassFlagsInv,
         PassLocalsInv
<1>3. m_iUid \in Nat /\ unique_id[p] \in Nat
  BY <1>2 DEF IInv, PoolInv, ObjectType
<1> QED BY <1>1, <1>2, <1>3 DEF Passed

\* Each object in use stays visited once or not yet while the list is walked.
LEMMA VisitedOnceByStep ==
  ASSUME IInv, VisitedOnce, p # null,
         pc \notin {"render", "render.callback"},
         p' = update_links.next[p], UNCHANGED <<used, unique_id>>,
         visits' = [visits EXCEPT ![p] = @ + 1]
  PROVE  VisitedOnce'
<1>1. /\ p \in used /\ ~ Passed(p)
      /\ \A x \in used : Passed(x)' <=> Passed(x) \/ x = p
  BY PassedByStep
<1>2. visits \in [Object -> Nat] /\ used \subseteq Object
  BY DEF IInv, PassInv, PassType, PoolInv, ObjectType
<1> QED BY <1>1, <1>2 DEF VisitedOnce

LEMMA VisitedOnceInCallback ==
  ASSUME IInv, VisitedOnce, ScriptStep, pc \in Callback, "ResetObject" \notin CallbackOps,
         p # null
  PROVE  VisitedOnce'
<1>1. /\ \A x \in used : Passed(x)' = Passed(x)
      /\ \A x \in used' \ used : ~ Passed(x)'
      /\ visits' = visits /\ used \subseteq used'
  BY PassedInCallback, ScriptLocals, CallbackScript
<1> QED BY <1>1 DEF VisitedOnce
LEMMA VisitedOnceAtStart ==
  ASSUME IInv, AtMain, pc = "main", p' = update_list.first,
         UNCHANGED <<used, unique_id, visits>>
  PROVE  VisitedOnce'
<1>1. \A x \in used : ~ Passed(x)'
  BY PassedAtStart
<1>2. visits' = [o \in Object |-> 0]
  BY DEF AtMain
<1> QED BY <1>1, <1>2 DEF VisitedOnce

LEMMA UpdateStep ==
  ASSUME IInv, AtMain, UpdateWalk, Next, "ResetObject" \notin CallbackOps
  PROVE  UpdateWalk'
<1> SUFFICES ASSUME pc' \in {"update", "update.callback", "update2"}, m_superpause' = 0
             PROVE  /\ VisitedOnce'
                    /\ version' = 1 /\ pc' # "update2" =>
                         \A o \in used' : Passed(o)' => o \in moved'
                    /\ pc' = "update2" => p' = null /\ version' = 2 /\ used' \subseteq moved'
  BY DEF UpdateWalk
<1>i. PassInv /\ version \in {1, 2}
  BY DEF IInv, PassInv, PassType
<1>1. CASE ScriptStep
  <2>1. /\ UNCHANGED <<pc, p, version, moved, m_superpause>>
        /\ pc = "update.callback" /\ pc \in Callback
    BY <1>1, ScriptLocals DEF passLocals, Callback
  <2>2. p # null
    BY <2>1 DEF IInv, PassInv, PassLocalsInv
  <2>3. VisitedOnce'
    BY <1>1, <2>1, <2>2, VisitedOnceInCallback DEF UpdateWalk
  <2>4. \A x \in used' : Passed(x)' => x \in used /\ Passed(x)
    BY <1>1, <2>1, <2>2, PassedInCallback
  <2> QED BY <2>1, <2>3, <2>4 DEF UpdateWalk
<1>2. ASSUME NEW v \in {1, 2}, ObjFrame(v)
      PROVE  VisitedOnce' /\ pc' = "update" /\ \A o \in used' : ~ Passed(o)'
  <2>1. /\ p' = update_list.first /\ pc = "main" /\ pc' = "update"
        /\ UNCHANGED <<used, unique_id, visits>>
    BY <1>2 DEF ObjFrame, BeginPass, poolVars, objectVars
  <2> QED BY <2>1, VisitedOnceAtStart, PassedAtStart
<1>3. CASE updateSkip
  BY <1>3 DEF updateSkip, Paused, pauseVars, IInv, PassInv, PassType
<1>4. CASE updatePlain \/ updateReturn
  <2>1. /\ p # null /\ pc \in {"update", "update.callback"} /\ pc' = "update"
        /\ Updated /\ UNCHANGED <<used, unique_id, version, m_superpause>>
    BY <1>4 DEF updatePlain, updateReturn, poolVars, objectVars, pauseVars, IInv, PassInv,
                PassLocalsInv
  <2>2. /\ p' = update_links.next[p] /\ visits' = [visits EXCEPT ![p] = @ + 1]
        /\ moved' = IF version = 1 THEN moved \cup {p} ELSE moved
    BY <2>1 DEF Updated
  <2>3. VisitedOnce'
    BY <2>1, <2>2, VisitedOnceByStep DEF UpdateWalk
  <2>4. \A x \in used : Passed(x)' <=> Passed(x) \/ x = p
    BY <2>1, <2>2, PassedByStep
  <2> QED BY <2>1, <2>2, <2>3, <2>4 DEF UpdateWalk
<1>5. CASE updateCall
  BY <1>5 DEF updateCall, poolVars, objectVars, pauseVars, history, UpdateWalk,
              VisitedOnce, Passed
<1>6. CASE updateMove
  <2>1. /\ p = null /\ p' = null /\ version = 2 /\ version' = 2 /\ pc = "update"
        /\ moved' = {o \in used : ~ Paused(o)}
        /\ UNCHANGED <<used, unique_id, visits, m_superpause>>
    BY <1>6 DEF updateMove, poolVars, objectVars, pauseVars
  <2>2. moved' = used
    BY <2>1 DEF Paused
  <2>3. VisitedOnce'
    BY <2>1 DEF UpdateWalk, VisitedOnce, Passed
  <2> QED BY <2>1, <2>2, <2>3
<1> QED BY <1>1, <1>2, <1>3, <1>4, <1>5, <1>6, IntoUpdate

LEMMA BoundStep ==
  ASSUME IInv, AtMain, BoundWalk, Next, "ResetObject" \notin CallbackOps
  PROVE  BoundWalk'
<1> SUFFICES ASSUME pc' \in {"bound", "bound.callback"} PROVE VisitedOnce'
  BY DEF BoundWalk
<1>1. CASE ScriptStep
  <2>1. pc' = pc /\ pc = "bound.callback" /\ pc \in Callback
    BY <1>1, ScriptLocals DEF passLocals, Callback
  <2>2. p # null
    BY <2>1 DEF IInv, PassInv, PassLocalsInv
  <2> QED BY <1>1, <2>1, <2>2, VisitedOnceInCallback DEF BoundWalk
<1>2. CASE BoundCheckLegacy
  <2>1. /\ p' = update_list.first /\ pc = "main"
        /\ UNCHANGED <<used, unique_id, visits>>
    BY <1>2 DEF BoundCheckLegacy, BeginPass, poolVars, objectVars
  <2> QED BY <2>1, VisitedOnceAtStart
<1>3. ASSUME p' = update_links.next[p], Visited, p # null, UNCHANGED <<used, unique_id>>,
             pc \in {"bound", "bound.callback"}
      PROVE  VisitedOnce'
  BY <1>3, VisitedOnceByStep DEF Visited, BoundWalk
<1>4. CASE boundInside
  BY <1>3, <1>4 DEF boundInside, poolVars, objectVars
<1>5. CASE boundReturn
  BY <1>3, <1>5 DEF boundReturn, poolVars, objectVars, IInv, PassInv, PassLocalsInv
<1>6. CASE boundOutside
  <2>1. CASE "del" \in callbacks[p]
    BY <1>6, <2>1 DEF boundOutside, history, BoundWalk, VisitedOnce, Passed
  <2>2. CASE "del" \notin callbacks[p]
    BY <1>3, <1>6, <2>2 DEF boundOutside
  <2> QED BY <2>1, <2>2
<1> QED BY <1>1, <1>2, <1>4, <1>5, <1>6, IntoBound

LEMMA NextStep ==
  ASSUME IInv, AtMain, NextWalk, Next
  PROVE  NextWalk'
<1> SUFFICES ASSUME pc' = "next", NEW o \in Object
             PROVE  /\ visits'[o] = IF o \in used' /\ Passed(o)' /\ ~ Paused(o)' THEN 1 ELSE 0
                    /\ o \in used' /\ Passed(o)' /\ ~ Paused(o)' => status'[o] = "active"
  BY DEF NextWalk
<1>t. visits \in [Object -> Nat] /\ used \subseteq Object
  BY DEF IInv, PassInv, PassType, PoolInv, ObjectType
<1>1. CASE \E v \in {1, 2} : AfterFrame(v)
  <2>1. /\ p' = update_list.first /\ pc = "main"
        /\ UNCHANGED <<used, unique_id, visits>>
    BY <1>1 DEF AfterFrame, BeginPass, poolVars, objectVars
  <2>2. visits' = [x \in Object |-> 0] /\ \A x \in used : ~ Passed(x)'
    BY <2>1, PassedAtStart DEF AtMain
  <2> QED BY <2>1, <2>2
<1>2. ASSUME p # null, pc = "next", p' = update_links.next[p],
             UNCHANGED <<used, unique_id, status, ignore_super_pause, m_superpause>>,
             \/ Paused(p) /\ visits' = visits
             \/ ~ Paused(p) /\ status[p] = "active" /\ visits' = [visits EXCEPT ![p] = @ + 1]
      PROVE  /\ visits'[o] = IF o \in used' /\ Passed(o)' /\ ~ Paused(o)' THEN 1 ELSE 0
             /\ o \in used' /\ Passed(o)' /\ ~ Paused(o)' => status'[o] = "active"
  <2>1. /\ p \in used /\ ~ Passed(p)
        /\ \A x \in used : Passed(x)' <=> Passed(x) \/ x = p
    BY <1>2, PassedByStep
  <2>2. Paused(o)' = Paused(o)
    BY <1>2 DEF Paused
  <2> QED BY <1>t, <1>2, <2>1, <2>2 DEF NextWalk
<1>3. CASE nextSkip
  BY <1>2, <1>3 DEF nextSkip, poolVars, objectVars, pauseVars, history
<1>4. CASE nextTimer
  BY <1>2, <1>4 DEF nextTimer, poolVars, objectVars, pauseVars, Visited
<1>5. CASE nextFree
  <2>1. /\ p # null /\ pc = "next" /\ ~ Paused(p)
        /\ used' = used \ {p} /\ p' = NextAfterRemove(p)
        /\ status' = [status EXCEPT ![p] = "free"]
        /\ UNCHANGED <<unique_id, ignore_super_pause, m_superpause, visits>>
    BY <1>5 DEF nextFree, freeWithCallbacks, pauseVars, history
  <2>2. p' = update_links.next[p]
    <3>1. Sole(update_list, p) => update_links.next[p] = null
      BY <2>1 DEF Sole, IInv, PoolInv, UpdateListInv, WellFormed, PassInv, PassPointersInv
    <3> QED BY <2>1, <3>1 DEF NextAfterRemove
  <2>3. /\ p \in used /\ ~ Passed(p)
        /\ \A x \in used : Passed(x)' <=> Passed(x) \/ x = p
    BY <2>1, <2>2, PassedByStep
  <2>4. Paused(o)' = Paused(o)
    BY <2>1 DEF Paused
  <2>5. CASE o = p
    BY <2>1, <2>3, <2>5 DEF NextWalk
  <2>6. CASE o # p
    BY <2>1, <2>3, <2>4, <2>6 DEF NextWalk, IInv, PoolInv, ObjectType
  <2> QED BY <2>5, <2>6
<1> QED BY <1>1, <1>3, <1>4, <1>5, IntoNext
------------------------------------------------------------------------------
(* The walk over the tree. *)

\* The keys of the objects in use are in a total order.
LEMMA KeysInOrder ==
  ASSUME PoolInv, NEW x \in used, NEW y \in used
  PROVE  /\ Key(x) \in render_list
         /\ ~ Before(Key(x), Key(x))
         /\ Before(Key(x), Key(y)) => ~ Before(Key(y), Key(x))
         /\ x # y => Before(Key(x), Key(y)) \/ Before(Key(y), Key(x))
         /\ \A z \in used : Before(Key(x), Key(y)) /\ Before(Key(y), Key(z))
                              => Before(Key(x), Key(z))
<1>1. \A z \in used : layer[z] \in Nat /\ unique_id[z] \in Nat
  BY PoolAssumption DEF PoolInv, ObjectType
<1>2. x # y => unique_id[x] # unique_id[y]
  BY DEF PoolInv, RenderListInv
<1>3. \A a, b \in used : Before(Key(a), Key(b)) <=>
        layer[a] < layer[b] \/ (layer[a] = layer[b] /\ unique_id[a] < unique_id[b])
  BY DEF Before, Key
<1>4. Key(x) \in render_list
  BY DEF PoolInv, RenderListInv
<1>5. Before(Key(x), Key(y)) => ~ Before(Key(y), Key(x))
  BY <1>1, <1>3
<1>6. x # y => Before(Key(x), Key(y)) \/ Before(Key(y), Key(x))
  BY <1>1, <1>2, <1>3
<1>7. \A z \in used : Before(Key(x), Key(y)) /\ Before(Key(y), Key(z))
                              => Before(Key(x), Key(z))
  BY <1>1, <1>3
<1>8. ~ Before(Key(x), Key(x))
  BY <1>1, <1>3
<1> QED BY <1>4, <1>5, <1>6, <1>7, <1>8

LEMMA RenderedAtStart ==
  ASSUME IInv, p' = Least(render_list), UNCHANGED <<used, unique_id, layer>>
  PROVE  \A x \in used : ~ Rendered(x)'
<1> SUFFICES ASSUME NEW x \in used PROVE ~ Rendered(x)'
  OBVIOUS
<1>p. PoolInv
  BY DEF IInv
<1>1. Key(x) \in render_list
  BY <1>p, KeysInOrder
<1>2. /\ p' \in used /\ Key(p') \in render_list
      /\ \A y \in render_list : ~ Before(y, Key(p'))
  BY <1>p, <1>1, LeastKey
<1>3. p' # null
  BY <1>p, <1>2, PoolAssumption DEF PoolInv, ObjectType
<1> QED BY <1>1, <1>2, <1>3 DEF Rendered, Key

LEMMA RenderedByStep ==
  ASSUME IInv, p # null, "ResetObject" \notin CallbackOps,
         p' = FollowingInTree(p), UNCHANGED <<used, unique_id, layer>>
  PROVE  /\ p \in used /\ ~ Rendered(p)
         /\ \A x \in used : Rendered(x)' <=> Rendered(x) \/ x = p
<1>p. PoolInv /\ p \in used
  BY DEF IInv, PassInv, PassPointersInv, PassLocalsInv
<1>1. ~ Rendered(p)
  BY <1>p, KeysInOrder DEF Rendered
<1>2. ASSUME NEW x \in used PROVE Rendered(x)' <=> Rendered(x) \/ x = p
  <2> DEFINE S == {e \in render_list : Before(Key(p), e)}
  <2>1. Rendered(x) <=> Before(Key(x), Key(p))
    BY DEF Rendered
  <2>2. x = p \/ Before(Key(x), Key(p)) \/ Before(Key(p), Key(x))
    BY <1>p, KeysInOrder
  <2>3. Key(x) \in render_list /\ (Before(Key(p), Key(x)) => Key(x) \in S)
    BY <1>p, KeysInOrder
  <2>4. Before(Key(x), Key(p)) => ~ Before(Key(p), Key(x))
    BY <1>p, KeysInOrder
  <2>5. p' = Least(S)
    BY DEF FollowingInTree
  <2>6. CASE S = {}
    <3>1. p' = null
      BY <2>5, <2>6 DEF Least
    <3> QED BY <2>1, <2>2, <2>3, <2>6, <3>1 DEF Rendered
  <2>7. CASE S # {}
    <3>1. /\ Least(S) \in used /\ Key(Least(S)) \in S
          /\ \A y \in S : ~ Before(y, Key(Least(S)))
      BY <1>p, <2>7, LeastKey
    <3>2. p' \in used /\ Key(p') \in S /\ \A y \in S : ~ Before(y, Key(p'))
      BY <2>5, <3>1
    <3>3. p' # null
      BY <1>p, <3>2, PoolAssumption DEF PoolInv, ObjectType
    <3>4. Rendered(x)' <=> Before(Key(x), Key(p'))
      BY <3>3 DEF Rendered, Key
    <3>5. Before(Key(p), Key(p'))
      BY <3>2
    <3>6. Before(Key(x), Key(p)) => Before(Key(x), Key(p'))
      BY <1>p, <3>2, <3>5, KeysInOrder
    <3>7. Before(Key(p), Key(x)) => ~ Before(Key(x), Key(p'))
      BY <2>3, <3>2
    <3> QED BY <2>1, <2>2, <2>4, <3>4, <3>5, <3>6, <3>7
  <2> QED BY <2>6, <2>7
<1> QED BY <1>p, <1>1, <1>2

LEMMA RenderStep ==
  ASSUME IInv, AtMain, RenderWalk, Next, "ResetObject" \notin CallbackOps
  PROVE  RenderWalk'
<1> SUFFICES ASSUME pc' \in {"render", "render.callback"}
             PROVE  /\ present' \subseteq used'
                    /\ \A o \in Object \ used' : visits'[o] = 0
                    /\ \A o \in used' :
                         /\ visits'[o] \in {0, 1}
                         /\ Rendered(o)' /\ o \in present' => visits'[o] = 1
                         /\ ~ Rendered(o)' => visits'[o] = 0
  BY DEF RenderWalk
<1>t. /\ used \subseteq Object /\ used' \subseteq Object
      /\ visits \in [Object -> Nat] /\ IInv'
  BY StepIInv DEF IInv, PoolInv, ObjectType, PassInv, PassType
<1>1. CASE ScriptStep
  <2>1. /\ UNCHANGED <<pc, p, visits, present>>
        /\ pc = "render.callback" /\ pc \in Callback
    BY <1>1, ScriptLocals DEF passLocals, Callback
  <2>2. p \in used /\ p # null
    BY <2>1 DEF IInv, PassInv, PassPointersInv, PassFlagsInv, PassLocalsInv
  <2>3. /\ used \subseteq used'
        /\ \A x \in used : unique_id'[x] = unique_id[x] /\ layer'[x] = layer[x]
    BY <1>1, <2>1, CallbackScript
  <2>4. \A x \in used : Rendered(x)' = Rendered(x)
    BY <2>1, <2>2, <2>3 DEF Rendered, Key
  <2>5. \A x \in used' \ used : visits[x] = 0 /\ x \notin present
    BY <1>t, <2>1 DEF RenderWalk
  <2> QED BY <1>t, <2>1, <2>3, <2>4, <2>5 DEF RenderWalk
<1>2. CASE ObjRender
  <2>1. /\ p' = Least(render_list) /\ pc = "main" /\ present' = used
        /\ UNCHANGED <<used, unique_id, layer, visits>>
    BY <1>2 DEF ObjRender, BeginPass, poolVars, objectVars
  <2>2. visits' = [x \in Object |-> 0] /\ \A x \in used : ~ Rendered(x)'
    BY <2>1, RenderedAtStart DEF AtMain
  <2> QED BY <1>t, <2>1, <2>2
<1>3. CASE renderPlain \/ renderReturn
  <2>1. /\ p # null /\ p' = FollowingInTree(p) /\ visits' = [visits EXCEPT ![p] = @ + 1]
        /\ UNCHANGED <<used, unique_id, layer, present>>
        /\ pc \in {"render", "render.callback"}
    BY <1>3 DEF renderPlain, renderReturn, RenderedOne, Visited, history, poolVars, objectVars, IInv, PassInv,
                PassLocalsInv
  <2>2. /\ p \in used /\ ~ Rendered(p)
        /\ \A x \in used : Rendered(x)' <=> Rendered(x) \/ x = p
    BY <2>1, RenderedByStep
  <2> QED BY <1>t, <2>1, <2>2 DEF RenderWalk
<1>4. CASE renderCall
  BY <1>4 DEF renderCall, poolVars, objectVars, history, RenderWalk, Rendered, Key
<1> QED BY <1>1, <1>2, <1>3, <1>4, IntoRender

------------------------------------------------------------------------------
LEMMA InitWalk == Init => WalkInv
  BY DEF Init, WalkInv, AtMain, UpdateWalk, BoundWalk, NextWalk, RenderWalk

LEMMA StutterWalk ==
  ASSUME WalkInv, UNCHANGED vars
  PROVE  WalkInv'
<1> USE DEF vars, poolVars, objectVars, pauseVars, passVars, passLocals, history, WalkInv
<1>1. AtMain'
  BY DEF AtMain
<1>2. UpdateWalk'
  BY DEF UpdateWalk, VisitedOnce, Passed
<1>3. BoundWalk'
  BY DEF BoundWalk, VisitedOnce, Passed
<1>4. NextWalk'
  BY DEF NextWalk, Passed, Paused
<1>5. RenderWalk'
  BY DEF RenderWalk, Rendered, Key
<1> QED BY <1>1, <1>2, <1>3, <1>4, <1>5

LEMMA WalkInvHolds ==
  ASSUME "ResetObject" \notin CallbackOps
  PROVE  Spec => []WalkInv
<1>1. IInv /\ WalkInv /\ [Next]_vars => WalkInv'
  <2> SUFFICES ASSUME IInv, WalkInv, [Next]_vars PROVE WalkInv'
    OBVIOUS
  <2>1. CASE Next
    BY <2>1, MainStep, UpdateStep, BoundStep, NextStep, RenderStep DEF WalkInv
  <2>2. CASE UNCHANGED vars
    BY <2>2, StutterWalk
  <2> QED BY <2>1, <2>2
<1> QED BY <1>1, InitWalk, IInvHolds, PTL DEF Spec

\* ObjFrame, both versions, has called frame on every object exactly once and
\* moved it when it ends, and AfterFrame has freed every marked object and
\* ticked each other one exactly once, whatever the callbacks create, mark,
\* regroup or pause meanwhile, unless they call lstg.ResetObject, which moves
\* an object of the list under the loop (updateMovements, updateNext).
THEOREM FrameReachesAll ==
  ASSUME "ResetObject" \notin CallbackOps
  PROVE  Spec => []FrameInv
<1>1. IInv /\ WalkInv => FrameInv
  <2> SUFFICES ASSUME IInv, WalkInv PROVE FrameCoversAll /\ AfterFrameCoversAll
    BY DEF FrameInv
  <2>0. used \subseteq Object /\ version \in {1, 2}
    BY DEF IInv, PoolInv, ObjectType, PassInv, PassType
  <2>1. FrameCoversAll
    BY <2>0 DEF WalkInv, UpdateWalk, VisitedOnce, Passed, FrameCoversAll
  <2>2. AfterFrameCoversAll
    BY <2>0 DEF WalkInv, NextWalk, Passed, AfterFrameCoversAll
  <2> QED BY <2>1, <2>2
<1> QED BY <1>1, IInvHolds, WalkInvHolds, PTL

\* AfterFrame alone, which runs no script: it leaves no marked object behind
\* and ticks each other one once, whatever callbacks other passes run
\* (updateNextLegacy, updateNext).
THEOREM AfterFrameReachesAll == Spec => []AfterFrameCoversAll
<1> DEFINE J == AtMain /\ NextWalk
<1>1. Init => J
  BY InitWalk DEF WalkInv
<1>2. IInv /\ J /\ [Next]_vars => J'
  <2>1. IInv /\ J /\ Next => J'
    BY MainStep, NextStep
  <2>2. J /\ UNCHANGED vars => J'
    BY DEF vars, poolVars, objectVars, pauseVars, passVars, passLocals, history, AtMain,
           NextWalk, Passed, Paused
  <2> QED BY <2>1, <2>2
<1>3. IInv /\ J => AfterFrameCoversAll
  BY DEF IInv, PoolInv, ObjectType, NextWalk, Passed, AfterFrameCoversAll
<1> HIDE DEF J
<1> QED BY <1>1, <1>2, <1>3, IInvHolds, PTL DEF Spec

\* ObjRender has rendered every object that existed when it began exactly once
\* and none twice, although its callbacks insert into the tree it iterates;
\* BoundCheck has tested every object exactly once, those its callbacks created
\* included (render, detectOutOfWorldBoundLegacy).
THEOREM WalksReachAll ==
  ASSUME "ResetObject" \notin CallbackOps
  PROVE  Spec => []WalksInv
<1>1. IInv /\ WalkInv => WalksInv
  <2> SUFFICES ASSUME IInv, WalkInv PROVE RenderCoversAll /\ BoundCoversAll
    BY DEF WalksInv
  <2>0. used \subseteq Object
    BY DEF IInv, PoolInv, ObjectType
  <2>1. RenderCoversAll
    BY <2>0 DEF WalkInv, RenderWalk, Rendered, RenderCoversAll
  <2>2. BoundCoversAll
    BY <2>0 DEF WalkInv, BoundWalk, VisitedOnce, Passed, BoundCoversAll
  <2> QED BY <2>1, <2>2
<1> QED BY <1>1, IInvHolds, WalkInvHolds, PTL
------------------------------------------------------------------------------
(***************************************************************************)
(* The walk of CollisionCheck over two detect lists.  r ranks the objects  *)
(* of both lists in the order of the links.  The outer pointer p and the   *)
(* prefetched ptrA and ptrB divide the pairs into those that have been     *)
(* tested and those that have not; ptrA may be null although an object was *)
(* appended behind p, but nothing that was there at the beginning is left  *)
(* out.                                                                    *)
(***************************************************************************)
OuterGroup == InGroup(groups[1])
InnerGroup == InGroup(groups[2])

DetectOrder(r, b) ==
  /\ Ordered(detect_lists[groups[1]], detect_links, OuterGroup, r, b)
  /\ Ordered(detect_lists[groups[2]], detect_links, InnerGroup, r, b)

InnerDone(r, y) == ptrB = null \/ r[y] < r[ptrB]
PairDone(r, x, y) == p = null \/ r[x] < r[p] \/ (x = p /\ InnerDone(r, y))

PointersInLists(r) ==
  /\ p # null => p \in OuterGroup
  /\ ptrA # null => ptrA \in OuterGroup /\ p # null /\ r[p] < r[ptrA]
  /\ ptrB # null => ptrB \in InnerGroup /\ p # null
  /\ \A x \in OuterGroup \cap present :
       p # null /\ r[p] < r[x] => ptrA # null /\ r[ptrA] <= r[x]

PairsTested(r) ==
  /\ \A x \in OuterGroup \cap present, y \in InnerGroup \cap present :
       PairDone(r, x, y) => <<x, y>> \in tested
  /\ \A x \in OuterGroup, y \in InnerGroup : <<x, y>> \in tested => PairDone(r, x, y)

DetectWalk ==
  pc \in {"detect", "detect.callback"} /\ ~ regrouped =>
    /\ present \subseteq used /\ tested \subseteq used \X used
    /\ \E r \in [Object -> Nat], b \in Nat :
         DetectOrder(r, b) /\ PointersInLists(r) /\ PairsTested(r)

LEMMA IntoDetect ==
  ASSUME Next, pc' \in {"detect", "detect.callback"}
  PROVE  \/ ScriptStep
         \/ \E g1, g2 \in Group : CollisionCheckLegacy(g1, g2)
         \/ detectMiss \/ detectHit \/ detectOuter \/ detectReturn
<1>1. ASSUME StartPass PROVE \E g1, g2 \in Group : CollisionCheckLegacy(g1, g2)
  BY <1>1 DEF StartPass, BoundCheckLegacy, AfterFrame, ObjFrame, ResetPool, BoundCheck,
              ObjRender, CollisionCheck, BeginPass
<1>2. ASSUME LoopStep PROVE detectMiss \/ detectHit \/ detectOuter
  BY <1>2 DEF LoopStep, updateEnd, renderEnd, updateSkip, updatePlain, updateCall,
              updateMove, boundInside, boundOutside, boundEnd, bound2Call, bound2End,
              renderPlain, renderCall, detectEnd, detect2Call, detect2End,
              nextSkip, nextFree, nextTimer, nextEnd, resetFree, resetEnd, EndPass
<1>3. ASSUME CallbackReturn PROVE detectReturn
  BY <1>3 DEF CallbackReturn, boundReturn, updateReturn, bound2Return, renderReturn,
              detect2Return
<1> QED BY <1>1, <1>2, <1>3 DEF Next

\* The two lists of a check at all times.
LEMMA DetectLists ==
  ASSUME IInv, NEW g \in Group
  PROVE  /\ WellFormed(detect_lists[g], detect_links, InGroup(g))
         /\ InGroup(g) \in SUBSET Object /\ InGroup(g) \subseteq used
         /\ detect_lists[g] \in HeadType(Object) /\ detect_links \in LinkType(Object)
         /\ \E r \in [Object -> Nat], b \in Nat :
              Ordered(detect_lists[g], detect_links, InGroup(g), r, b)
         /\ \A h \in Group : h # g => InGroup(g) \cap InGroup(h) = {}
<1>1. Family(detect_lists, detect_links, Grouped, Object, Group) /\ used \subseteq Object
  BY DEF IInv, PoolInv, ObjectType
<1>2. Chained(detect_lists[g], detect_links, InGroup(g), Object)
  BY <1>1 DEF Family, Grouped
<1>3. WellFormed(detect_lists[g], detect_links, InGroup(g))
  BY <1>2 DEF Chained
<1>4. \E r \in [Object -> Nat], b \in Nat :
              Ordered(detect_lists[g], detect_links, InGroup(g), r, b)
  BY <1>2 DEF Chained
<1>5. detect_lists[g] \in HeadType(Object) /\ detect_links \in LinkType(Object)
  BY <1>1 DEF Family
<1> QED BY <1>1, <1>3, <1>4, <1>5 DEF InGroup

\* Two lists can be ranked together, be they one or disjoint.
LEMMA RankedTogether ==
  ASSUME IInv, NEW g \in Group, NEW h \in Group
  PROVE  \E r \in [Object -> Nat], b \in Nat :
           /\ Ordered(detect_lists[g], detect_links, InGroup(g), r, b)
           /\ Ordered(detect_lists[h], detect_links, InGroup(h), r, b)
<1>1. PICK r1 \in [Object -> Nat], b1 \in Nat :
        Ordered(detect_lists[g], detect_links, InGroup(g), r1, b1)
  BY DetectLists
<1>2. PICK r2 \in [Object -> Nat], b2 \in Nat :
        Ordered(detect_lists[h], detect_links, InGroup(h), r2, b2)
  BY DetectLists
<1>3. CASE g = h
  BY <1>1, <1>3
<1>4. CASE g # h
  <2> DEFINE r == [o \in Object |-> IF o \in InGroup(g) THEN r1[o] ELSE r2[o]]
             b == IF b1 <= b2 THEN b2 ELSE b1
  <2>1. r \in [Object -> Nat] /\ b \in Nat /\ b1 <= b /\ b2 <= b
    OBVIOUS
  <2>2. \A x \in InGroup(g) : r[x] = r1[x]
    BY DetectLists
  <2>3. \A x \in InGroup(h) : r[x] = r2[x]
    BY <1>4, DetectLists
  <2> HIDE DEF r, b
  <2>4. SameLinks(detect_links, detect_links, InGroup(g))
        /\ SameLinks(detect_links, detect_links, InGroup(h))
    BY DEF SameLinks
  <2>5. Ordered(detect_lists[g], detect_links, InGroup(g), r, b)
    BY <1>1, <2>1, <2>2, <2>4, DetectLists, OrderedFrame
  <2>6. Ordered(detect_lists[h], detect_links, InGroup(h), r, b)
    BY <1>2, <2>1, <2>3, <2>4, DetectLists, OrderedFrame
  <2> QED BY <2>1, <2>5, <2>6
<1> QED BY <1>3, <1>4
\* Allocation appends to the list of the default group, which keeps the ranks of
\* the others and may be one of the two under the walk.
LEMMA AllocateOrder ==
  ASSUME IInv, NEW o \in Object, NEW class, allocateWithCallbacks(o, class),
         NEW g \in Group, NEW r \in [Object -> Nat], NEW b \in Nat,
         Ordered(detect_lists[g], detect_links, InGroup(g), r, b),
         Ordered(detect_lists[DefaultGroup], detect_links, InGroup(DefaultGroup), r, b)
  PROVE  /\ InGroup(g)' = IF g = DefaultGroup THEN InGroup(g) \cup {o} ELSE InGroup(g)
         /\ Ordered(detect_lists[g], detect_links, InGroup(g), [r EXCEPT ![o] = b], b + 1)'
<1> DEFINE q == [r EXCEPT ![o] = b]
<1>1. /\ o \notin used /\ used' = used \cup {o} /\ group' = [group EXCEPT ![o] = DefaultGroup]
      /\ detect_links' = AddLinks(detect_lists[DefaultGroup], detect_links, o)
      /\ detect_lists' = [detect_lists EXCEPT ![DefaultGroup] =
                            AddHead(detect_lists[DefaultGroup], o)]
  BY DEF allocateWithCallbacks
<1>2. /\ group \in [Object -> Group] /\ used \subseteq Object
      /\ detect_lists \in [Group -> HeadType(Object)] /\ DefaultGroup \in Group
      /\ Detached(detect_links, o)
  <2>1. Family(detect_lists, detect_links, Grouped, Object, Group)
    BY DEF IInv, PoolInv
  <2>2. \A h \in Group : o \notin Grouped[h]
    BY <1>1 DEF Grouped, InGroup
  <2> QED BY <2>1, <2>2, PoolAssumption DEF Family, IInv, PoolInv, ObjectType
<1>3. InGroup(g)' = IF g = DefaultGroup THEN InGroup(g) \cup {o} ELSE InGroup(g)
  BY <1>1, <1>2 DEF InGroup
<1>4. o \notin InGroup(DefaultGroup) /\ o \notin InGroup(g)
  BY <1>1 DEF InGroup
<1>5. q \in [Object -> Nat] /\ b + 1 \in Nat /\ b <= b + 1
      /\ \A x \in InGroup(g) : q[x] = r[x]
  BY <1>4, DetectLists
<1>6. /\ Ordered(AddHead(detect_lists[DefaultGroup], o),
                 AddLinks(detect_lists[DefaultGroup], detect_links, o),
                 InGroup(DefaultGroup) \cup {o}, q, b + 1)
      /\ SameLinks(detect_links, AddLinks(detect_lists[DefaultGroup], detect_links, o),
                   Object \ (InGroup(DefaultGroup) \cup {o}))
  BY <1>2, <1>4, PoolAssumption, DetectLists, AddOrdered
<1>7. CASE g = DefaultGroup
  BY <1>1, <1>2, <1>3, <1>6, <1>7
<1>8. CASE g # DefaultGroup
  <2>1. InGroup(g) \subseteq Object \ (InGroup(DefaultGroup) \cup {o})
    BY <1>2, <1>4, <1>8, DetectLists
  <2>2. SameLinks(detect_links, detect_links', InGroup(g))
    BY <1>1, <1>6, <2>1 DEF SameLinks
  <2>3. Ordered(detect_lists[g], detect_links', InGroup(g), q, b + 1)
    BY <1>5, <2>2, DetectLists, OrderedFrame
  <2>4. detect_lists'[g] = detect_lists[g]
    BY <1>1, <1>2, <1>8
  <2> QED BY <1>3, <1>8, <2>3, <2>4
<1> QED BY <1>3, <1>7, <1>8

\* The default list can be ranked together with the two under the walk.
LEMMA RankedWithDefault ==
  ASSUME IInv, groups \in Group \X Group, NEW r \in [Object -> Nat], NEW b \in Nat,
         DetectOrder(r, b)
  PROVE  \E q \in [Object -> Nat], c \in Nat :
           /\ \A x \in OuterGroup \cup InnerGroup : q[x] = r[x]
           /\ DetectOrder(q, c)
           /\ Ordered(detect_lists[DefaultGroup], detect_links, InGroup(DefaultGroup), q, c)
<1>g. groups[1] \in Group /\ groups[2] \in Group /\ DefaultGroup \in Group
  BY PoolAssumption
<1>1. CASE DefaultGroup \in {groups[1], groups[2]}
  BY <1>1 DEF DetectOrder, OuterGroup, InnerGroup
<1>2. CASE DefaultGroup \notin {groups[1], groups[2]}
  <2>1. PICK r2 \in [Object -> Nat], b2 \in Nat :
          Ordered(detect_lists[DefaultGroup], detect_links, InGroup(DefaultGroup), r2, b2)
    BY <1>g, DetectLists
  <2> DEFINE q == [o \in Object |-> IF o \in InGroup(DefaultGroup) THEN r2[o] ELSE r[o]]
             c == IF b <= b2 THEN b2 ELSE b
  <2>2. q \in [Object -> Nat] /\ c \in Nat /\ b <= c /\ b2 <= c
    OBVIOUS
  <2>3. \A x \in OuterGroup \cup InnerGroup : q[x] = r[x]
    BY <1>g, <1>2, DetectLists DEF OuterGroup, InnerGroup
  <2>4. \A x \in InGroup(DefaultGroup) : q[x] = r2[x]
    BY <1>g, DetectLists
  <2>5. \A M : SameLinks(detect_links, detect_links, M)
    BY DEF SameLinks
  <2> HIDE DEF q, c
  <2>6. Ordered(detect_lists[DefaultGroup], detect_links, InGroup(DefaultGroup), q, c)
    BY <1>g, <2>1, <2>2, <2>4, <2>5, DetectLists, OrderedFrame
  <2>7. Ordered(detect_lists[groups[1]], detect_links, OuterGroup, q, c)
    BY <1>g, <2>2, <2>3, <2>5, DetectLists, OrderedFrame DEF DetectOrder, OuterGroup
  <2>8. Ordered(detect_lists[groups[2]], detect_links, InnerGroup, q, c)
    BY <1>g, <2>2, <2>3, <2>5, DetectLists, OrderedFrame DEF DetectOrder, InnerGroup
  <2> QED BY <2>2, <2>3, <2>6, <2>7, <2>8 DEF DetectOrder
<1> QED BY <1>1, <1>2

\* A callback that creates an object: it is behind both pointers of the walk or
\* in neither list, and was not there when the check began.
LEMMA DetectAllocate ==
  ASSUME IInv, DetectWalk, pc = "detect.callback", ~ regrouped,
         NEW o \in Object, NEW class, allocateWithCallbacks(o, class)
  PROVE  DetectWalk'
<1>1. PICK r0 \in [Object -> Nat], b0 \in Nat :
        DetectOrder(r0, b0) /\ PointersInLists(r0) /\ PairsTested(r0)
  BY DEF DetectWalk
<1>g. /\ groups \in Group \X Group /\ groups[1] \in Group /\ groups[2] \in Group
      /\ DefaultGroup \in Group /\ present \subseteq used /\ tested \subseteq used \X used
  BY PoolAssumption DEF IInv, PassInv, PassType, DetectWalk
<1>2. PICK r \in [Object -> Nat], b \in Nat :
        /\ \A x \in OuterGroup \cup InnerGroup : r[x] = r0[x]
        /\ DetectOrder(r, b)
        /\ Ordered(detect_lists[DefaultGroup], detect_links, InGroup(DefaultGroup), r, b)
  BY <1>1, <1>g, RankedWithDefault
<1> DEFINE q == [r EXCEPT ![o] = b]
<1>u. /\ o \notin used /\ used' = used \cup {o}
      /\ UNCHANGED <<pc, p, ptrA, ptrB, groups, present, tested, regrouped>>
  BY DEF allocateWithCallbacks, passVars, passLocals, history
<1>3. /\ OuterGroup' = OuterGroup \/ OuterGroup' = OuterGroup \cup {o}
      /\ InnerGroup' = InnerGroup \/ InnerGroup' = InnerGroup \cup {o}
      /\ Ordered(detect_lists[groups[1]], detect_links, OuterGroup, q, b + 1)'
      /\ Ordered(detect_lists[groups[2]], detect_links, InnerGroup, q, b + 1)'
  <2>1. /\ InGroup(groups[1])' = OuterGroup \/ InGroup(groups[1])' = OuterGroup \cup {o}
        /\ Ordered(detect_lists[groups[1]], detect_links, InGroup(groups[1]), q, b + 1)'
    BY <1>2, <1>g, <1>u, AllocateOrder DEF DetectOrder, OuterGroup
  <2>2. /\ InGroup(groups[2])' = InnerGroup \/ InGroup(groups[2])' = InnerGroup \cup {o}
        /\ Ordered(detect_lists[groups[2]], detect_links, InGroup(groups[2]), q, b + 1)'
    BY <1>2, <1>g, <1>u, AllocateOrder DEF DetectOrder, InnerGroup
  <2> QED BY <2>1, <2>2, <1>u DEF OuterGroup, InnerGroup
<1>4. /\ OuterGroup \subseteq used /\ InnerGroup \subseteq used
      /\ \A x \in OuterGroup \cup InnerGroup : q[x] = r0[x] /\ r0[x] \in Nat
      /\ q \in [Object -> Nat] /\ b + 1 \in Nat
  <2>1. /\ OuterGroup \subseteq used /\ InnerGroup \subseteq used
        /\ OuterGroup \subseteq Object /\ InnerGroup \subseteq Object
    BY <1>g, DetectLists DEF OuterGroup, InnerGroup
  <2> QED BY <1>2, <1>u, <2>1
<1> HIDE DEF q
<1>5. PointersInLists(q)'
  <2>1. p # null => p \in OuterGroup
    BY <1>1 DEF PointersInLists
  <2>2. ptrA # null => ptrA \in OuterGroup /\ p # null /\ q[p] < q[ptrA]
    BY <1>1, <1>4, <2>1 DEF PointersInLists
  <2>3. ptrB # null => ptrB \in InnerGroup /\ p # null
    BY <1>1 DEF PointersInLists
  <2>4. \A x \in OuterGroup \cap present :
          p # null /\ q[p] < q[x] => ptrA # null /\ q[ptrA] <= q[x]
    BY <1>1, <1>4, <2>1, <2>2 DEF PointersInLists
  <2>5. OuterGroup' \cap present = OuterGroup \cap present
    BY <1>3, <1>g, <1>u
  <2> QED BY <1>3, <1>u, <2>1, <2>2, <2>3, <2>4, <2>5 DEF PointersInLists
<1>6. PairsTested(q)'
  <2>1. \A x \in OuterGroup, y \in InnerGroup : PairDone(r0, x, y) <=> PairDone(q, x, y)
    BY <1>1, <1>4 DEF PairDone, InnerDone, PointersInLists
  <2>2. \A x, y : PairDone(q, x, y)' <=> PairDone(q, x, y)
    BY <1>u DEF PairDone, InnerDone
  <2>3. \A x \in OuterGroup', y \in InnerGroup' :
          \/ x \in present /\ y \in present
          \/ <<x, y>> \in tested
          => x \in OuterGroup /\ y \in InnerGroup
    BY <1>3, <1>g, <1>u
  <2>4. \A x \in OuterGroup' \cap present', y \in InnerGroup' \cap present' :
          PairDone(q, x, y)' => <<x, y>> \in tested'
    BY <1>1, <1>u, <2>1, <2>2, <2>3 DEF PairsTested
  <2>5. \A x \in OuterGroup', y \in InnerGroup' :
          <<x, y>> \in tested' => PairDone(q, x, y)'
    BY <1>1, <1>u, <2>1, <2>2, <2>3 DEF PairsTested
  <2> QED BY <2>4, <2>5 DEF PairsTested
<1>7. DetectOrder(q, b + 1)'
  BY <1>3 DEF DetectOrder
<1>8. present' \subseteq used' /\ tested' \subseteq used' \X used'
  BY <1>g, <1>u
<1>9. \E r1 \in [Object -> Nat], b1 \in Nat :
        (DetectOrder(r1, b1) /\ PointersInLists(r1) /\ PairsTested(r1))'
  BY <1>4, <1>5, <1>6, <1>7
<1> QED BY <1>8, <1>9 DEF DetectWalk

\* What the order of a detect list says of a pointer that moves along it.
LEMMA AlongDetectList ==
  ASSUME IInv, NEW g \in Group, NEW r \in [Object -> Nat], NEW b,
         Ordered(detect_lists[g], detect_links, InGroup(g), r, b)
  PROVE  /\ detect_lists[g].first = null <=> InGroup(g) = {}
         /\ detect_lists[g].first # null =>
              /\ detect_lists[g].first \in InGroup(g)
              /\ \A x \in InGroup(g) : ~ r[x] < r[detect_lists[g].first]
         /\ \A o \in InGroup(g), x \in InGroup(g) :
              /\ r[o] \in Nat
              /\ detect_links.next[o] = null => r[x] <= r[o]
              /\ detect_links.next[o] # null =>
                   /\ detect_links.next[o] \in InGroup(g)
                   /\ r[o] < r[detect_links.next[o]]
                   /\ r[x] < r[detect_links.next[o]] <=> r[x] <= r[o]
              /\ r[x] = r[o] => x = o
<1> DEFINE h == detect_lists[g]
           M == InGroup(g)
<1>1. /\ WellFormed(h, detect_links, M) /\ M \in SUBSET Object
      /\ h \in HeadType(Object) /\ detect_links \in LinkType(Object)
  BY DetectLists
<1>2. Ordered(h, detect_links, M, r, b)
  OBVIOUS
<1> HIDE DEF h, M
<1>3. h.first = null <=> M = {}
  BY <1>1 DEF WellFormed
<1>4. h.first # null => h.first \in M
  BY <1>1 DEF WellFormed
<1>5. ASSUME NEW o \in M, NEW x \in M
      PROVE  /\ h.first \in M /\ r[h.first] <= r[x]
             /\ detect_links.next[o] = null => r[x] <= r[o]
             /\ detect_links.next[o] # null =>
                  /\ detect_links.next[o] \in M
                  /\ r[o] < r[detect_links.next[o]]
                  /\ r[x] < r[detect_links.next[o]] <=> r[x] <= r[o]
             /\ r[x] = r[o] => x = o
  BY <1>1, <1>2, AlongList
<1>6. \A x \in M : r[x] \in Nat
  BY <1>1
<1>7. \A x \in M : h.first \in M /\ ~ r[x] < r[h.first]
  BY <1>5, <1>6
<1> QED BY <1>3, <1>4, <1>5, <1>6, <1>7 DEF h, M

\* The outer pointer arrives at an object, or at the end of its list, and the
\* inner one at the start of its own: the pairs of the objects before it are done.
LEMMA OuterArrives ==
  ASSUME IInv, groups' \in Group \X Group, NEW r \in [Object -> Nat], NEW b,
         UNCHANGED <<used, group, detect_lists, detect_links>>,
         DetectOrder(r, b)', NEW first, OuterStep(first),
         first = null \/ first \in OuterGroup',
         \A x \in OuterGroup' \cap present', y \in InnerGroup' \cap present' :
           first = null \/ r[x] < r[first] => <<x, y>> \in tested',
         \A x \in OuterGroup', y \in InnerGroup' :
           <<x, y>> \in tested' => first = null \/ r[x] < r[first]
  PROVE  PointersInLists(r)' /\ PairsTested(r)'
<1>g. groups'[1] \in Group /\ groups'[2] \in Group /\ null \notin Object
  BY PoolAssumption
<1>i. /\ OuterGroup' = InGroup(groups'[1]) /\ InnerGroup' = InGroup(groups'[2])
      /\ InGroup(groups'[1]) \subseteq Object
  BY <1>g, DetectLists DEF OuterGroup, InnerGroup, InGroup
<1>o. /\ Ordered(detect_lists[groups'[1]], detect_links, InGroup(groups'[1]), r, b)
      /\ Ordered(detect_lists[groups'[2]], detect_links, InGroup(groups'[2]), r, b)
  BY <1>i DEF DetectOrder
<1>1. CASE first = null
  <2>1. p' = null /\ ptrA' = null /\ ptrB' = null
    BY <1>1 DEF OuterStep
  <2> QED BY <1>1, <2>1 DEF PointersInLists, PairsTested, PairDone
<1>2. CASE first # null
  <2>1. /\ p' = first /\ ptrA' = detect_links.next[first] /\ first \in InGroup(groups'[1])
        /\ ptrB' = detect_lists[groups'[2]].first
    BY <1>2, <1>i DEF OuterStep
  <2>2. /\ ptrA' = null => \A x \in InGroup(groups'[1]) : r[x] <= r[first]
        /\ ptrA' # null =>
             /\ ptrA' \in InGroup(groups'[1]) /\ r[first] < r[ptrA']
             /\ \A x \in InGroup(groups'[1]) : r[x] < r[ptrA'] <=> r[x] <= r[first]
        /\ \A x \in InGroup(groups'[1]) : r[x] \in Nat
    BY <1>g, <1>o, <2>1, AlongDetectList
  <2>3. /\ ptrB' = null => InGroup(groups'[2]) = {}
        /\ ptrB' # null => /\ ptrB' \in InGroup(groups'[2])
                           /\ \A y \in InGroup(groups'[2]) : ~ r[y] < r[ptrB']
    BY <1>g, <1>o, <2>1, AlongDetectList
  <2>4. PointersInLists(r)'
    <3>1. \A x \in OuterGroup' \cap present' :
            r[p'] < r[x] => ptrA' # null /\ r[ptrA'] <= r[x]
      BY <1>i, <2>1, <2>2
    <3> QED BY <1>i, <1>2, <2>1, <2>2, <2>3, <3>1 DEF PointersInLists
  <2>5. \A y \in InnerGroup' : ~ InnerDone(r, y)'
    BY <1>i, <2>3 DEF InnerDone
  <2>6. \A x \in OuterGroup', y \in InnerGroup' : PairDone(r, x, y)' <=> r[x] < r[first]
    BY <1>2, <2>1, <2>5 DEF PairDone
  <2>7. PairsTested(r)'
    BY <1>2, <2>6 DEF PairsTested
  <2> QED BY <2>4, <2>7
<1> QED BY <1>1, <1>2

LEMMA DetectStart ==
  ASSUME IInv, AtMain, NEW g1 \in Group, NEW g2 \in Group, CollisionCheckLegacy(g1, g2)
  PROVE  DetectWalk'
<1>1. /\ pc = "main" /\ present' = used /\ tested' = tested /\ groups' = <<g1, g2>>
      /\ OuterStep(detect_lists[g1].first)
      /\ UNCHANGED <<used, group, detect_lists, detect_links>>
  BY DEF CollisionCheckLegacy, BeginPass, poolVars, objectVars, listVars
<1>2. tested' = {}
  BY <1>1 DEF AtMain
<1>3. PICK r \in [Object -> Nat], b \in Nat :
        /\ Ordered(detect_lists[g1], detect_links, InGroup(g1), r, b)
        /\ Ordered(detect_lists[g2], detect_links, InGroup(g2), r, b)
  BY RankedTogether
<1>4. OuterGroup' = InGroup(g1) /\ InnerGroup' = InGroup(g2)
  BY <1>1 DEF OuterGroup, InnerGroup, InGroup
<1>5. DetectOrder(r, b)'
  BY <1>1, <1>3, <1>4 DEF DetectOrder
<1> DEFINE first == detect_lists[g1].first
<1>6. /\ first = null => OuterGroup' = {}
      /\ first # null => first \in OuterGroup' /\ \A x \in OuterGroup' : ~ r[x] < r[first]
  BY <1>3, <1>4, AlongDetectList
<1>7. \A x \in OuterGroup' \cap present', y \in InnerGroup' \cap present' :
           first = null \/ r[x] < r[first] => <<x, y>> \in tested'
  BY <1>6
<1>8. \A x \in OuterGroup', y \in InnerGroup' :
           <<x, y>> \in tested' => first = null \/ r[x] < r[first]
  BY <1>2
<1>9. groups' \in Group \X Group /\ (first = null \/ first \in OuterGroup')
  BY <1>1, <1>6
<1> HIDE DEF first
<1>10. OuterStep(first)
  BY <1>1 DEF first
<1>11. PointersInLists(r)' /\ PairsTested(r)'
  BY <1>1, <1>5, <1>7, <1>8, <1>9, <1>10, OuterArrives
<1> QED BY <1>1, <1>2, <1>5, <1>11 DEF DetectWalk

\* The inner pointer moves on: one more pair is done, and it is tested.
LEMMA DetectPair ==
  ASSUME IInv, DetectWalk, pc = "detect", ~ regrouped, ptrB # null, NextPair, UNCHANGED poolVars
  PROVE  DetectWalk'
<1>1. PICK r \in [Object -> Nat], b \in Nat :
        DetectOrder(r, b) /\ PointersInLists(r) /\ PairsTested(r)
  BY DEF DetectWalk
<1>2. /\ ptrB' = detect_links.next[ptrB] /\ tested' = tested \cup {<<p, ptrB>>}
      /\ UNCHANGED <<used, group, detect_lists, detect_links, p, ptrA, groups, present>>
      /\ OuterGroup' = OuterGroup /\ InnerGroup' = InnerGroup
  BY DEF NextPair, poolVars, objectVars, listVars, OuterGroup, InnerGroup, InGroup
<1>3. p # null /\ p \in OuterGroup /\ ptrB \in InnerGroup
  BY <1>1 DEF PointersInLists
<1>4. groups[1] \in Group /\ groups[2] \in Group
  BY DEF IInv, PassInv, PassType
<1>5. /\ ptrB' # null => ptrB' \in InnerGroup
      /\ \A y \in InnerGroup : InnerDone(r, y)' <=> InnerDone(r, y) \/ y = ptrB
  <2>1. Ordered(detect_lists[groups[2]], detect_links, InnerGroup, r, b)
    BY <1>1 DEF DetectOrder
  <2>2. ASSUME NEW y \in InnerGroup
        PROVE  /\ r[y] \in Nat /\ r[ptrB] \in Nat
               /\ ptrB' = null => r[y] <= r[ptrB]
               /\ ptrB' # null => ptrB' \in InnerGroup /\ (r[y] < r[ptrB'] <=> r[y] <= r[ptrB])
               /\ r[y] = r[ptrB] => y = ptrB
    BY <1>2, <1>3, <1>4, <2>1, AlongDetectList DEF InnerGroup
  <2> QED BY <1>3, <2>2 DEF InnerDone
<1>6. \A x \in OuterGroup, y \in InnerGroup :
        PairDone(r, x, y)' <=> PairDone(r, x, y) \/ (x = p /\ y = ptrB)
  BY <1>2, <1>3, <1>5 DEF PairDone
<1>7. PairsTested(r)'
  BY <1>1, <1>2, <1>6 DEF PairsTested
<1>8. PointersInLists(r)'
  BY <1>1, <1>2, <1>5 DEF PointersInLists
<1>9. DetectOrder(r, b)'
  BY <1>1, <1>2 DEF DetectOrder
<1>10. present' \subseteq used' /\ tested' \subseteq used' \X used'
  BY <1>2, <1>3, <1>4, DetectLists DEF DetectWalk, OuterGroup, InnerGroup
<1> QED BY <1>7, <1>8, <1>9, <1>10 DEF DetectWalk

LEMMA DetectOuter ==
  ASSUME IInv, DetectWalk, ~ regrouped, detectOuter
  PROVE  DetectWalk'
<1>1. PICK r \in [Object -> Nat], b \in Nat :
        DetectOrder(r, b) /\ PointersInLists(r) /\ PairsTested(r)
  BY DEF DetectWalk, detectOuter
<1>2. /\ p # null /\ ptrB = null /\ OuterStep(ptrA)
      /\ UNCHANGED <<used, group, detect_lists, detect_links, groups, present, tested, regrouped>>
      /\ OuterGroup' = OuterGroup /\ InnerGroup' = InnerGroup
  BY DEF detectOuter, poolVars, objectVars, listVars, history, OuterGroup, InnerGroup, InGroup
<1>3. DetectOrder(r, b)'
  BY <1>1, <1>2 DEF DetectOrder
<1>4. /\ groups \in Group \X Group /\ groups[1] \in Group
      /\ \A x \in OuterGroup : r[x] \in Nat
  BY DetectLists DEF IInv, PassInv, PassType, OuterGroup
<1>5. /\ p \in OuterGroup
      /\ ptrA # null => ptrA \in OuterGroup /\ r[p] < r[ptrA]
      /\ \A x \in OuterGroup \cap present : r[p] < r[x] => ptrA # null /\ r[ptrA] <= r[x]
  BY <1>1, <1>2 DEF PointersInLists
<1>6. \A x, y \in OuterGroup : r[x] = r[y] => x = y
  BY <1>1 DEF DetectOrder, Ordered
<1>7. ASSUME NEW x \in OuterGroup \cap present, NEW y \in InnerGroup \cap present,
             ptrA = null \/ r[x] < r[ptrA]
      PROVE  <<x, y>> \in tested
  <2>1. r[x] < r[p] \/ x = p
    BY <1>4, <1>5, <1>6, <1>7
  <2>2. PairDone(r, x, y)
    BY <1>2, <2>1 DEF PairDone, InnerDone
  <2> QED BY <1>1, <2>2 DEF PairsTested
<1>8. ASSUME NEW x \in OuterGroup, NEW y \in InnerGroup, <<x, y>> \in tested, ptrA # null
      PROVE  r[x] < r[ptrA]
  <2>1. PairDone(r, x, y)
    BY <1>1, <1>8 DEF PairsTested
  <2>2. r[x] <= r[p]
    BY <1>2, <1>4, <1>5, <2>1 DEF PairDone
  <2> QED BY <1>4, <1>5, <1>8, <2>2
<1>9. PointersInLists(r)' /\ PairsTested(r)'
  BY <1>2, <1>3, <1>4, <1>5, <1>7, <1>8, OuterArrives
<1> QED BY <1>2, <1>3, <1>9 DEF DetectWalk, detectOuter

\* A step that touches neither the lists nor what the walk remembers.
LEMMA DetectFrame ==
  ASSUME DetectWalk, pc \in {"detect", "detect.callback"},
         UNCHANGED <<used, group, detect_lists, detect_links, p, ptrA, ptrB, groups,
                     present, tested, regrouped>>
  PROVE  DetectWalk'
  BY DEF DetectWalk, DetectOrder, PointersInLists, PairsTested, PairDone, InnerDone,
         OuterGroup, InnerGroup, InGroup

LEMMA DetectStep ==
  ASSUME IInv, AtMain, DetectWalk, Next, "ResetObject" \notin CallbackOps
  PROVE  DetectWalk'
<1> SUFFICES ASSUME pc' \in {"detect", "detect.callback"}, ~ regrouped' PROVE DetectWalk'
  BY DEF DetectWalk
<1>1. CASE ScriptStep
  <2>1. /\ UNCHANGED <<passLocals, present, tested>> /\ pc = "detect.callback"
        /\ pc \in Callback
    BY <1>1, ScriptLocals DEF passLocals, Callback
  <2>2. \A o : ~ DirtResetObject(o)
    BY <2>1 DEF DirtResetObject, Script, Callback
  <2>3. \A o, g : ~ setGroup(o, g)
    BY <2>1 DEF setGroup
  <2>4. CASE \E o \in Object : (\E class \in Class : New(o, class)) \/ NewInvalidClass(o)
    <3>1. regrouped' = regrouped
      BY <2>4 DEF New, NewInvalidClass, allocateWithCallbacks, passVars, history
    <3> QED BY <2>1, <2>4, <3>1, DetectAllocate DEF New, NewInvalidClass
  <2>5. CASE ~ \E o \in Object : (\E class \in Class : New(o, class)) \/ NewInvalidClass(o)
    <3>1. UNCHANGED <<used, group, detect_lists, detect_links, regrouped>>
      BY <1>1, <2>2, <2>3, <2>5 DEF ScriptStep, queueToFree, setStatus, setClass, setLayer,
         setIgnoreSuperPause, SetNextFrameSuperPauseTime, poolVars, objectVars, listVars,
         passVars, history
    <3> QED BY <2>1, <3>1, DetectFrame DEF passLocals
  <2> QED BY <2>4, <2>5
<1>2. CASE \E g1, g2 \in Group : CollisionCheckLegacy(g1, g2)
  BY <1>2, DetectStart
<1>3. CASE detectMiss \/ detectHit
  <2>1. /\ pc = "detect" /\ ptrB # null /\ NextPair /\ UNCHANGED poolVars
        /\ regrouped' = regrouped
    BY <1>3 DEF detectMiss, detectHit, NextPair
  <2> QED BY <2>1, DetectPair
<1>4. CASE detectOuter
  <2>1. regrouped' = regrouped
    BY <1>4 DEF detectOuter, history
  <2> QED BY <1>4, <2>1, DetectOuter
<1>5. CASE detectReturn
  BY <1>5, DetectFrame DEF detectReturn, poolVars, objectVars, listVars, history
<1> QED BY <1>1, <1>2, <1>3, <1>4, <1>5, IntoDetect

LEMMA DetectWalkHolds ==
  ASSUME "ResetObject" \notin CallbackOps
  PROVE  Spec => []DetectWalk
<1>1. Init => DetectWalk
  BY DEF Init, DetectWalk
<1>2. IInv /\ WalkInv /\ DetectWalk /\ [Next]_vars => DetectWalk'
  <2> SUFFICES ASSUME IInv, WalkInv, DetectWalk, [Next]_vars PROVE DetectWalk'
    OBVIOUS
  <2>1. CASE Next
    BY <2>1, DetectStep DEF WalkInv
  <2>2. CASE UNCHANGED vars
    <3>1. CASE pc \in {"detect", "detect.callback"}
      BY <2>2, <3>1, DetectFrame DEF vars, poolVars, objectVars, listVars, passVars, passLocals,
                                     history
    <3>2. CASE pc \notin {"detect", "detect.callback"}
      BY <2>2, <3>2 DEF DetectWalk, vars, passVars, passLocals
    <3> QED BY <3>1, <3>2
  <2> QED BY <2>1, <2>2
<1> QED BY <1>1, <1>2, IInvHolds, WalkInvHolds, PTL DEF Spec

\* CollisionCheck(A, B) has tested every object of A with every object of B that
\* existed when it began, and tests no pair twice, also when A is B and while
\* colli callbacks append to both lists, as long as no callback moves an object
\* between groups or calls lstg.ResetObject (detectIntersectionLegacy).
THEOREM DetectReachesAll ==
  ASSUME "ResetObject" \notin CallbackOps
  PROVE  Spec => []DetectCoversAll
<1>1. IInv /\ DetectWalk => DetectCoversAll
  <2> SUFFICES ASSUME IInv, DetectWalk, pc = "detect", ~ regrouped
               PROVE  /\ p = null => (OuterGroup \cap present) \X (InnerGroup \cap present)
                                        \subseteq tested
                      /\ ptrB # null => <<p, ptrB>> \notin tested
    BY DEF DetectCoversAll, OuterGroup, InnerGroup
  <2>1. PICK r \in [Object -> Nat], b \in Nat :
          DetectOrder(r, b) /\ PointersInLists(r) /\ PairsTested(r)
    BY DEF DetectWalk
  <2>2. p = null => (OuterGroup \cap present) \X (InnerGroup \cap present) \subseteq tested
    BY <2>1 DEF PairsTested, PairDone
  <2>3. ASSUME ptrB # null PROVE <<p, ptrB>> \notin tested
    <3>1. p # null /\ p \in OuterGroup /\ ptrB \in InnerGroup
      BY <2>1, <2>3 DEF PointersInLists
    <3>2. r[p] \in Nat /\ r[ptrB] \in Nat
      BY <3>1 DEF OuterGroup, InnerGroup, InGroup, IInv, PoolInv, ObjectType
    <3>3. ~ PairDone(r, p, ptrB)
      BY <2>3, <3>1, <3>2 DEF PairDone, InnerDone
    <3> QED BY <2>1, <3>1, <3>3 DEF PairsTested
  <2> QED BY <2>2, <2>3
<1> QED BY <1>1, IInvHolds, DetectWalkHolds, PTL
==============================================================================
