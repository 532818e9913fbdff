---------------------------- MODULE GameObjectPool ----------------------------
(***************************************************************************)
(* luastg::GameObjectPool with its Lua binding.  The pool owns every game  *)
(* object and keeps each one in three structures at once: the update list  *)
(* (order of creation), the detect list of its collision group and the     *)
(* render list (a std::set ordered by layer and unique id).                *)
(*                                                                         *)
(* A pass (lstg.ObjFrame, ObjRender, BoundCheck, CollisionCheck,           *)
(* AfterFrame, ResetPool) walks one structure and, for most objects, calls *)
(* into a script.  While a callback runs the script may change the very    *)
(* structures the pass is walking.  pc says what is running: "main" is the *)
(* main script between two passes, a name ending in ".callback" is script  *)
(* code called by the pass, any other value is the loop of a pass.         *)
(*                                                                         *)
(* Geometry is abstracted: whether two objects intersect or an object has  *)
(* left the world is a choice made at each test.  Passes do not nest.      *)
(***************************************************************************)
EXTENDS LinkedListOps, Naturals

CONSTANTS
  Object,            \* the slots of the object pool, LOBJPOOL_SIZE in the code
  Group,             \* the collision groups, LOBJPOOL_GROUPN in the code
  Layer,             \* the layers scripts use
  Class,             \* the classes scripts use; a class is the set of callbacks
                     \* it defines, out of "frame" "render" "colli" "del" "kill"
  DefaultGroup,      \* group and layer of a new object, 0 in the code
  DefaultLayer,
  UidBound,          \* bound on m_iUid, which the code counts modulo 2^48 - 1
  PauseBound,        \* longest super pause a script asks for
  HitBound,          \* most intersections one batch pass finds
  Passes,            \* the passes the main script runs, e.g. "ObjFrame"
  MainOps,           \* what the main script calls, e.g. "New", "group"
  CallbackOps        \* what callbacks call

ASSUME PoolAssumption ==
  /\ null \notin Object /\ null \notin Group
  /\ Layer \subseteq Nat /\ DefaultLayer \in Layer
  /\ DefaultGroup \in Group
  /\ UidBound \in Nat /\ PauseBound \in Nat /\ HitBound \in Nat

VARIABLES
  used,                  \* slots taken in m_ObjectPool
  object_table,          \* slots with an entry in the Lua object table
  status, unique_id, group, layer, callbacks, ignore_super_pause,
  m_iUid,
  update_list, update_links,
  detect_lists, detect_links,
  render_list,           \* set of keys [layer, uid, object]
  m_LockObjectA, m_LockObjectB,
  m_is_rendering, m_is_detecting_intersect,
  m_superpause, m_nextsuperpause,
  pc,
  p,                     \* the object the loop is at
  ptrA, ptrB,            \* prefetched pointers of detectIntersectionLegacy
  groups,                \* <<group1, group2>> of that pass
  cache,                 \* tests to report, of the two batch passes
  version,               \* version argument of ObjFrame and AfterFrame
  \* History of the pass: the objects in use when it began, how often it has
  \* processed each, those it has moved, the pairs it has tested, whether a
  \* callback has changed a group, and whether one has reset an object the
  \* pass stands on: under test, or at the iterator of the render set.
  present, visits, moved, tested, regrouped, displaced

objectVars == <<status, unique_id, group, layer, callbacks, ignore_super_pause>>
listVars   == <<update_list, update_links, detect_lists, detect_links, render_list>>
poolVars   == <<used, object_table, m_iUid, objectVars, listVars>>
lockVars   == <<m_LockObjectA, m_LockObjectB, m_is_rendering, m_is_detecting_intersect>>
pauseVars  == <<m_superpause, m_nextsuperpause>>
passLocals == <<pc, p, ptrA, ptrB, groups, cache, version>>
history    == <<present, visits, moved, tested, regrouped, displaced>>
passVars   == <<passLocals, history>>
vars == <<poolVars, lockVars, pauseVars, passVars>>

Callback == {"update.callback", "render.callback", "bound.callback",
             "bound2.callback", "detect.callback", "detect2.callback"}
Loop == {"update", "update2", "render", "bound", "bound2", "detect", "detect2", "next", "reset"}

Key(o) == [layer |-> layer[o], uid |-> unique_id[o], object |-> o]
Before(a, b) == a.layer < b.layer \/ (a.layer = b.layer /\ a.uid < b.uid)

SameKey(a, b) == a.layer = b.layer /\ a.uid = b.uid

\* std::set::insert and std::set::erase compare keys, never addresses.
SetInsert(S, e) == IF \E x \in S : SameKey(x, e) THEN S ELSE S \cup {e}
SetErase(S, e)  == {x \in S : ~ SameKey(x, e)}

\* The render set after the key of o has become e: erase, change, insert.
RekeyedWithoutErase(o, e) == SetInsert(render_list, e)               \* mutant
Rekeyed(o, e) == SetInsert(SetErase(render_list, Key(o)), e)

\* A list after o has been removed from it and appended again.
MovedHead(h, k, o) == AddHead(RemoveHead(h, k, o), o)
MovedLinks(h, k, o) == AddLinks(RemoveHead(h, k, o), RemoveLinks(h, k, o), o)

InGroup(g) == {o \in used : group[o] = g}

TypeOK ==
  /\ used \subseteq Object /\ object_table \subseteq Object
  /\ status \in [Object -> {"free", "active", "dead", "killed"}]
  /\ unique_id \in [Object -> Nat] /\ m_iUid \in Nat
  /\ group \in [Object -> Group] /\ layer \in [Object -> Layer]
  /\ callbacks \in [Object -> Class \cup {{}}]
  /\ ignore_super_pause \in [Object -> BOOLEAN]
  /\ update_list \in [first : Object \cup {null}, last : Object \cup {null}]
  /\ update_links \in [prev : [Object -> Object \cup {null}],
                       next : [Object -> Object \cup {null}]]
  /\ detect_lists \in [Group -> [first : Object \cup {null}, last : Object \cup {null}]]
  /\ detect_links \in [prev : [Object -> Object \cup {null}],
                       next : [Object -> Object \cup {null}]]
  /\ render_list \subseteq [layer : Layer, uid : Nat, object : Object]
  /\ m_LockObjectA \in Object \cup {null} /\ m_LockObjectB \in Object \cup {null}
  /\ m_is_rendering \in BOOLEAN /\ m_is_detecting_intersect \in BOOLEAN
  /\ m_superpause \in Nat /\ m_nextsuperpause \in Nat
  /\ pc \in {"main"} \cup Loop \cup Callback
  /\ p \in Object \cup {null} /\ ptrA \in Object \cup {null} /\ ptrB \in Object \cup {null}
  /\ groups \in Group \X Group
  /\ cache \subseteq [a : Object, uidA : Nat, b : Object, uidB : Nat]
  /\ version \in {1, 2}
  /\ present \subseteq Object /\ visits \in [Object -> Nat]
  /\ moved \subseteq Object /\ tested \subseteq Object \X Object
  /\ regrouped \in BOOLEAN /\ displaced \in BOOLEAN

Init ==
  /\ used = {} /\ object_table = {} /\ m_iUid = 0
  /\ status = [o \in Object |-> "free"]
  /\ unique_id = [o \in Object |-> 0]
  /\ group = [o \in Object |-> DefaultGroup]
  /\ layer = [o \in Object |-> DefaultLayer]
  /\ callbacks = [o \in Object |-> {}]
  /\ ignore_super_pause = [o \in Object |-> FALSE]
  /\ update_list = EmptyHead /\ update_links = NoLinks(Object)
  /\ detect_lists = [g \in Group |-> EmptyHead] /\ detect_links = NoLinks(Object)
  /\ render_list = {}
  /\ m_LockObjectA = null /\ m_LockObjectB = null
  /\ m_is_rendering = FALSE /\ m_is_detecting_intersect = FALSE
  /\ m_superpause = 0 /\ m_nextsuperpause = 0
  /\ pc = "main" /\ p = null /\ ptrA = null /\ ptrB = null
  /\ groups = <<DefaultGroup, DefaultGroup>> /\ cache = {} /\ version = 1
  /\ present = {} /\ visits = [o \in Object |-> 0]
  /\ moved = {} /\ tested = {} /\ regrouped = FALSE /\ displaced = FALSE

------------------------------------------------------------------------------
(* What scripts do, from the main script or from a callback. *)

Script(op) ==
  \/ pc = "main" /\ op \in MainOps
  \/ pc \in Callback /\ op \in CallbackOps

\* allocateWithCallbacks; the new object is at the end of the update list and
\* of the detect list of the default group.
KeepUid == m_iUid' = m_iUid                                          \* mutant
TakeUid == m_iUid < UidBound /\ m_iUid' = m_iUid + 1

allocateWithCallbacks(o, class) ==
  /\ o \notin used
  /\ used' = used \cup {o}
  /\ status' = [status EXCEPT ![o] = "active"]
  /\ unique_id' = [unique_id EXCEPT ![o] = m_iUid] /\ TakeUid
  /\ group' = [group EXCEPT ![o] = DefaultGroup]
  /\ layer' = [layer EXCEPT ![o] = DefaultLayer]
  /\ callbacks' = [callbacks EXCEPT ![o] = class]
  /\ ignore_super_pause' = [ignore_super_pause EXCEPT ![o] = FALSE]
  /\ update_list' = AddHead(update_list, o)
  /\ update_links' = AddLinks(update_list, update_links, o)
  /\ detect_lists' = [detect_lists EXCEPT ![DefaultGroup] = AddHead(@, o)]
  /\ detect_links' = AddLinks(detect_lists[DefaultGroup], detect_links, o)
  /\ render_list' = SetInsert(render_list,
                      [layer |-> DefaultLayer, uid |-> m_iUid, object |-> o])
  /\ UNCHANGED <<lockVars, pauseVars, passVars>>

\* lstg.New with a class, and with an argument that is not one: the object is
\* allocated first and the class checked afterwards, so the error leaves an
\* object without callbacks and without an entry in the object table.
New(o, class) ==
  /\ Script("New")
  /\ allocateWithCallbacks(o, class)
  /\ object_table' = object_table \cup {o}

NewInvalidClass(o) ==
  /\ Script("NewInvalidClass")
  /\ allocateWithCallbacks(o, {})
  /\ UNCHANGED object_table

\* lstg.Del and lstg.Kill; the script then runs the del or kill callback.
queueToFree(o, mark) ==
  /\ Script("Del")
  /\ o \in object_table /\ status[o] = "active"
  /\ status' = [status EXCEPT ![o] = mark]
  /\ UNCHANGED <<used, object_table, m_iUid, unique_id, group, layer, callbacks,
                 ignore_super_pause, listVars, lockVars, pauseVars, passVars>>

\* object.status = "normal", "del" or "kill"; any other value is refused.
setStatus(o, s) ==
  /\ Script("status")
  /\ o \in object_table /\ s \in {"active", "dead", "killed"}
  /\ status' = [status EXCEPT ![o] = s]
  /\ UNCHANGED <<used, object_table, m_iUid, unique_id, group, layer, callbacks,
                 ignore_super_pause, listVars, lockVars, pauseVars, passVars>>

\* object.class = class; an argument that is not a class clears the features
\* before the error is raised.
setClass(o, class) ==
  /\ Script("class")
  /\ o \in object_table
  /\ callbacks' = [callbacks EXCEPT ![o] = class]
  /\ UNCHANGED <<used, object_table, m_iUid, status, unique_id, group, layer,
                 ignore_super_pause, listVars, lockVars, pauseVars, passVars>>

\* object.group = g; the binding refuses the two locked objects.
isLockedByDetectIntersection(o) == o = m_LockObjectA \/ o = m_LockObjectB

setGroupField(o, g) ==                                               \* mutant
  /\ Script("group") /\ o \in object_table
  /\ group' = [group EXCEPT ![o] = g]
  /\ UNCHANGED <<used, object_table, m_iUid, status, unique_id, layer, callbacks,
                 ignore_super_pause, listVars, lockVars, pauseVars, passVars>>

setGroup(o, g) ==
  /\ Script("group")
  /\ o \in object_table /\ group[o] # g
  /\ ~ isLockedByDetectIntersection(o)
  /\ LET from  == group[o]
         lists == [detect_lists EXCEPT ![from] = RemoveHead(@, detect_links, o)]
         links == RemoveLinks(detect_lists[from], detect_links, o)
     IN /\ detect_lists' = [lists EXCEPT ![g] = AddHead(@, o)]
        /\ detect_links' = AddLinks(lists[g], links, o)
  /\ group' = [group EXCEPT ![o] = g]
  /\ regrouped' = (pc # "main")
  /\ UNCHANGED <<used, object_table, m_iUid, status, unique_id, layer, callbacks,
                 ignore_super_pause, update_list, update_links, render_list,
                 lockVars, pauseVars, passLocals, present, visits, moved, tested,
                 displaced>>

\* object.layer = l; the binding refuses it while the pool renders.
neverRendering == FALSE                                              \* mutant
isRendering == m_is_rendering

setLayer(o, l) ==
  /\ Script("layer")
  /\ o \in object_table /\ layer[o] # l
  /\ ~ isRendering
  /\ layer' = [layer EXCEPT ![o] = l]
  /\ render_list' = Rekeyed(o, [layer |-> l, uid |-> unique_id[o], object |-> o])
  /\ UNCHANGED <<used, object_table, m_iUid, status, unique_id, group, callbacks,
                 ignore_super_pause, update_list, update_links, detect_lists,
                 detect_links, lockVars, pauseVars, passVars>>

\* lstg.ResetObject, which checks nothing: it takes an object under test out
\* of its detect list, and the object being rendered out of the set under the
\* iterator.
DirtResetObject(o) ==
  /\ Script("ResetObject")
  /\ o \in object_table
  /\ update_list' = MovedHead(update_list, update_links, o)
  /\ update_links' = MovedLinks(update_list, update_links, o)
  /\ detect_lists' = [detect_lists EXCEPT ![group[o]] = MovedHead(@, detect_links, o)]
  /\ detect_links' = MovedLinks(detect_lists[group[o]], detect_links, o)
  /\ unique_id' = [unique_id EXCEPT ![o] = m_iUid] /\ TakeUid
  /\ render_list' = Rekeyed(o, [layer |-> layer[o], uid |-> m_iUid, object |-> o])
  /\ displaced' = \/ displaced
                  \/ isLockedByDetectIntersection(o)
                  \/ pc = "render.callback" /\ p = o
  /\ UNCHANGED <<used, object_table, status, group, layer, callbacks,
                 ignore_super_pause, lockVars, pauseVars, passLocals, present,
                 visits, moved, tested, regrouped>>

\* lstg.SetSuperPause, and object.ignore_superpause = b.
SetNextFrameSuperPauseTime(time) ==
  /\ Script("SetSuperPause")
  /\ m_nextsuperpause' = time
  /\ UNCHANGED <<poolVars, lockVars, m_superpause, passVars>>

setIgnoreSuperPause(o, b) ==
  /\ Script("SetSuperPause")
  /\ o \in object_table
  /\ ignore_super_pause' = [ignore_super_pause EXCEPT ![o] = b]
  /\ UNCHANGED <<used, object_table, m_iUid, status, unique_id, group, layer,
                 callbacks, listVars, lockVars, pauseVars, passVars>>

ScriptStep ==
  \/ \E o \in Object :
       \/ \E class \in Class : New(o, class)
       \/ NewInvalidClass(o)
       \/ \E mark \in {"dead", "killed"} : queueToFree(o, mark)
       \/ \E s \in {"active", "dead", "killed"} : setStatus(o, s)
       \/ \E class \in Class \cup {{}} : setClass(o, class)
       \/ \E g \in Group : setGroup(o, g)
       \/ \E l \in Layer : setLayer(o, l)
       \/ DirtResetObject(o)
       \/ \E b \in BOOLEAN : setIgnoreSuperPause(o, b)
  \/ \E time \in 0 .. PauseBound : SetNextFrameSuperPauseTime(time)
==============================================================================
