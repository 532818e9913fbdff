----------------------------- MODULE ResourcePool -----------------------------
(***************************************************************************)
(* The two resource pools of ResourceMgr, and who keeps a resource alive:  *)
(* a pool, a resource made from it, a particle pool made by it, a game     *)
(* object, a lstg.ParticleSystem of a script.  Textures, image sprites and *)
(* particle systems stand for the ten kinds; a texture resource and its    *)
(* texture are one thing, as are a sprite resource and its sprite.         *)
(***************************************************************************)
EXTENDS Integers, FiniteSets

CONSTANTS
  Slot,           \* the [kind, name] under which scripts load resources
  ThingBound,     \* how many resources exist at once
  InstanceBound,  \* how many particle pools
  UserDataBound,  \* how many lstg.ParticleSystem
  LoadFails   \* whether making a resource may fail

ASSUME ResourceAssumption ==
  /\ \A s \in Slot : s.kind \in {"texture", "sprite", "particle"}
  /\ ThingBound \in Nat /\ InstanceBound \in Nat /\ UserDataBound \in Nat
  /\ LoadFails \in BOOLEAN

VARIABLES
  pools,          \* [Pool -> [Slot -> a thing, or 0]]
  m_ActivedPool,
  things,         \* resources: their slot, their references, what they keep
  instances,      \* particle pools: the resource each keeps, or 0 when freed
  object,         \* one game object and its Lua table
  userdata        \* the lstg.ParticleSystem: res, ptr, and whether a script has it

resVars == <<pools, m_ActivedPool, things, instances, object, userdata>>

Pool     == {"global", "stage"}
Thing    == 1 .. ThingBound
Instance == 1 .. InstanceBound
UserData == 1 .. UserDataBound

Freed    == [slot |-> [kind |-> "none", name |-> "none"], refs |-> 0, dep |-> 0]
NoObject == [alive |-> FALSE, render |-> FALSE, res |-> 0, ps |-> 0, rc |-> 0]
NoData   == [res |-> 0, ptr |-> 0, held |-> FALSE]

------------------------------------------------------------------------------
\* Reference counting.  Nothing is 0, of which retain and release do nothing.
Retained(m, x) == IF x = 0 THEN m ELSE [m EXCEPT ![x].refs = @ + 1]

Dropped(m, x) ==
  IF x = 0 THEN m
  ELSE IF m[x].refs > 1 THEN [m EXCEPT ![x].refs = @ - 1] ELSE [m EXCEPT ![x] = Freed]

\* The last release of a resource releases what it was made from, a texture.
Released(m, x) ==
  IF x # 0 /\ m[x].refs = 1 THEN Dropped(Dropped(m, x), m[x].dep) ELSE Dropped(m, x)

\* Clearing a pool releases each of them: those that no one else keeps are gone,
\* and so are the textures that lose their last reference with them.
ReleasedAll(m, s) ==
  LET gone    == {x \in s : m[x].refs = 1}
      left(x) == m[x].refs - (IF x \in s THEN 1 ELSE 0)
                 - Cardinality({y \in gone : m[y].dep = x})
  IN  [x \in Thing |-> IF left(x) = 0 THEN Freed ELSE [m[x] EXCEPT !.refs = left(x)]]

\* FindTexture, FindSprite, FindParticle: the stage pool first.
Find(kind, name) ==
  LET found(p) == {pools[p][s] : s \in {t \in Slot : t.kind = kind /\ t.name = name}} \ {0}
      one(S)   == IF S = {} THEN 0 ELSE CHOOSE x \in S : TRUE
  IN  IF found("stage") # {} THEN one(found("stage")) ELSE one(found("global"))

------------------------------------------------------------------------------
SetResourceStatus(t) ==
  /\ m_ActivedPool' = t /\ UNCHANGED <<pools, things, instances, object, userdata>>

\* A resource made of one that may be in the other pool.  The sprite keeps the
\* texture it is cut from, a particle system clones the sprite and with it keeps
\* that texture.
MadeOf(slot) ==
  CASE slot.kind = "texture"  -> {0}
    [] slot.kind = "sprite"   -> {Find("texture", s.name) : s \in Slot} \ {0}
    [] slot.kind = "particle" ->
         {things[x].dep : x \in {Find("sprite", s.name) : s \in Slot} \ {0}}

\* CreateTexture, CreateSprite, LoadParticle: what is there already stays.
Load(slot) ==
  /\ m_ActivedPool \in Pool /\ pools[m_ActivedPool][slot] = 0
  /\ \E dep \in MadeOf(slot), x \in Thing :
       /\ things[x] = Freed /\ \A y \in 1 .. x - 1 : things[y] # Freed
       /\ things' = Retained([things EXCEPT ![x] = [slot |-> slot, refs |-> 1, dep |-> dep]],
                             dep)
       /\ pools' = [pools EXCEPT ![m_ActivedPool][slot] = x]
  /\ UNCHANGED <<m_ActivedPool, instances, object, userdata>>

\* It is there, what it is made from is not, or it cannot be made.
LoadChangesNothing(slot) ==
  /\ m_ActivedPool \in Pool
  /\ pools[m_ActivedPool][slot] # 0 \/ MadeOf(slot) = {} \/ LoadFails
  /\ UNCHANGED resVars

RemoveResource(p, slot) ==
  /\ pools[p][slot] # 0
  /\ pools' = [pools EXCEPT ![p][slot] = 0]
  /\ things' = Released(things, pools[p][slot])
  /\ UNCHANGED <<m_ActivedPool, instances, object, userdata>>

Clear(p) ==
  /\ pools' = [pools EXCEPT ![p] = [s \in Slot |-> 0]]
  /\ things' = ReleasedAll(things, {pools[p][s] : s \in Slot} \ {0})
  /\ UNCHANGED <<m_ActivedPool, instances, object, userdata>>

------------------------------------------------------------------------------
\* GameObject::ReleaseResource; a particle pool keeps its resource, too.
WithoutResource(m, o) == Released(Released(m, IF o.ps # 0 THEN o.res ELSE 0), o.res)
WithoutInstance(o)    == [i \in Instance |-> IF i = o.ps THEN 0 ELSE instances[i]]

\* releaseParticlePoolBinding: the pool itself stays with the object.
WithoutBinding(m, o) == IF o.rc = 0 THEN m ELSE Released(m, userdata[o.rc].res)

\* Mutant: the binding keeps pointing at the object's particle pool.
UnboundKeepingPool(u) == [userdata EXCEPT ![u].res = 0]

Unbound(u) == [userdata EXCEPT ![u].res = 0, ![u].ptr = 0]

UnboundOf(o) == IF o.rc = 0 THEN userdata ELSE Unbound(o.rc)

\* All three, in the order of the code.
Bare(o)   == [o EXCEPT !.res = 0, !.ps = 0, !.rc = 0]
Spared(o) == WithoutResource(WithoutBinding(things, o), o)

New(render) ==
  /\ ~ object.alive /\ object' = [NoObject EXCEPT !.alive = TRUE, !.render = render]
  /\ UNCHANGED <<pools, m_ActivedPool, things, instances, userdata>>

\* freeWithCallbacks: onDestroy, then ReleaseResource.
Free ==
  /\ object.alive
  /\ object' = NoObject /\ things' = Spared(object)
  /\ instances' = WithoutInstance(object) /\ userdata' = UnboundOf(object)
  /\ UNCHANGED <<pools, m_ActivedPool>>

Chosen(name) ==
  IF Find("sprite", name) # 0 THEN Find("sprite", name) ELSE Find("particle", name)

NameOf(o) == IF o.res = 0 THEN "none" ELSE things[o.res].slot.name

Least(S) == {x \in S : \A y \in S : x <= y}

\* __newindex of img with a name that is not the one the object has: ChangeResource
\* fails, finds a sprite, or makes a particle pool; a render class gets the binding.
setImage(name) ==
  /\ object.alive
  /\ NameOf(object) # name
  /\ LET x == Chosen(name) IN
     IF x = 0 \/ things[x].slot.kind = "sprite"
     THEN /\ object' = [Bare(object) EXCEPT !.res = x]
          /\ things' = Retained(Spared(object), x)
          /\ instances' = WithoutInstance(object) /\ userdata' = UnboundOf(object)
     ELSE \E i \in Least({j \in Instance : WithoutInstance(object)[j] = 0}) :
            LET made  == Retained(Retained(Spared(object), x), x)
                freed == UnboundOf(object)
            IN  /\ instances' = [WithoutInstance(object) EXCEPT ![i] = x]
                /\ \/ /\ ~ object.render
                      /\ object' = [Bare(object) EXCEPT !.res = x, !.ps = i]
                      /\ things' = made /\ userdata' = freed
                   \/ /\ object.render
                      /\ \E u \in Least({v \in UserData : freed[v] = NoData}) :
                           /\ object' = [Bare(object) EXCEPT !.res = x, !.ps = i, !.rc = u]
                           /\ userdata' = [freed EXCEPT ![u] =
                                             [res |-> x, ptr |-> i, held |-> FALSE]]
                      /\ things' = Retained(made, x)
  /\ UNCHANGED <<pools, m_ActivedPool>>

setNoImage ==
  /\ object.alive
  /\ object' = Bare(object) /\ things' = Spared(object)
  /\ instances' = WithoutInstance(object) /\ userdata' = UnboundOf(object)
  /\ UNCHANGED <<pools, m_ActivedPool>>

\* __newindex of class.
setClass(render) ==
  /\ object.alive
  /\ IF render
     THEN object' = [object EXCEPT !.render = TRUE] /\ UNCHANGED <<things, userdata>>
     ELSE /\ object' = [object EXCEPT !.render = FALSE, !.rc = 0]
          /\ things' = WithoutBinding(things, object) /\ userdata' = UnboundOf(object)
  /\ UNCHANGED <<pools, m_ActivedPool, instances>>

\* What is not a class resets the features before the error.
setClassFails ==
  /\ object.alive /\ object' = [object EXCEPT !.render = FALSE]
  /\ UNCHANGED <<pools, m_ActivedPool, things, instances, userdata>>

------------------------------------------------------------------------------
\* A script keeps the rc of a render object, or makes a particle system of its own.
getBinding ==
  /\ object.alive /\ object.render /\ object.rc # 0
  /\ userdata' = [userdata EXCEPT ![object.rc].held = TRUE]
  /\ UNCHANGED <<pools, m_ActivedPool, things, instances, object>>

ParticleSystemInstance(name) ==
  /\ Find("particle", name) # 0
  /\ \E u \in Least({v \in UserData : userdata[v] = NoData}),
        i \in Least({j \in Instance : instances[j] = 0}) :
       /\ userdata' = [userdata EXCEPT ![u] =
                         [res |-> Find("particle", name), ptr |-> i, held |-> TRUE]]
       /\ instances' = [instances EXCEPT ![i] = Find("particle", name)]
  /\ things' = Retained(Retained(things, Find("particle", name)), Find("particle", name))
  /\ UNCHANGED <<pools, m_ActivedPool, object>>

Forget(u) ==
  /\ userdata[u].held /\ userdata' = [userdata EXCEPT ![u].held = FALSE]
  /\ UNCHANGED <<pools, m_ActivedPool, things, instances, object>>

\* __gc, some time after nothing refers to it: ReleaseAll.
collect(u) ==
  /\ ~ userdata[u].held /\ object.rc # u /\ userdata[u] # NoData
  /\ LET d == userdata[u] IN
     IF d.res = 0 THEN UNCHANGED <<things, instances>>
     ELSE /\ things' = Released(Released(things, d.res), d.res)
          /\ instances' = [instances EXCEPT ![d.ptr] = 0]
  /\ userdata' = [userdata EXCEPT ![u] = NoData]
  /\ UNCHANGED <<pools, m_ActivedPool, object>>

------------------------------------------------------------------------------
ResInit ==
  /\ pools = [p \in Pool |-> [s \in Slot |-> 0]] /\ m_ActivedPool = "global"
  /\ things = [x \in Thing |-> Freed] /\ instances = [i \in Instance |-> 0]
  /\ object = NoObject /\ userdata = [u \in UserData |-> NoData]

Names == {s.name : s \in Slot}

ResNext ==
  \/ \E t \in Pool \cup {"none"} : SetResourceStatus(t)
  \/ \E slot \in Slot : Load(slot) \/ LoadChangesNothing(slot)
  \/ \E p \in Pool : Clear(p) \/ \E slot \in Slot : RemoveResource(p, slot)
  \/ \E render \in BOOLEAN : New(render) \/ setClass(render)
  \/ \E name \in Names : setImage(name) \/ ParticleSystemInstance(name)
  \/ setClassFails \/ setNoImage \/ Free \/ getBinding
  \/ \E u \in UserData : Forget(u) \/ collect(u)

ResSpec == ResInit /\ [][ResNext]_resVars

------------------------------------------------------------------------------
ResTypeOK ==
  /\ pools \in [Pool -> [Slot -> 0 .. ThingBound]]
  /\ instances \in [Instance -> 0 .. ThingBound]
  /\ object.res \in 0 .. ThingBound /\ object.ps \in 0 .. InstanceBound
  /\ \A u \in UserData : userdata[u].res \in 0 .. ThingBound

\* Everything that holds a reference to x, counted.
Holders(x) ==
  Cardinality({e \in Pool \X Slot : pools[e[1]][e[2]] = x})
  + Cardinality({y \in Thing : things[y].dep = x})
  + Cardinality({i \in Instance : instances[i] = x})
  + Cardinality({u \in UserData : userdata[u].res = x})
  + (IF object.res = x THEN 1 ELSE 0)

\* A resource lives exactly as long as something holds it: removing it or
\* clearing its pool takes nothing from an object, a script, a particle pool
\* or a resource made from it, in any order, and nothing is left behind.
RefsExact ==
  \A x \in Thing : things[x].refs = Holders(x) /\ (things[x] = Freed <=> Holders(x) = 0)

\* Each particle pool has one owner that frees it, the object or the script's
\* particle system, and no one else reaches it after that: the binding that a
\* script keeps loses it with the object (releaseParticlePoolBinding).
Owners(i) ==
  (IF object.ps = i THEN {0} ELSE {})            \* 0: the object
  \cup {u \in UserData : userdata[u].ptr = i /\ u # object.rc}

PoolsOwned ==
  /\ \A i \in Instance : Cardinality(Owners(i)) = IF instances[i] # 0 THEN 1 ELSE 0
  /\ \A u \in UserData : u = object.rc => userdata[u].ptr = object.ps
  /\ object.ps # 0 => instances[object.ps] = object.res

ResourceInv == ResTypeOK /\ RefsExact /\ PoolsOwned
===============================================================================
