------------------------------ MODULE BentLaser ------------------------------
(***************************************************************************)
(* luastg::GameObjectBentLaser: a laser is a queue of nodes, the oldest    *)
(* first.  Besides its position a node keeps what drawing needs and what   *)
(* would be slow to compute each frame: the distance from the node before  *)
(* it and the direction in which it is extended; the laser keeps the total *)
(* length.  Scripts change lasers by seven functions, each of which brings *)
(* these caches up to date on its own.                                     *)
(*                                                                         *)
(* The circular queue of the nodes is a sequence here (CircularQueue is    *)
(* shown to implement one) and whether its back lies behind the array.     *)
(* Positions are points of a line, a direction is the neighbours that it   *)
(* was computed from; width, envelope, collision and sampling only read.   *)
(***************************************************************************)
EXTENDS Integers, Sequences, FiniteSetsExt

CONSTANTS
  MaxNodes,     \* LGOBJ_MAXLASERNODE, 512 in the code
  Pos,          \* positions of nodes, natural numbers
  Indices,      \* the indices scripts pass for a list of positions
  LengthBound   \* bound of the model on how far the cached length goes wrong

ASSUME LaserAssumption ==
  MaxNodes \in Nat \ {0, 1} /\ Pos \subseteq Nat /\ 0 \in Pos /\ Indices \subseteq Int

VARIABLES
  m_Queue, m_fLength,
  behind,    \* m_back of the queue is MaxNodes, which is no slot
  drift,     \* history: the distances or the length may be wrong
  torn,      \* history: the directions may be wrong, too
  overrun    \* history: a node was written behind the array, or pushed when the
             \* queue was full, which makes slots serve two nodes

laserVars == <<m_Queue, m_fLength, behind, drift, torn, overrun>>

Distance(a, b) == IF a < b THEN b - a ELSE a - b

NoDirection == [k \in {} |-> 0]
LaserNode(pos, dis, active) == [pos |-> pos, dis |-> dis, active |-> active, dir |-> NoDirection]

LaserInit ==
  /\ m_Queue = <<>> /\ m_fLength = 0 /\ behind = FALSE
  /\ drift = FALSE /\ torn = FALSE /\ overrun = FALSE

------------------------------------------------------------------------------
(* What the functions are built from.  The nodes of a queue are q[1], the    *)
(* oldest, to q[Len(q)].                                                     *)

Direction(q, i) ==
  IF Len(q) <= 1 THEN NoDirection
  ELSE [k \in {d \in -1 .. 1 : i + d \in DOMAIN q} |-> q[i + k].pos]

\* _UpdateNodeVertexExtend for the nodes of S
Extended(q, S) ==
  [i \in DOMAIN q |-> IF i \in S THEN [q[i] EXCEPT !.dir = Direction(q, i)] ELSE q[i]]

DistanceBefore(q, i) == IF i = 1 THEN 0 ELSE Distance(q[i - 1].pos, q[i].pos)

\* Only what lies between two active nodes counts, from the oldest node on.
Counted(q, i) == IF q[i - 1].active /\ q[i].active THEN DistanceBefore(q, i) ELSE 0

ActiveLength(q) ==
  LET upTo[i \in 0 .. Len(q)] == IF i <= 1 THEN 0 ELSE upTo[i - 1] + Counted(q, i)
  IN  upTo[Len(q)]

\* _UpdateAllNode computes everything again from the positions.
UpdateAllNode(q) ==
  /\ m_Queue' = Extended([i \in DOMAIN q |-> [q[i] EXCEPT !.dis = DistanceBefore(q, i)]], DOMAIN q)
  /\ m_fLength' = ActiveLength(q)
  /\ drift' = FALSE /\ torn' = FALSE

KeepingLength(l) ==                                                  \* mutant
  IF Len(l.queue) > 1 THEN [l EXCEPT !.queue = Tail(@)] ELSE l

\* _PopHead; it neither removes the last node nor looks at the length when the
\* last but one goes.
PopHead(l) ==
  CASE Len(l.queue) <= 1 -> l
    [] Len(l.queue) = 2  -> [l EXCEPT !.queue = Tail(@)]
    [] OTHER -> [queue  |-> [Tail(l.queue) EXCEPT ![1].dis = 0],
                 length |-> IF l.queue[1].active /\ l.queue[2].active
                            THEN l.length - l.queue[2].dis ELSE l.length]

\* As long as there are more nodes than size, the oldest one goes.
PoppedTo(l, size) ==
  LET after[k \in 0 .. Len(l.queue)] ==
        IF k = 0 THEN l
        ELSE IF Len(after[k - 1].queue) <= size THEN after[k - 1] ELSE PopHead(after[k - 1])
  IN  after[Len(l.queue)]

------------------------------------------------------------------------------
(* The functions of scripts.  Nothing is said of a laser that was overrun.   *)

Bounded == m_fLength' \in -LengthBound .. LengthBound
Moved(x) == IF m_Queue = <<>> THEN TRUE ELSE m_Queue[Len(m_Queue)].pos # x

\* Update, when the laser has not moved: its newest node is written again.
UpdateInPlace(x, length, active) ==
  /\ ~ overrun /\ ~ Moved(x)
  /\ LET l == PoppedTo([queue |-> m_Queue, length |-> m_fLength], length - 1)
         n == Len(l.queue)
         d == DistanceBefore(l.queue, n) IN
       IF n >= 2
       THEN /\ m_Queue' = Extended([l.queue EXCEPT ![n].dis = d], {n - 1, n})
            /\ m_fLength' = l.length - l.queue[n].dis + d
            /\ UNCHANGED <<drift, torn>>
       ELSE /\ m_Queue' = [l.queue EXCEPT ![n].dis = 0, ![n].active = active]
            /\ m_fLength' = 0
            /\ drift' = FALSE /\ torn' = FALSE
  /\ Bounded /\ UNCHANGED <<behind, overrun>>

\* Update, when it has: a new node, and the oldest ones go.
UpdateInsert(x, length, active) ==
  /\ ~ overrun /\ Moved(x)
  /\ LET l == PoppedTo([queue |-> m_Queue, length |-> m_fLength],
                       Min({length - 1, MaxNodes - 1}))
         n == Len(l.queue)
         d == IF n = 0 THEN 0 ELSE Distance(l.queue[n].pos, x)
         q == Append(l.queue, LaserNode(x, d, active)) IN
       /\ m_Queue' = IF n = 0 THEN q ELSE Extended(q, {n, n + 1})
       /\ m_fLength' = IF n = 0 THEN 0
                       ELSE IF active /\ l.queue[n].active THEN l.length + d ELSE l.length
       /\ drift' = (n > 0 /\ (drift \/ (n = 1 /\ Len(m_Queue) > 1)))
       /\ torn' = (n > 1 /\ torn)
  /\ overrun' = behind /\ behind' = FALSE
  /\ Bounded

Update(x, length, active) == UpdateInPlace(x, length, active) \/ UpdateInsert(x, length, active)

\* Mutant: the node after it is not extended again.
UpdateNodeAlone(i, x) ==
  /\ ~ overrun /\ i \in DOMAIN m_Queue
  /\ LET d == IF i = 1 THEN 0 ELSE Distance(m_Queue[i - 1].pos, x)
         node == [m_Queue[i] EXCEPT !.pos = x, !.dis = d, !.active = TRUE] IN
       /\ m_Queue' = Extended([m_Queue EXCEPT ![i] = node], {i - 1, i})
       /\ m_fLength' = m_fLength - m_Queue[i].dis + d
       /\ drift' = TRUE
  /\ Bounded /\ UNCHANGED <<behind, torn, overrun>>

\* UpdateNode with a position; of the neighbours the next one keeps its
\* distance, and the length takes no notice of who is active.
UpdateSingleNode(i, x) ==
  /\ ~ overrun /\ i \in DOMAIN m_Queue
  /\ LET d == IF i = 1 THEN 0 ELSE Distance(m_Queue[i - 1].pos, x)
         node == [m_Queue[i] EXCEPT !.pos = x, !.dis = d, !.active = TRUE] IN
       /\ m_Queue' = Extended([m_Queue EXCEPT ![i] = node], {i - 1, i, i + 1})
       /\ m_fLength' = m_fLength - m_Queue[i].dis + d
       /\ drift' = (drift \/ i < Len(m_Queue)
                    \/ (i > 1 /\ ~ (m_Queue[i].active /\ m_Queue[i - 1].active)))
  /\ Bounded /\ UNCHANGED <<behind, torn, overrun>>

\* UpdateNode with an object, whose position it does not use.
UpdateByNode(i, active) ==
  /\ ~ overrun /\ i \in DOMAIN m_Queue
  /\ UpdateAllNode([m_Queue EXCEPT ![i].active = active])
  /\ UNCHANGED <<behind, overrun>>

Padding(n) == [i \in 1 .. n |-> LaserNode(0, 0, FALSE)]

\* A position of a list goes to the node at index, counted from the newest.
\* The loop that should make room for a negative index never runs: the slot
\* that is written lies behind the newest node, or it is one of the oldest when
\* that is round the end of the array.
Placed(q, x, index) ==
  LET r == Padding(index + 1 - Len(q)) \o q
      i == ((Len(r) - index - 1) % MaxNodes) + 1 IN
    IF i \in DOMAIN r THEN [r EXCEPT ![i].pos = x, ![i].active = TRUE] ELSE r

PlacedAll(q, xs, index, step) ==
  LET after[k \in 0 .. Len(xs)] ==
        IF k = 0 THEN q ELSE Placed(after[k - 1], xs[k], index + (k - 1) * step)
  IN  after[Len(xs)]

\* Neither index nor list is compared with the capacity: a node that is asked for
\* beyond it is pushed to a full queue.
UpdatePositionByList(xs, index, revert) ==
  LET step == IF revert THEN -1 ELSE 1
      fits == \A k \in DOMAIN xs : index - 1 + (k - 1) * step < MaxNodes IN
  /\ ~ overrun /\ UNCHANGED behind
  /\ \/ fits /\ UpdateAllNode(PlacedAll(m_Queue, xs, index - 1, step)) /\ UNCHANGED overrun
     \/ ~ fits /\ overrun' = TRUE /\ UNCHANGED <<m_Queue, m_fLength, drift, torn>>

\* UpdateAllNode of scripts: as many nodes as asked for, whatever the slots
\* hold, are set one by one until an item of a list is no number.  That is an
\* error and leaves the rest as it was.
UpdateAllNodeByList(size, xs) ==
  /\ ~ overrun
  /\ behind' = (size = MaxNodes)
  /\ LET set == [i \in DOMAIN xs |-> LaserNode(xs[i], 0, TRUE)] IN
       \/ Len(xs) = size /\ UpdateAllNode(set)
       \/ \E pos \in Pos, active \in BOOLEAN :
            /\ Len(xs) < size
            /\ m_Queue' = set \o [i \in 1 .. size - Len(xs) |-> LaserNode(pos, 0, active)]
            /\ drift' = TRUE /\ torn' = TRUE /\ UNCHANGED m_fLength
  /\ UNCHANGED overrun

\* Meta_GC frees the laser; the next one starts from nothing.
Meta_GC ==
  /\ m_Queue' = <<>> /\ m_fLength' = 0 /\ behind' = FALSE
  /\ drift' = FALSE /\ torn' = FALSE /\ overrun' = FALSE

Lists(n) == UNION {[1 .. k -> Pos] : k \in 0 .. n}

LaserNext ==
  \/ \E x \in Pos, length \in 2 .. MaxNodes + 1, active \in BOOLEAN : Update(x, length, active)
  \/ \E i \in 1 .. MaxNodes, x \in Pos : UpdateSingleNode(i, x)
  \/ \E i \in 1 .. MaxNodes, active \in BOOLEAN : UpdateByNode(i, active)
  \/ \E xs \in Lists(2), index \in Indices, revert \in BOOLEAN :
       UpdatePositionByList(xs, index, revert)
  \/ \E size \in 0 .. MaxNodes : \E xs \in Lists(size) : UpdateAllNodeByList(size, xs)
  \/ Meta_GC

LaserSpec == LaserInit /\ [][LaserNext]_laserVars

------------------------------------------------------------------------------
\* The cached distances and the cached length are those of the positions, so
\* the texture runs along the laser as if it had been computed anew, unless
\* one of the functions that get it wrong was called since the last time
\* everything was computed (Render divides one by the other).
LengthAgrees ==
  ~ drift => /\ m_fLength = ActiveLength(m_Queue)
             /\ \A i \in DOMAIN m_Queue : m_Queue[i].dis = DistanceBefore(m_Queue, i)

\* Every node but the oldest is extended as its neighbours are now, whichever
\* of them was moved, added or removed (_UpdateNodeVertexExtend).
DirectionsAgree ==
  ~ torn => \A i \in 2 .. Len(m_Queue) : m_Queue[i].dir = Direction(m_Queue, i)

\* The caches agree with the nodes after any calls of scripts, unless one overran
\* the array since the laser was made (Update, UpdateNode, UpdateAllNode).
LaserInv == ~ overrun => LengthAgrees /\ DirectionsAgree

\* No call of scripts asks the queue for more nodes than it has slots:
\* pushHead and pushTail assert that it is not full (FixedCircularQueue.hpp:59).
NodesFit == ~ overrun
=============================================================================
