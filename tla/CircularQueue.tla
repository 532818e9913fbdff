---------------------------- MODULE CircularQueue ----------------------------
(***************************************************************************)
(* core::FixedCircularQueue: MaxSize slots of an array, of which m_size,   *)
(* from m_front on and round the end, are in use; m_back is the slot       *)
(* behind the last of them.  The assertions of the code are preconditions  *)
(* here: in a release build nothing checks them.  They allow a resize to   *)
(* the whole array, which leaves m_back behind it.                         *)
(***************************************************************************)
EXTENDS Integers, Sequences

CONSTANTS
  MaxSize,   \* slots, 512 in the only use
  Value,     \* what they hold
  NewSizes   \* what placementResize is called with

ASSUME QueueAssumption ==
  MaxSize \in Nat \ {0} /\ Value # {} /\ NewSizes \subseteq 0 .. MaxSize

VARIABLES
  m_data, m_front, m_back, m_size,
  call,   \* history: the last function called, and the item it took or returned
  spilt   \* history: an item was written behind the array

queueState == <<m_data, m_front, m_back, m_size, call, spilt>>

Cell == 0 .. MaxSize - 1

QueueTypeOK ==
  /\ m_data \in [Cell -> Value]
  /\ m_front \in Cell /\ m_back \in 0 .. MaxSize /\ m_size \in 0 .. MaxSize

\* The array is not initialised: whatever it holds.
QueueInit ==
  /\ m_data \in [Cell -> Value]
  /\ m_front = 0 /\ m_back = 0 /\ m_size = 0
  /\ call = [op |-> "none", item |-> <<>>] /\ spilt = FALSE

Called(op, item) == call' = [op |-> op, item |-> item]

full == m_size >= MaxSize
empty == m_size = 0

forward(s) == (s + 1) % MaxSize
backward(s) == (s + MaxSize - 1) % MaxSize

OverwritingTail(v) ==                                                \* mutant
  /\ m_data' = [m_data EXCEPT ![backward(m_back)] = v]
  /\ m_back' = forward(m_back) /\ m_size' = m_size + 1
  /\ m_size < MaxSize /\ m_back \in Cell /\ UNCHANGED <<m_front, spilt>>
  /\ Called("pushTail", <<v>>)

\* pushTail, and placementPushTail with what its caller writes.
pushTail(v) ==
  /\ ~ full /\ m_back \in Cell
  /\ m_data' = [m_data EXCEPT ![m_back] = v]
  /\ m_back' = forward(m_back) /\ m_size' = m_size + 1
  /\ UNCHANGED <<m_front, spilt>> /\ Called("pushTail", <<v>>)

\* The same call when m_back is no slot.  What lies behind the array are the
\* indices of the queue: nothing is known of it from then on.
pushBehind(v) ==
  /\ ~ full /\ m_back = MaxSize
  /\ spilt' = TRUE
  /\ UNCHANGED <<m_data, m_front, m_back, m_size>> /\ Called("pushTail", <<v>>)

\* pushHead, and placementPushHead.
pushHead(v) ==
  /\ ~ full
  /\ m_front' = backward(m_front)
  /\ m_data' = [m_data EXCEPT ![m_front'] = v]
  /\ m_size' = m_size + 1
  /\ UNCHANGED <<m_back, spilt>> /\ Called("pushHead", <<v>>)

popTail ==
  /\ ~ empty
  /\ m_back' = backward(m_back) /\ m_size' = m_size - 1
  /\ UNCHANGED <<m_data, m_front, spilt>> /\ Called("popTail", <<m_data[m_back']>>)

popHead ==
  /\ ~ empty
  /\ m_front' = forward(m_front) /\ m_size' = m_size - 1
  /\ UNCHANGED <<m_data, m_back, spilt>> /\ Called("popHead", <<m_data[m_front]>>)

clear ==
  /\ m_front' = 0 /\ m_back' = 0 /\ m_size' = 0
  /\ UNCHANGED <<m_data, spilt>> /\ Called("clear", <<>>)

placementResize(n) ==
  /\ m_front' = 0 /\ m_back' = n /\ m_size' = n
  /\ UNCHANGED <<m_data, spilt>> /\ Called("placementResize", <<>>)

QueueCalls ==
  \/ \E v \in Value : pushTail(v) \/ pushBehind(v) \/ pushHead(v)
  \/ popTail \/ popHead \/ clear
  \/ \E n \in NewSizes : placementResize(n)

QueueNext == (~ spilt /\ QueueCalls) \/ (spilt /\ UNCHANGED queueState)

QueueSpec == QueueInit /\ [][QueueNext]_queueState

------------------------------------------------------------------------------
\* operator[]: the elements in their order.
element(i) == m_data[(i + m_front) % MaxSize]
Contents == [i \in 1 .. m_size |-> element(i - 1)]

\* The two ends and the size agree.
EndsAgree == m_back % MaxSize = (m_front + m_size) % MaxSize

AsDeque == INSTANCE Deque WITH Item <- Value, Bound <- MaxSize, items <- Contents

\* A push at the tail that does not reach the array.
Spills == ~ full /\ m_back = MaxSize /\ call'.op = "pushTail"

\* Wherever it wraps, the queue is one with two ends: what is pushed at an end
\* is returned there first, nothing is overwritten or comes back (pushTail,
\* pushHead, popTail, popHead, placementResize).  The one step that is excused
\* is a pushTail while m_back still is what a resize to MaxSize made it.
ImplementsDeque == AsDeque!DequeInit /\ [][AsDeque!DequeNext \/ Spills]_<<Contents, call>>

\* Whatever calls the assertions allow, items are written to slots of the array:
\* placementResize asserts size <= MaxSize and pushTail that there is room
\* (FixedCircularQueue.hpp:33).
WritesInArray == ~ spilt
=============================================================================
