---------------------------- MODULE DevicesProofs ---------------------------
(***************************************************************************)
(* What the engine builds on the graphics device and the decoders, for any *)
(* sizes, times and numbers of things: the circular queue, the batches of  *)
(* the 2D renderer, the loop of a music, the keys held down, what a video  *)
(* shows, the swap chain, and the caches of a laser.                       *)
(***************************************************************************)
EXTENDS CircularQueue, BatchRenderer, MusicStream, Keyboard, VideoDecoder, SwapChain,
        BentLaser, SequenceTheorems, WellFoundedInduction, TLAPS

------------------------------------------------------------------------------
(* For every capacity and every item, a circular queue implements a queue   *)
(* with two ends: its elements, read from m_front on and round the end of   *)
(* the array, change as the items of Deque do.                              *)

QInv == QueueTypeOK /\ EndsAgree

\* The slot i places behind the slot f, without the remainder.
SlotBehind(f, i) == IF i + f < MaxSize THEN i + f ELSE i + f - MaxSize

\* An index that has gone round the end at most once.
LEMMA Wrap ==
  ASSUME NEW f \in Cell, NEW i \in 0 .. MaxSize
  PROVE  (i + f) % MaxSize = SlotBehind(f, i) /\ SlotBehind(f, i) \in Cell
<1> DEFINE x == i + f
<1>1. x \in Nat /\ x < 2 * MaxSize
  BY QueueAssumption, SMT DEF Cell
<1> HIDE DEF x
<1>2. CASE x < MaxSize
  BY <1>1, <1>2, QueueAssumption, SMT DEF SlotBehind, Cell, x
<1>3. CASE x >= MaxSize
  <2>1. x % MaxSize = x - MaxSize
    BY <1>1, <1>3, QueueAssumption, SMT
  <2> QED BY <1>1, <1>3, <2>1, QueueAssumption, SMT DEF SlotBehind, Cell, x
<1> QED BY <1>1, <1>2, <1>3, QueueAssumption, SMT

\* The slots next to a slot.
LEMMA NextCell ==
  ASSUME NEW f \in Cell
  PROVE  /\ forward(f) = IF f + 1 < MaxSize THEN f + 1 ELSE 0
         /\ backward(f) = IF f = 0 THEN MaxSize - 1 ELSE f - 1
<1>1. (1 + f) % MaxSize = SlotBehind(f, 1)
  BY Wrap, QueueAssumption, SMT
<1>2. (MaxSize - 1 + f) % MaxSize = SlotBehind(f, MaxSize - 1)
  BY Wrap, QueueAssumption, SMT
<1>3. f + 1 = 1 + f /\ f + MaxSize - 1 = MaxSize - 1 + f
  BY QueueAssumption, SMT DEF Cell
<1> QED BY <1>1, <1>2, <1>3, QueueAssumption, SMT DEF SlotBehind, forward, backward, Cell

LEMMA ElementAt ==
  ASSUME QueueTypeOK, NEW i \in 0 .. MaxSize
  PROVE  element(i) = m_data[SlotBehind(m_front, i)] /\ SlotBehind(m_front, i) \in Cell
BY Wrap DEF element, QueueTypeOK

LEMMA ElementAtNext ==
  ASSUME QueueTypeOK', NEW i \in 0 .. MaxSize
  PROVE  element(i)' = m_data'[SlotBehind(m_front', i)] /\ SlotBehind(m_front', i) \in Cell
BY Wrap DEF element, QueueTypeOK

\* m_back is the slot behind the last item, or 0 is when m_back is behind the array.
BackSlot(b) == IF b = MaxSize THEN 0 ELSE b

LEMMA BackSlotIs ==
  ASSUME NEW b \in 0 .. MaxSize PROVE BackSlot(b) = b % MaxSize /\ BackSlot(b) \in Cell
<1>1. CASE b < MaxSize
  BY <1>1, QueueAssumption, SMT DEF BackSlot, Cell
<1>2. CASE b = MaxSize
  <2>1. b % MaxSize = 0
    BY <1>2, QueueAssumption, SMT
  <2> QED BY <1>2, <2>1, QueueAssumption, SMT DEF BackSlot, Cell
<1> QED BY <1>1, <1>2, QueueAssumption, SMT

LEMMA BackIs ==
  ASSUME QInv PROVE BackSlot(m_back) = SlotBehind(m_front, m_size)
<1>1. m_size + m_front = m_front + m_size
  BY QueueAssumption, SMT DEF QInv, QueueTypeOK, Cell
<1> QED BY <1>1, Wrap, BackSlotIs DEF QInv, EndsAgree, QueueTypeOK

LEMMA BackIsNext ==
  ASSUME QInv' PROVE BackSlot(m_back') = SlotBehind(m_front', m_size')
<1>1. m_size' + m_front' = m_front' + m_size'
  BY QueueAssumption, SMT DEF QInv, QueueTypeOK, Cell
<1> QED BY <1>1, Wrap, BackSlotIs DEF QInv, EndsAgree, QueueTypeOK

LEMMA EndsAgreeIf ==
  ASSUME QueueTypeOK', BackSlot(m_back') = SlotBehind(m_front', m_size') PROVE EndsAgree'
<1>1. m_size' + m_front' = m_front' + m_size'
  BY QueueAssumption, SMT DEF QueueTypeOK, Cell
<1> QED BY <1>1, Wrap, BackSlotIs DEF EndsAgree, QueueTypeOK

------------------------------------------------------------------------------
(* The two ends and the size agree: the inductive invariant. *)

LEMMA InitQInv == ASSUME QueueInit PROVE QInv
  BY QueueAssumption, SMT DEF QueueInit, QInv, QueueTypeOK, EndsAgree, Cell

LEMMA TailQInv == ASSUME QInv, NEW v \in Value, pushTail(v) PROVE QInv'
<1>1. m_back' = IF m_back + 1 < MaxSize THEN m_back + 1 ELSE 0
  BY NextCell DEF pushTail, QInv, QueueTypeOK
<1>2. m_size < MaxSize /\ m_size' = m_size + 1 /\ m_front' = m_front
  BY QueueAssumption, SMT DEF pushTail, full, QInv, QueueTypeOK
<1>3. QueueTypeOK'
  BY <1>1, <1>2, QueueAssumption, SMT DEF pushTail, QInv, QueueTypeOK, Cell
<1>4. BackSlot(m_back') = SlotBehind(m_front', m_size')
  <2>1. m_back = SlotBehind(m_front, m_size) /\ m_back \in Cell
    BY BackIs, QueueAssumption, SMT DEF pushTail, BackSlot, Cell
  <2>2. m_back' = SlotBehind(m_front', m_size') /\ m_back' < MaxSize
    BY <1>1, <1>2, <2>1, QueueAssumption, SMT DEF SlotBehind, QInv, QueueTypeOK, Cell
  <2>3. m_back' # MaxSize
    BY <1>3, <2>2, QueueAssumption, SMT DEF QueueTypeOK
  <2> QED BY <2>2, <2>3 DEF BackSlot
<1> QED BY <1>3, <1>4, EndsAgreeIf DEF QInv

LEMMA HeadQInv == ASSUME QInv, NEW v \in Value, pushHead(v) PROVE QInv'
<1>1. m_front' = IF m_front = 0 THEN MaxSize - 1 ELSE m_front - 1
  BY NextCell DEF pushHead, QInv, QueueTypeOK
<1>2. m_size < MaxSize /\ m_size' = m_size + 1 /\ m_back' = m_back
  BY QueueAssumption, SMT DEF pushHead, full, QInv, QueueTypeOK
<1>3. QueueTypeOK'
  BY <1>1, <1>2, QueueAssumption, SMT DEF pushHead, QInv, QueueTypeOK, Cell
<1>4. BackSlot(m_back') = SlotBehind(m_front', m_size')
  BY <1>1, <1>2, BackIs, QueueAssumption, SMT DEF BackSlot, SlotBehind, QInv, QueueTypeOK, Cell
<1> QED BY <1>3, <1>4, EndsAgreeIf DEF QInv

LEMMA PopTailQInv == ASSUME QInv, popTail PROVE QInv'
<1>1. m_back' = IF m_back = 0 THEN MaxSize - 1 ELSE m_back - 1
  <2>1. CASE m_back = MaxSize
    <3>1. backward(MaxSize) = (MaxSize - 1 + MaxSize) % MaxSize
      BY QueueAssumption, SMT DEF backward
    <3>2. (MaxSize - 1 + MaxSize) % MaxSize = MaxSize - 1
      BY QueueAssumption, SMT
    <3>3. MaxSize # 0
      BY QueueAssumption
    <3> QED BY <2>1, <3>1, <3>2, <3>3 DEF popTail
  <2>2. CASE m_back # MaxSize
    <3>1. m_back \in Cell
      BY <2>2, QueueAssumption, SMT DEF QInv, QueueTypeOK, Cell
    <3> QED BY <3>1, NextCell DEF popTail
  <2> QED BY <2>1, <2>2
<1>2. m_size > 0 /\ m_size' = m_size - 1 /\ m_front' = m_front /\ m_data' = m_data
  BY QueueAssumption, SMT DEF popTail, empty, QInv, QueueTypeOK
<1>3. QueueTypeOK'
  BY <1>1, <1>2, QueueAssumption, SMT DEF QInv, QueueTypeOK, Cell
<1>4. BackSlot(m_back') = SlotBehind(m_front', m_size')
  BY <1>1, <1>2, BackIs, QueueAssumption, SMT DEF BackSlot, SlotBehind, QInv, QueueTypeOK, Cell
<1> QED BY <1>3, <1>4, EndsAgreeIf DEF QInv

LEMMA PopHeadQInv == ASSUME QInv, popHead PROVE QInv'
<1>1. m_front' = IF m_front + 1 < MaxSize THEN m_front + 1 ELSE 0
  BY NextCell DEF popHead, QInv, QueueTypeOK
<1>2. m_size > 0 /\ m_size' = m_size - 1 /\ m_back' = m_back /\ m_data' = m_data
  BY QueueAssumption, SMT DEF popHead, empty, QInv, QueueTypeOK
<1>3. QueueTypeOK'
  BY <1>1, <1>2, QueueAssumption, SMT DEF QInv, QueueTypeOK, Cell
<1>4. BackSlot(m_back') = SlotBehind(m_front', m_size')
  BY <1>1, <1>2, BackIs, QueueAssumption, SMT DEF BackSlot, SlotBehind, QInv, QueueTypeOK, Cell
<1> QED BY <1>3, <1>4, EndsAgreeIf DEF QInv

LEMMA ResizeQInv == ASSUME QInv, NEW n \in NewSizes, placementResize(n) PROVE QInv'
<1>1. n \in 0 .. MaxSize
  BY QueueAssumption
<1>2. QueueTypeOK'
  BY <1>1, QueueAssumption, SMT DEF placementResize, QInv, QueueTypeOK, Cell
<1>3. BackSlot(m_back') = SlotBehind(m_front', m_size')
  BY <1>1, QueueAssumption, SMT DEF placementResize, SlotBehind, BackSlot
<1> QED BY <1>2, <1>3, EndsAgreeIf DEF QInv

LEMMA StepQInv ==
  ASSUME ~ spilt => QInv, [QueueNext]_queueState PROVE (~ spilt => QInv)'
<1>1. ASSUME QInv, clear PROVE QInv'
  BY <1>1, QueueAssumption, SMT DEF clear, QInv, QueueTypeOK, EndsAgree, Cell
<1>2. ASSUME UNCHANGED queueState PROVE (~ spilt => QInv)'
  BY <1>2 DEF queueState, QInv, QueueTypeOK, EndsAgree
<1>3. ASSUME ~ spilt, QueueCalls PROVE QInv' \/ spilt'
  <2>1. ASSUME NEW v \in Value, pushBehind(v) PROVE spilt'
    BY <2>1 DEF pushBehind
  <2> QED
    BY <1>1, <1>3, <2>1, TailQInv, HeadQInv, PopTailQInv, PopHeadQInv, ResizeQInv DEF QueueCalls
<1> QED BY <1>2, <1>3 DEF QueueNext

------------------------------------------------------------------------------
(* Each function is a step of the abstract queue. *)

LEMMA ContentsAreItems ==
  ASSUME QInv PROVE Contents \in Seq(Value) /\ Len(Contents) = m_size
<1>1. \A i \in 1 .. m_size : element(i - 1) \in Value
  <2> TAKE i \in 1 .. m_size
  <2>1. i - 1 \in 0 .. MaxSize
    BY QueueAssumption, SMT DEF QInv, QueueTypeOK
  <2> QED BY <2>1, ElementAt DEF QInv, QueueTypeOK
<1> QED BY <1>1, SMT DEF Contents, QInv, QueueTypeOK

LEMMA TailAppends ==
  ASSUME QInv, NEW v \in Value, pushTail(v) PROVE AsDeque!PushesTail
<1>0. QInv' /\ QueueTypeOK /\ QueueTypeOK'
  BY TailQInv DEF QInv
<1>1. m_size < MaxSize /\ m_size' = m_size + 1 /\ m_front' = m_front /\ m_size \in Nat
  BY QueueAssumption, SMT DEF pushTail, full, QInv, QueueTypeOK
<1>2. m_data' = [m_data EXCEPT ![m_back] = v] /\ m_back \in Cell /\ BackSlot(m_back) = m_back
  BY QueueAssumption, SMT DEF pushTail, BackSlot, Cell
<1>3. ASSUME NEW i \in 1 .. m_size PROVE element(i - 1)' = element(i - 1)
  <2>1. i - 1 \in 0 .. MaxSize
    BY <1>1, QueueAssumption, SMT
  <2>2. SlotBehind(m_front, i - 1) # m_back
    BY <1>1, <1>2, BackIs, QueueAssumption, SMT DEF SlotBehind, QInv, QueueTypeOK, Cell, BackSlot
  <2>3. m_data'[SlotBehind(m_front, i - 1)] = m_data[SlotBehind(m_front, i - 1)]
    BY <1>0, <1>2, <2>1, <2>2, ElementAt DEF QueueTypeOK
  <2> QED BY <1>0, <1>1, <2>1, <2>3, ElementAt, ElementAtNext
<1>4. ASSUME NEW i \in Nat, i = m_size PROVE element(i)' = v
  <2>1. i \in 0 .. MaxSize
    BY <1>1, <1>4, QueueAssumption, SMT
  <2>2. m_data'[m_back] = v
    BY <1>0, <1>2 DEF QueueTypeOK
  <2>3. m_back = SlotBehind(m_front', i)
    BY <1>1, <1>2, <1>4, BackIs
  <2>4. element(i)' = m_data'[SlotBehind(m_front', i)]
    BY <1>0, <2>1, ElementAtNext
  <2> QED BY <2>2, <2>3, <2>4
<1>5. \A i \in 1 .. m_size + 1 : element(i - 1)' = IF i <= m_size THEN element(i - 1) ELSE v
  <2> TAKE i \in 1 .. m_size + 1
  <2>1. CASE i <= m_size
    BY <2>1, <1>1, <1>3, SMT
  <2>2. CASE i = m_size + 1
    <3>1. i - 1 \in Nat /\ i - 1 = m_size
      BY <2>2, <1>1, SMT
    <3> QED BY <3>1, <2>2, <1>4, <1>1, SMT
  <2> QED BY <2>1, <2>2, <1>1, SMT
<1>6. Contents' = Append(Contents, v)
  <2>1. /\ Contents' = [i \in 1 .. m_size + 1 |-> element(i - 1)']
        /\ Contents = [i \in 1 .. m_size |-> element(i - 1)]
    BY <1>1 DEF Contents
  <2>2. Contents' = [i \in 1 .. m_size + 1 |-> IF i <= m_size THEN Contents[i] ELSE v]
    BY <2>1, <1>1, <1>5, SMT
  <2> DEFINE c == Contents
             d == [i \in 1 .. m_size + 1 |-> IF i <= m_size THEN c[i] ELSE v]
  <2>3. c \in Seq(Value) /\ Len(c) = m_size
    BY ContentsAreItems
  <2> HIDE DEF c
  <2>4. d \in Seq(Value) /\ Len(d) = m_size + 1
    BY <2>3, <1>1, ElementOfSeq, SMT
  <2>5. \A i \in 1 .. Len(d) : d[i] = Append(c, v)[i]
    BY <2>3, <2>4, <1>1, AppendProperties, SMT
  <2>6. d = Append(c, v)
    <3> HIDE DEF d
    <3> QED BY <2>3, <2>4, <2>5, AppendProperties, SeqEqual
  <2> QED BY <2>2, <2>6 DEF c
<1>7. AsDeque!HasRoom
  BY <1>1, ContentsAreItems, SMT DEF AsDeque!HasRoom
<1> QED BY <1>6, <1>7 DEF pushTail, Called, AsDeque!PushesTail, AsDeque!Called

LEMMA HeadPrepends ==
  ASSUME QInv, NEW v \in Value, pushHead(v) PROVE AsDeque!PushesHead
<1>0. QInv' /\ QueueTypeOK /\ QueueTypeOK'
  BY HeadQInv DEF QInv
<1>1. m_size < MaxSize /\ m_size' = m_size + 1 /\ m_size \in Nat
  BY QueueAssumption, SMT DEF pushHead, full, QInv, QueueTypeOK
<1>2. /\ m_front' = IF m_front = 0 THEN MaxSize - 1 ELSE m_front - 1
      /\ m_data' = [m_data EXCEPT ![m_front'] = v]
  BY NextCell DEF pushHead, QInv, QueueTypeOK
<1>3. ASSUME NEW i \in 1 .. m_size PROVE element(i)' = element(i - 1)
  <2>1. i \in 0 .. MaxSize /\ i - 1 \in 0 .. MaxSize
    BY <1>1, QueueAssumption, SMT
  <2>2. SlotBehind(m_front', i) = SlotBehind(m_front, i - 1) /\ SlotBehind(m_front, i - 1) # m_front'
    BY <1>1, <1>2, QueueAssumption, SMT DEF SlotBehind, QInv, QueueTypeOK, Cell
  <2>3. m_data'[SlotBehind(m_front, i - 1)] = m_data[SlotBehind(m_front, i - 1)]
    BY <1>0, <1>2, <2>1, <2>2, ElementAt DEF QueueTypeOK
  <2>4. element(i)' = m_data'[SlotBehind(m_front', i)]
    BY <1>0, <2>1, ElementAtNext
  <2>5. element(i - 1) = m_data[SlotBehind(m_front, i - 1)]
    BY <1>0, <2>1, ElementAt
  <2> QED BY <2>2, <2>3, <2>4, <2>5
<1>4. element(0)' = v
  <2>1. 0 \in 0 .. MaxSize /\ SlotBehind(m_front', 0) = m_front'
    <3>1. m_front' \in Cell
      BY <1>0 DEF QueueTypeOK
    <3>2. \A f \in Cell : SlotBehind(f, 0) = f
      BY QueueAssumption, SMT DEF SlotBehind, Cell
    <3>3. SlotBehind(m_front', 0) = m_front'
      BY <3>1, <3>2, Zenon
    <3>4. 0 \in 0 .. MaxSize
      BY QueueAssumption, SMT
    <3> QED BY <3>3, <3>4
  <2>2. m_data'[m_front'] = v
    BY <1>0, <1>2 DEF QueueTypeOK
  <2> QED BY <1>0, <2>1, <2>2, ElementAtNext
<1>5. \A i \in 1 .. m_size + 1 : element(i - 1)' = IF i = 1 THEN v ELSE element(i - 2)
  <2> TAKE i \in 1 .. m_size + 1
  <2>1. CASE i = 1
    <3>1. i - 1 = 0
      BY <2>1, SMT
    <3> QED BY <2>1, <3>1, <1>4
  <2>2. CASE i # 1
    <3>1. i - 1 \in 1 .. m_size /\ (i - 1) - 1 = i - 2
      BY <2>2, <1>1, SMT
    <3> QED BY <3>1, <2>2, <1>3
  <2> QED BY <2>1, <2>2
<1>6. Contents' = <<v>> \o Contents
  <2>1. /\ Contents' = [i \in 1 .. m_size + 1 |-> element(i - 1)']
        /\ Contents = [i \in 1 .. m_size |-> element(i - 1)]
    BY <1>1 DEF Contents
  <2>2. ASSUME NEW i \in 1 .. m_size + 1, i # 1
        PROVE  Contents[i - 1] = element(i - 2)
    <3>1. i - 1 \in 1 .. m_size /\ (i - 1) - 1 = i - 2
      BY <2>2, <1>1, SMT
    <3> QED BY <2>1, <3>1
  <2>3. Contents' = [i \in 1 .. m_size + 1 |-> IF i = 1 THEN v ELSE Contents[i - 1]]
    BY <2>1, <2>2, <1>5
  <2> QED BY <2>3, <1>1, ContentsAreItems, SMT
<1>7. AsDeque!HasRoom
  BY <1>1, ContentsAreItems, SMT DEF AsDeque!HasRoom
<1> QED BY <1>6, <1>7 DEF pushHead, Called, AsDeque!PushesHead, AsDeque!Called

LEMMA TailIsPopped == ASSUME QInv, popTail PROVE AsDeque!PopsTail
<1>1. /\ m_size > 0 /\ m_size \in Nat /\ m_size' = m_size - 1
      /\ UNCHANGED <<m_data, m_front>>
  BY QueueAssumption, SMT DEF popTail, empty, QInv, QueueTypeOK
<1>2. Contents' = [i \in 1 .. m_size - 1 |-> element(i - 1)]
  BY <1>1 DEF Contents, element
<1>3. Contents' = SubSeq(Contents, 1, Len(Contents) - 1)
  BY <1>1, <1>2, ContentsAreItems, SMT DEF Contents
<1>4. m_data[m_back'] = Contents[Len(Contents)] /\ Contents # <<>>
  <2>1. m_size - 1 \in 0 .. MaxSize /\ m_size \in 1 .. m_size
    BY <1>1, QueueAssumption, SMT DEF QInv, QueueTypeOK
  <2>2. m_back' = SlotBehind(m_front, m_size - 1)
    <3>1. m_back' = backward(m_back) /\ BackSlot(m_back') = SlotBehind(m_front, m_size - 1)
      BY <1>1, PopTailQInv, BackIsNext DEF popTail
    <3>2. m_back' # MaxSize
      BY <3>1, QueueAssumption, SMT DEF backward, QInv, QueueTypeOK
    <3> QED BY <3>1, <3>2 DEF BackSlot
  <2>3. Contents[m_size] = element(m_size - 1)
    BY <2>1 DEF Contents
  <2>4. Contents # <<>>
    BY <1>1, ContentsAreItems, SMT
  <2> QED BY <2>1, <2>2, <2>3, <2>4, ContentsAreItems, ElementAt DEF QInv
<1> QED BY <1>3, <1>4 DEF popTail, Called, AsDeque!PopsTail, AsDeque!Called

LEMMA TailOfSequence ==
  ASSUME NEW S, NEW s \in Seq(S), Len(s) > 0
  PROVE  Tail(s) = [i \in 1 .. Len(s) - 1 |-> s[i + 1]]
<1> DEFINE t == [i \in 1 .. Len(s) - 1 |-> s[i + 1]]
<1>1. t \in Seq(S) /\ Len(t) = Len(s) - 1
  BY ElementOfSeq, SMT
<1>2. s # << >>
  BY SMT
<1>3. \A i \in 1 .. Len(t) : t[i] = Tail(s)[i]
  BY <1>1, <1>2, HeadTailProperties, SMT
<1> HIDE DEF t
<1>4. t = Tail(s)
  BY <1>1, <1>2, <1>3, HeadTailProperties, SeqEqual
<1> QED BY <1>4 DEF t

LEMMA HeadIsPopped == ASSUME QInv, popHead PROVE AsDeque!PopsHead
<1>0. QInv' /\ QueueTypeOK /\ QueueTypeOK'
  BY PopHeadQInv DEF QInv
<1>1. m_size > 0 /\ m_size \in 0 .. MaxSize /\ m_size' = m_size - 1 /\ UNCHANGED m_data
  BY QueueAssumption, SMT DEF popHead, empty, QInv, QueueTypeOK
<1>2. m_front' = IF m_front + 1 < MaxSize THEN m_front + 1 ELSE 0
  BY NextCell DEF popHead, QInv, QueueTypeOK
<1>3. \A i \in 1 .. m_size - 1 : element(i - 1)' = element(i)
  <2> TAKE i \in 1 .. m_size - 1
  <2>1. i \in 0 .. MaxSize /\ i - 1 \in 0 .. MaxSize
    BY <1>1, QueueAssumption, SMT
  <2>2. SlotBehind(m_front', i - 1) = SlotBehind(m_front, i)
    BY <1>1, <1>2, QueueAssumption, SMT DEF SlotBehind, QInv, QueueTypeOK, Cell
  <2> QED BY <1>0, <1>1, <2>1, <2>2, ElementAt, ElementAtNext
<1>4. Contents' = Tail(Contents)
  <2>1. /\ Contents' = [i \in 1 .. m_size - 1 |-> element(i - 1)']
        /\ Contents = [i \in 1 .. m_size |-> element(i - 1)]
    BY <1>1 DEF Contents
  <2>2. ASSUME NEW i \in 1 .. m_size - 1 PROVE Contents[i + 1] = element(i)
    <3>1. i + 1 \in 1 .. m_size /\ (i + 1) - 1 = i
      BY <1>1, SMT
    <3> QED BY <2>1, <3>1
  <2>3. Contents' = [i \in 1 .. m_size - 1 |-> Contents[i + 1]]
    BY <2>1, <2>2, <1>3
  <2> QED BY <2>3, <1>1, ContentsAreItems, TailOfSequence
<1>5. Contents # <<>>
  BY <1>1, ContentsAreItems, SMT
<1>6. m_data[m_front] = Contents[1]
  <2>1. 0 \in 0 .. MaxSize /\ 1 \in 1 .. m_size /\ 1 - 1 = 0
    BY <1>1, QueueAssumption, SMT
  <2>2. \A f \in Cell : SlotBehind(f, 0) = f
    BY QueueAssumption, SMT DEF SlotBehind, Cell
  <2>3. Contents[1] = element(0)
    BY <2>1 DEF Contents
  <2> QED BY <1>0, <2>1, <2>2, <2>3, ElementAt DEF QueueTypeOK
<1> QED BY <1>4, <1>5, <1>6 DEF popHead, Called, AsDeque!PopsHead, AsDeque!Called

LEMMA SizeIsSet ==
  ASSUME QInv, NEW n \in NewSizes, placementResize(n) PROVE AsDeque!Resizes
<1>0. QueueTypeOK'
  BY ResizeQInv DEF QInv
<1>1. m_size' = n /\ n \in 0 .. MaxSize
  BY QueueAssumption, SMT DEF placementResize
<1>2. \A i \in 1 .. n : element(i - 1)' \in Value
  <2> TAKE i \in 1 .. n
  <2>1. i - 1 \in 0 .. MaxSize
    BY <1>1, QueueAssumption, SMT
  <2> QED BY <1>0, <2>1, ElementAtNext DEF QueueTypeOK
<1>3. Contents' \in [1 .. n -> Value]
  BY <1>1, <1>2 DEF Contents
<1> QED BY <1>1, <1>3 DEF placementResize, Called, AsDeque!Resizes, AsDeque!Called

LEMMA StepImplements ==
  ASSUME ~ spilt => QInv, [QueueNext]_queueState
  PROVE  [AsDeque!DequeNext \/ Spills]_<<Contents, call>>
<1>1. ASSUME clear PROVE AsDeque!Clears
  BY <1>1, SMT DEF clear, Contents, Called, AsDeque!Clears, AsDeque!Called
<1>2. ASSUME UNCHANGED queueState PROVE UNCHANGED <<Contents, call>>
  BY <1>2 DEF queueState, Contents, element
<1>3. ASSUME NEW v \in Value, pushBehind(v) PROVE Spills
  BY <1>3 DEF pushBehind, Called, Spills
<1>4. ASSUME ~ spilt, QueueCalls PROVE AsDeque!DequeNext \/ Spills
  BY <1>1, <1>3, <1>4, TailAppends, HeadPrepends, TailIsPopped, HeadIsPopped, SizeIsSet
  DEF QueueCalls, AsDeque!DequeNext
<1> QED BY <1>2, <1>4 DEF QueueNext

\* Whatever the capacity and wherever the queue wraps, pushes and pops at both
\* ends, clear and resizes, also to the whole array, are those of a queue with two
\* ends, but for a push at the tail that m_back leads out of the array
\* (FixedCircularQueue).
THEOREM QueueImplementsDeque == QueueSpec => ImplementsDeque
<1>1. QueueInit => AsDeque!DequeInit
  BY SMT DEF QueueInit, Contents, AsDeque!DequeInit
<1> QED
  BY <1>1, InitQInv, StepQInv, StepImplements, PTL DEF QueueSpec, ImplementsDeque

------------------------------------------------------------------------------
(* The batches of the 2D renderer.  Ready says that what is pending is what *)
(* lies between begin and current and that the device reads only before     *)
(* current; BatchInv adds that the device follows the settings of an open   *)
(* scene, so that what is pending will be painted as the script saw it.     *)

\* A sequence, of whatever it holds.
IsSeq(s) == s \in Seq({s[i] : i \in DOMAIN s})

LEMMA SeqOfAny == ASSUME NEW S, NEW s \in Seq(S) PROVE IsSeq(s)
<1>1. Len(s) \in Nat /\ DOMAIN s = 1 .. Len(s) /\ s = [i \in 1 .. Len(s) |-> s[i]]
  OBVIOUS
<1> DEFINE T == {s[i] : i \in DOMAIN s}
<1>2. \A i \in 1 .. Len(s) : s[i] \in T
  BY <1>1
<1> HIDE DEF T
<1>3. s \in Seq(T)
  BY <1>1, <1>2
<1> QED BY <1>3 DEF IsSeq, T

LEMMA JoinAny ==
  ASSUME NEW s, NEW t, IsSeq(s), IsSeq(t)
  PROVE  \E S : s \in Seq(S) /\ t \in Seq(S)
<1> DEFINE A == {s[i] : i \in DOMAIN s}
           B == {t[i] : i \in DOMAIN t}
<1>1. s \in Seq(A) /\ t \in Seq(B)
  BY DEF IsSeq
<1> HIDE DEF A, B
<1>2. s \in Seq(A \cup B) /\ t \in Seq(A \cup B)
  BY <1>1
<1> QED BY <1>2

LEMMA JoinIsSeq ==
  ASSUME NEW s, NEW t, IsSeq(s), IsSeq(t)
  PROVE  IsSeq(s \o t)
<1>1. PICK S : s \in Seq(S) /\ t \in Seq(S)
  BY JoinAny
<1>2. s \o t \in Seq(S)
  BY <1>1
<1> QED BY <1>2, SeqOfAny

LEMMA JoinEmpty ==
  ASSUME NEW s, IsSeq(s)
  PROVE  s \o << >> = s
BY DEF IsSeq

\* Painting one more after what is painted and pending.
LEMMA JoinAppend ==
  ASSUME NEW s, NEW t, NEW x, IsSeq(s), IsSeq(t)
  PROVE  s \o Append(t, x) = Append(s \o t, x)
<1>1. PICK S : s \in Seq(S) /\ t \in Seq(S)
  BY JoinAny
<1> DEFINE T == S \cup {x}
<1>2. s \in Seq(T) /\ t \in Seq(T) /\ x \in T
  BY <1>1
<1> HIDE DEF T
<1>3. Append(t, x) = t \o <<x>> /\ Append(s \o t, x) = (s \o t) \o <<x>>
  <2>1. s \o t \in Seq(T)
    BY <1>2
  <2> QED BY <1>2, <2>1, AppendIsConcat
<1>4. <<x>> \in Seq(T)
  BY <1>2
<1>5. (s \o t) \o <<x>> = s \o (t \o <<x>>)
  BY <1>2, <1>4, ConcatAssociative
<1> QED BY <1>3, <1>5

LEMMA OneMoreIsSeq ==
  ASSUME NEW s, NEW x, IsSeq(s)
  PROVE  IsSeq(Append(s, x))
<1>1. PICK S : s \in Seq(S)
  BY DEF IsSeq
<1> DEFINE T == S \cup {x}
<1>2. s \in Seq(T) /\ x \in T
  <2>1. s \in [1 .. Len(s) -> S] /\ Len(s) \in Nat
    BY <1>1
  <2> QED BY <2>1
<1> HIDE DEF T
<1>3. Append(s, x) \in Seq(T)
  BY <1>2
<1> QED BY <1>3, SeqOfAny

------------------------------------------------------------------------------
Buffers == [open : BOOLEAN, cycle : BOOLEAN, begin : Nat, current : 0 .. Capacity,
            pending : Seq(Int), busy : SUBSET Int, clobbered : {FALSE}]

\* What is pending lies between begin and current, and the device reads only
\* what lies before current.
Ready(p) ==
  /\ p \in Buffers /\ p.begin <= p.current
  /\ p.busy \subseteq 0 .. p.current - 1
  /\ p.pending = << >> <=> p.begin = p.current

\* Nothing is pending.
Idle(p) == Ready(p) /\ p.pending = << >>

LEMMA NothingPending == << >> \in Seq(Int)
BY EmptySeq

LEMMA BuffersFields ==
  ASSUME NEW p \in Buffers
  PROVE  /\ p.open \in BOOLEAN /\ p.cycle \in BOOLEAN /\ p.begin \in Nat
         /\ p.current \in 0 .. Capacity /\ p.current \in Nat /\ p.current <= Capacity
         /\ p.pending \in Seq(Int) /\ p.busy \in SUBSET Int /\ p.clobbered = FALSE
<1>1. /\ p.open \in BOOLEAN /\ p.cycle \in BOOLEAN /\ p.begin \in Nat
      /\ p.current \in 0 .. Capacity
      /\ p.pending \in Seq(Int) /\ p.busy \in SUBSET Int /\ p.clobbered \in {FALSE}
  BY DEF Buffers
<1>2. p.current \in Nat /\ p.current <= Capacity
  BY <1>1, BatchAssumption
<1> QED BY <1>1, <1>2

LEMMA IdleWhen ==
  ASSUME NEW p \in Buffers, p.begin = p.current, p.pending = << >>,
         p.busy \subseteq 0 .. p.current - 1
  PROVE  Idle(p)
<1>1. p.current \in Nat
  BY BuffersFields
<1>2. p.begin <= p.current
  BY <1>1
<1> QED BY <1>2 DEF Idle, Ready

LEMMA CycledIdle ==
  ASSUME NEW p \in Buffers
  PROVE  Idle(Cycled(p)) /\ Cycled(p).open = p.open /\ Cycled(p).current = 0
<1> DEFINE q == Cycled(p)
<1>1. q \in Buffers /\ q.begin = 0 /\ q.current = 0 /\ q.pending = << >> /\ q.busy = {}
      /\ q.open = p.open
  <2>1. 0 \in 0 .. Capacity /\ {} \in SUBSET Int /\ 0 \in Nat
    BY BatchAssumption
  <2> QED BY NothingPending, <2>1 DEF Cycled, Buffers
<1> HIDE DEF q
<1>2. Idle(q)
  BY <1>1, IdleWhen
<1> QED BY <1>1, <1>2 DEF q

LEMMA DrawnIdle ==
  ASSUME NEW p, Ready(p)
  PROVE  /\ Idle(drawOnly(p)) /\ drawOnly(p).open = p.open
         /\ Idle(discard(p)) /\ discard(p).open = p.open
         /\ Idle(primEnd(p)) /\ primEnd(p).open = FALSE
<1>0. p \in Buffers /\ p.begin \in Nat /\ p.current \in 0 .. Capacity /\ p.current \in Nat
      /\ p.busy \subseteq 0 .. p.current - 1
  BY BuffersFields DEF Ready
<1>1. Drawn(p) \subseteq 0 .. p.current - 1 /\ p.busy \cup Drawn(p) \in SUBSET Int
  BY <1>0 DEF Drawn
<1> DEFINE q == drawOnly(p)
           r == discard(p)
           t == primEnd(p)
<1>2. q \in Buffers /\ q.begin = q.current /\ q.pending = << >> /\ q.open = p.open
      /\ q.busy = p.busy \cup Drawn(p) /\ q.current = p.current
  BY <1>0, <1>1, NothingPending DEF drawOnly, Buffers
<1>3. r \in Buffers /\ r.begin = r.current /\ r.pending = << >> /\ r.open = p.open
      /\ r.busy = p.busy /\ r.current = p.current
  BY <1>0, NothingPending DEF discard, Buffers
<1>4. t \in Buffers /\ t.begin = t.current /\ t.pending = << >> /\ t.open = FALSE
      /\ t.busy = q.busy /\ t.current = q.current
  <2> HIDE DEF q
  <2>1. t = [q EXCEPT !.open = FALSE]
    BY DEF primEnd, q
  <2> HIDE DEF t
  <2> QED BY <1>2, <2>1 DEF Buffers
<1> HIDE DEF q, r, t
<1>5. Idle(q)
  BY <1>0, <1>1, <1>2, IdleWhen
<1>6. Idle(r)
  BY <1>0, <1>3, IdleWhen
<1>7. Idle(t)
  BY <1>0, <1>1, <1>2, <1>4, IdleWhen
<1> QED BY <1>2, <1>3, <1>4, <1>5, <1>6, <1>7 DEF q, r, t

LEMMA BeginIdle ==
  ASSUME NEW p, Idle(p)
  PROVE  Idle(primBegin(p)) /\ primBegin(p).open = TRUE
<1> DEFINE q == IF p.cycle \/ p.current >= Capacity THEN Cycled(p) ELSE p
           r == [q EXCEPT !.open = TRUE, !.cycle = FALSE]
<1>0. p \in Buffers
  BY DEF Idle, Ready
<1>1. Idle(q)
  BY <1>0, CycledIdle
<1> HIDE DEF q
<1>2. r \in Buffers /\ r.begin = q.begin /\ r.current = q.current /\ r.pending = q.pending
      /\ r.busy = q.busy /\ r.open = TRUE
  BY <1>1 DEF Idle, Ready, Buffers
<1>3. primBegin(p) = r
  BY DEF primBegin, q
<1> HIDE DEF r
<1>4. Idle(r)
  BY <1>1, <1>2 DEF Idle, Ready
<1> QED BY <1>2, <1>3, <1>4

LEMMA CopiedReady ==
  ASSUME NEW p, Ready(p), NEW x \in Prims \cup {Effect}, p.current + Room(x) <= Capacity
  PROVE  /\ Ready(Copied(p, x)) /\ Copied(p, x).open = p.open
         /\ Copied(p, x).pending = Append(p.pending, x)
<1>0. p \in Buffers /\ p.begin \in Nat /\ p.current \in Nat /\ p.busy \subseteq 0 .. p.current - 1
      /\ p.pending \in Seq(Int) /\ p.clobbered = FALSE /\ p.begin <= p.current
  BY BuffersFields DEF Ready
<1>1. Room(x) \in Nat /\ Room(x) > 0 /\ x \in Int
  BY BatchAssumption DEF Room, Effect
<1>2. (p.current .. p.current + Room(x) - 1) \cap p.busy = {}
  BY <1>0, <1>1
<1>3. Append(p.pending, x) \in Seq(Int) /\ Append(p.pending, x) # << >>
  BY <1>0, <1>1, AppendProperties
<1> DEFINE q == Copied(p, x)
<1>4. q \in Buffers /\ q.pending = Append(p.pending, x) /\ q.current = p.current + Room(x)
      /\ q.begin = p.begin /\ q.busy = p.busy /\ q.open = p.open
  <2>1. p.current + Room(x) \in 0 .. Capacity
    BY <1>0, <1>1, BatchAssumption
  <2>2. (p.clobbered \/ (p.current .. p.current + Room(x) - 1) \cap p.busy # {}) = FALSE
    BY <1>0, <1>2
  <2>3. q = [p EXCEPT !.pending = Append(p.pending, x), !.current = p.current + Room(x),
                      !.clobbered = FALSE]
    BY <2>2 DEF Copied
  <2> HIDE DEF q
  <2> QED BY <1>0, <1>3, <2>1, <2>3 DEF Buffers
<1> HIDE DEF q
<1>5. Ready(q)
  <2>1. q.begin # q.current /\ q.begin <= q.current
    BY <1>0, <1>1, <1>4
  <2>2. q.busy \subseteq 0 .. q.current - 1
    BY <1>0, <1>1, <1>4
  <2> QED BY <1>3, <1>4, <2>1, <2>2 DEF Ready
<1> QED BY <1>4, <1>5 DEF q

------------------------------------------------------------------------------
LEMMA PaintsIsSeq ==
  ASSUME NEW p, NEW d, Ready(p)
  PROVE  IsSeq(Paints(p, d)) /\ Len(Paints(p, d)) = Len(p.pending)
<1>1. p.pending \in Seq(Int)
  BY DEF Ready, Buffers
<1> DEFINE n == Len(p.pending)
           S == {Look(p.pending[i], d, d.sampler, d.target) : i \in 1 .. n}
<1>2. n \in Nat /\ DOMAIN p.pending = 1 .. n
  BY <1>1
<1>3. Paints(p, d) = [i \in 1 .. n |-> Look(p.pending[i], d, d.sampler, d.target)]
  BY <1>2 DEF Paints
<1>4. \A i \in 1 .. n : Look(p.pending[i], d, d.sampler, d.target) \in S
  OBVIOUS
<1>5. Paints(p, d) \in [1 .. n -> S]
  <2> HIDE DEF S, n
  <2> QED BY <1>3, <1>4
<1>6. Paints(p, d) \in Seq(S) /\ Len(Paints(p, d)) = n
  <2> HIDE DEF S, n
  <2> QED BY <1>2, <1>5
<1> HIDE DEF S
<1> QED BY <1>6, SeqOfAny

LEMMA PaintsNothing ==
  ASSUME NEW p, NEW d, p.pending = << >>
  PROVE  Paints(p, d) = << >>
BY DEF Paints

LEMMA AppendAsFunction ==
  ASSUME NEW s, NEW v, IsSeq(s)
  PROVE  Append(s, v) = [i \in 1 .. Len(s) + 1 |-> IF i <= Len(s) THEN s[i] ELSE v]
<1>1. PICK S : s \in Seq(S)
  BY DEF IsSeq
<1> DEFINE T == S \cup {v}
<1>2. s \in Seq(T) /\ v \in T
  <2>1. s \in [1 .. Len(s) -> S] /\ Len(s) \in Nat
    BY <1>1
  <2> QED BY <2>1
<1> HIDE DEF T
<1>3. Append(s, v) \in Seq(T) /\ Len(Append(s, v)) = Len(s) + 1 /\ Len(s) \in Nat
      /\ Append(s, v)[Len(s) + 1] = v
      /\ \A i \in 1 .. Len(s) : Append(s, v)[i] = s[i]
  BY <1>2, AppendProperties
<1> DEFINE u == Append(s, v)
<1>4. u = [i \in 1 .. Len(u) |-> u[i]]
  <2>1. u \in Seq(T)
    BY <1>3
  <2> HIDE DEF u
  <2> QED BY <2>1
<1>5. \A i \in 1 .. Len(s) + 1 : u[i] = IF i <= Len(s) THEN s[i] ELSE v
  BY <1>3
<1> HIDE DEF u
<1> QED BY <1>3, <1>4, <1>5 DEF u

LEMMA PaintsOneMore ==
  ASSUME NEW p, NEW q, NEW d, NEW x \in Int, Ready(p), q.pending = Append(p.pending, x)
  PROVE  Paints(q, d) = Append(Paints(p, d), Look(x, d, d.sampler, d.target))
<1> DEFINE n == Len(p.pending)
           look(y) == Look(y, d, d.sampler, d.target)
<1>1. p.pending \in Seq(Int) /\ n \in Nat /\ DOMAIN p.pending = 1 .. n
  BY DEF Ready, Buffers
<1>2. q.pending \in Seq(Int) /\ Len(q.pending) = n + 1 /\ DOMAIN q.pending = 1 .. n + 1
      /\ q.pending[n + 1] = x /\ \A i \in 1 .. n : q.pending[i] = p.pending[i]
  BY <1>1
<1>3. Paints(q, d) = [i \in 1 .. n + 1 |-> look(q.pending[i])]
  BY <1>2 DEF Paints
<1>4. Paints(p, d) = [i \in 1 .. n |-> look(p.pending[i])] /\ IsSeq(Paints(p, d))
      /\ Len(Paints(p, d)) = n
  BY <1>1, PaintsIsSeq DEF Paints
<1> HIDE DEF n, look
<1>5. Append(Paints(p, d), look(x))
        = [i \in 1 .. n + 1 |-> IF i <= n THEN Paints(p, d)[i] ELSE look(x)]
  <2> DEFINE P == Paints(p, d)
             v == look(x)
  <2>1. IsSeq(P) /\ Len(P) = n
    BY <1>4
  <2> HIDE DEF P, v
  <2>2. Append(P, v) = [i \in 1 .. Len(P) + 1 |-> IF i <= Len(P) THEN P[i] ELSE v]
    BY <2>1, AppendAsFunction
  <2> QED BY <2>1, <2>2 DEF P, v
<1>6. \A i \in 1 .. n + 1 : look(q.pending[i]) = IF i <= n THEN Paints(p, d)[i] ELSE look(x)
  BY <1>1, <1>2, <1>4
<1> QED BY <1>3, <1>5, <1>6 DEF look

------------------------------------------------------------------------------
IsSettings(s) ==
  s = [camera |-> s.camera, viewport |-> s.viewport, blend |-> s.blend,
       alpha |-> s.alpha, texture |-> s.texture]

IsDevice(d) ==
  d = [camera |-> d.camera, viewport |-> d.viewport, blend |-> d.blend,
       alpha |-> d.alpha, texture |-> d.texture, sampler |-> d.sampler,
       target |-> d.target]

\* The device is as the settings say while a scene is open: pending primitives
\* are painted as the script saw them.
DeviceFollows ==
  /\ rendering => dev.target = Top(stack)
  /\ scope => /\ dev.camera = set.camera /\ dev.viewport = set.viewport
              /\ dev.blend = set.blend /\ dev.alpha = set.alpha
              /\ set.texture # None => /\ dev.texture = set.texture
                                      /\ dev.sampler = sampler[set.texture]

BatchInv ==
  /\ rendering \in BOOLEAN /\ scope \in BOOLEAN /\ (scope => rendering)
  /\ Ready(prim) /\ prim.open = scope /\ (~scope => prim.pending = << >>)
  /\ IsSeq(painted)
  /\ IsSettings(set) /\ IsDevice(dev)
  /\ set.texture \in Textures \cup {None} /\ (~scope => set.texture = None)
  /\ stack \in Seq(Targets) /\ Len(stack) <= 2
  /\ dev.target \in Targets \cup {Canvas, None}
  /\ sampler \in [Textures -> Samplers]
  /\ DeviceFollows

LEMMA PictureWhenIdle ==
  ASSUME NEW s, NEW p, NEW d, IsSeq(s), p.pending = << >>
  PROVE  s \o Paints(p, d) = s
BY PaintsNothing, JoinEmpty

\* Drawing what is pending changes nothing that is seen.
LEMMA ConsumedIdle ==
  ASSUME NEW p, Ready(p)
  PROVE  LET q == IF p.begin = p.current THEN p ELSE drawOnly(p)
         IN  Idle(q) /\ q.open = p.open
<1>1. CASE p.begin = p.current
  BY <1>1 DEF Idle, Ready
<1>2. CASE p.begin # p.current
  BY <1>2, DrawnIdle
<1> QED BY <1>1, <1>2

LEMMA PictureIsSeq ==
  ASSUME BatchInv
  PROVE  IsSeq(Picture)
BY PaintsIsSeq, JoinIsSeq DEF BatchInv, Picture

LEMMA ConsumedSame ==
  ASSUME BatchInv, consume
  PROVE  /\ Idle(prim') /\ prim'.open = prim.open /\ IsSeq(painted')
         /\ Picture' = Picture
<1>1. Idle(prim') /\ prim'.open = prim.open
  BY ConsumedIdle DEF BatchInv, consume, consumed
<1>2. IsSeq(painted') /\ painted' = Picture
  BY PictureIsSeq DEF consume
<1>3. painted' \o Paints(prim', dev') = painted'
  BY <1>1, <1>2, PictureWhenIdle DEF Idle
<1>4. Picture' = painted' \o Paints(prim', dev')
  BY DEF Picture
<1> QED BY <1>1, <1>2, <1>3, <1>4

LEMMA SettledSame ==
  ASSUME BatchInv, ~scope, prim'.pending = << >>, painted' = painted
  PROVE  Picture' = Picture
<1>1. Picture = painted
  BY PictureWhenIdle DEF BatchInv, Picture
<1>2. painted' \o Paints(prim', dev') = painted'
  BY PictureWhenIdle DEF BatchInv
<1>3. Picture' = painted' \o Paints(prim', dev')
  BY DEF Picture
<1> QED BY <1>1, <1>2, <1>3

LEMMA ConsumedInScope ==
  ASSUME BatchInv, consumeInScope
  PROVE  /\ Idle(prim') /\ prim'.open = prim.open /\ IsSeq(painted')
         /\ Picture' = Picture
<1>1. CASE scope
  BY <1>1, ConsumedSame DEF consumeInScope
<1>2. CASE ~scope
  <2>1. prim' = prim /\ painted' = painted
    BY <1>2 DEF consumeInScope
  <2>2. Idle(prim) /\ IsSeq(painted)
    BY <1>2 DEF BatchInv, Idle
  <2> QED BY <1>2, <2>1, <2>2, SettledSame DEF Idle
<1> QED BY <1>1, <1>2 DEF BatchInv

LEMMA TopOf ==
  ASSUME NEW s \in Seq(Targets), Len(s) <= 2
  PROVE  /\ Top(s) \in Targets \cup {Canvas}
         /\ \A t \in Targets : /\ Append(s, t) \in Seq(Targets)
                                /\ Len(Append(s, t)) = Len(s) + 1
                                /\ Top(Append(s, t)) = t
         /\ s # << >> => LET r == SubSeq(s, 1, Len(s) - 1)
                         IN  r \in Seq(Targets) /\ Len(r) <= 1
<1>1. Len(s) \in Nat /\ (s # << >> => Len(s) >= 1)
  OBVIOUS
<1>2. Top(s) \in Targets \cup {Canvas}
  BY <1>1 DEF Top
<1>3. ASSUME NEW t \in Targets
      PROVE  /\ Append(s, t) \in Seq(Targets)
             /\ Len(Append(s, t)) = Len(s) + 1
             /\ Top(Append(s, t)) = t
  <2>1. Append(s, t) # << >> /\ Append(s, t)[Len(s) + 1] = t
    BY <1>1, AppendProperties
  <2> QED BY <2>1 DEF Top
<1>4. ASSUME s # << >>
      PROVE  LET r == SubSeq(s, 1, Len(s) - 1) IN r \in Seq(Targets) /\ Len(r) <= 1
  <2> DEFINE n == Len(s) - 1
  <2>1. n \in Nat /\ n <= 1 /\ \A i \in 1 .. n : i \in 1 .. Len(s) /\ s[i] \in Targets
    BY <1>1, <1>4
  <2> HIDE DEF n
  <2>2. SubSeq(s, 1, n) \in Seq(Targets) /\ Len(SubSeq(s, 1, n)) = n
    BY <2>1
  <2> QED BY <2>1, <2>2 DEF n
<1> QED BY <1>2, <1>3, <1>4

------------------------------------------------------------------------------
\* Every step keeps the invariant and is one of the renderer without batches.
Step == BatchInv' /\ [Immediate!ImmediateNext]_(Immediate!immediateVars)

LEMMA SameNames ==
  /\ Immediate!None = None /\ Immediate!Blends = Blends
  /\ Immediate!Effect = Effect /\ Immediate!Model = Model /\ Immediate!Wipe = Wipe
  /\ Immediate!EffectSettings = EffectSettings
  /\ \A s : Immediate!Top(s) = Top(s)
  /\ \A p, t : Immediate!Other(p, t) = Other(p, t)
  /\ \A p, s, m, t : Immediate!Look(p, s, m, t) = Look(p, s, m, t)
<1>1. Immediate!None = None
  BY DEF Immediate!None, None
<1>2. Immediate!EffectSettings = EffectSettings
  BY DEF Immediate!EffectSettings, EffectSettings, Immediate!Foreign, Foreign
<1>3. \A s : Immediate!Top(s) = Top(s)
  BY DEF Immediate!Top, Top, Immediate!Canvas, Canvas
<1>4. \A p, s, m, t : Immediate!Look(p, s, m, t) = Look(p, s, m, t)
  BY <1>1 DEF Immediate!Look, Look
<1> QED
  BY <1>1, <1>2, <1>3, <1>4
  DEF Immediate!Blends, Blends, Immediate!Effect, Effect, Immediate!Model, Model,
      Immediate!Wipe, Wipe, Immediate!Other, Other

\* What is painted in a step of the renderer without batches.
Painted(x) == Len(Picture) < PictureBound /\ Picture' = Append(Picture, x)

LEMMA Forgets ==
  ASSUME set' = [set EXCEPT !.texture = None], stack' = stack, sampler' = sampler,
         \/ Picture' = Picture
         \/ Painted(Look(Effect, EffectSettings, None, Top(stack)))
         \/ Painted(Other(Model, Top(stack)))
  PROVE  Immediate!ImmediateNext
<1>1. Immediate!Forgetting
  BY SameNames DEF Immediate!Forgetting, Immediate!Paint, Painted
<1> QED BY <1>1 DEF Immediate!ImmediateNext

LEMMA Draws ==
  ASSUME UNCHANGED <<set, stack, sampler>>,
         \/ \E p \in Prims :
              Painted(Look(p, set, IF set.texture = None THEN None ELSE sampler[set.texture],
                           Top(stack)))
         \/ Painted(Other(Wipe, Top(stack)))
  PROVE  Immediate!ImmediateNext
<1>1. Immediate!Drawing
  BY SameNames DEF Immediate!Drawing, Immediate!Paint, Painted
<1> QED BY <1>1 DEF Immediate!ImmediateNext

LEMMA BatchInit ==
  ASSUME RendererInit
  PROVE  BatchInv /\ Immediate!ImmediateInit
<1>1. Idle(prim) /\ prim.open = FALSE
  <2>1. 0 \in 0 .. Capacity /\ 0 \in Nat
    BY BatchAssumption
  <2>2. prim \in Buffers /\ prim.begin = prim.current /\ prim.pending = << >> /\ prim.busy = {}
        /\ prim.open = FALSE
    BY <2>1, NothingPending DEF RendererInit, Buffers
  <2> QED BY <2>2, IdleWhen
<1>2. painted = << >> /\ IsSeq(painted)
  <2>1. << >> \in Seq({0})
    BY EmptySeq
  <2> QED BY <2>1, SeqOfAny DEF RendererInit
<1>3. Picture = << >>
  BY <1>1, <1>2, PictureWhenIdle DEF Picture, Idle
<1>4. IsSettings(set) /\ IsDevice(dev) /\ set.texture = None
  BY DEF RendererInit, IsSettings, IsDevice, Cleared
<1>5. stack = << >> /\ stack \in Seq(Targets) /\ Len(stack) <= 2
  BY EmptySeq DEF RendererInit
<1>6. dev.target = None
  BY DEF RendererInit, Cleared
<1>7. BatchInv
  BY <1>1, <1>2, <1>4, <1>5, <1>6 DEF BatchInv, RendererInit, DeviceFollows, Idle
<1>8. Immediate!ImmediateInit
  BY <1>3, SameNames DEF RendererInit, Immediate!ImmediateInit
<1> QED BY <1>7, <1>8

LEMMA BeginFrameStep ==
  ASSUME BatchInv, BeginRenderTargetStack PROVE Step
<1>1. ~scope /\ prim' = prim /\ painted' = painted /\ prim.pending = << >>
  BY DEF BatchInv, BeginRenderTargetStack
<1>2. Picture' = Picture
  BY <1>1, SettledSame
<1>3. IsDevice(dev') /\ dev'.target = Canvas
  BY DEF BatchInv, BeginRenderTargetStack, IsDevice
<1>4. stack' = << >> /\ stack' \in Seq(Targets) /\ Len(stack') <= 2 /\ Top(stack') = Canvas
  BY EmptySeq DEF BeginRenderTargetStack, Top
<1>5. BatchInv'
  BY <1>1, <1>3, <1>4 DEF BatchInv, BeginRenderTargetStack, DeviceFollows
<1>6. Immediate!Retargeting
  BY <1>2, <1>4 DEF BeginRenderTargetStack, Immediate!Retargeting
<1> QED BY <1>5, <1>6 DEF Step, Immediate!ImmediateNext

LEMMA EndFrameStep ==
  ASSUME BatchInv, EndRenderTargetStack PROVE Step
<1>1. ~scope /\ prim' = prim /\ painted' = painted /\ prim.pending = << >>
  BY DEF BatchInv, EndRenderTargetStack
<1>2. Picture' = Picture
  BY <1>1, SettledSame
<1>3. IsDevice(dev') /\ dev'.target = None
  BY DEF EndRenderTargetStack, IsDevice, Cleared
<1>4. stack' = << >> /\ stack' \in Seq(Targets) /\ Len(stack') <= 2
  BY EmptySeq DEF EndRenderTargetStack
<1>5. BatchInv'
  BY <1>1, <1>3, <1>4 DEF BatchInv, EndRenderTargetStack, DeviceFollows
<1>6. Immediate!Retargeting
  BY <1>2, <1>4 DEF EndRenderTargetStack, Immediate!Retargeting
<1> QED BY <1>5, <1>6 DEF Step, Immediate!ImmediateNext

LEMMA ChangeDeviceStep ==
  ASSUME BatchInv, ChangeDevice PROVE Step
<1>0. prim \in Buffers /\ ~scope /\ prim.open = FALSE /\ prim.current \in Nat
      /\ prim.current \in 0 .. Capacity
  BY BuffersFields DEF BatchInv, Ready, ChangeDevice
<1>1. Idle(prim') /\ prim'.open = FALSE
  <2>1. prim' \in Buffers /\ prim'.begin = prim'.current /\ prim'.pending = << >>
        /\ prim'.busy = {} /\ prim'.open = FALSE
    BY <1>0, NothingPending DEF ChangeDevice, Cycled, Buffers
  <2> QED BY <2>1, IdleWhen
<1>2. Picture' = Picture
  BY <1>0, <1>1, SettledSame DEF Idle, ChangeDevice
<1>3. IsDevice(dev') /\ dev'.target = None
  BY DEF ChangeDevice, IsDevice, Cleared
<1>4. BatchInv'
  BY <1>0, <1>1, <1>3 DEF BatchInv, ChangeDevice, DeviceFollows, Idle
<1>5. UNCHANGED Immediate!immediateVars
  BY <1>2 DEF ChangeDevice, Immediate!immediateVars
<1> QED BY <1>4, <1>5 DEF Step

LEMMA BeginBatchStep ==
  ASSUME BatchInv, beginBatch PROVE Step
<1>1. Idle(prim) /\ ~scope /\ set.texture = None /\ rendering
  BY DEF BatchInv, beginBatch, Idle
<1>2. Idle(prim') /\ prim'.open = TRUE
  BY <1>1, BeginIdle DEF beginBatch
<1>3. Picture' = Picture
  BY <1>1, <1>2, SettledSame DEF Idle, beginBatch
<1>4. set' = set
  BY <1>1 DEF beginBatch, BatchInv, IsSettings
<1>5. IsDevice(dev') /\ dev'.target = dev.target /\ dev'.camera = set.camera
      /\ dev'.viewport = set.viewport /\ dev'.blend = set.blend /\ dev'.alpha = set.alpha
  BY <1>1 DEF beginBatch, BatchInv, IsDevice, Bound
<1>6. BatchInv'
  BY <1>1, <1>2, <1>4, <1>5 DEF BatchInv, beginBatch, DeviceFollows, Idle
<1>7. UNCHANGED Immediate!immediateVars
  BY <1>3, <1>4 DEF beginBatch, Immediate!immediateVars
<1> QED BY <1>6, <1>7 DEF Step

LEMMA EndBatchStep ==
  ASSUME BatchInv, endBatch PROVE Step
<1>1. Idle(prim') /\ prim'.open = FALSE
  BY DrawnIdle DEF BatchInv, endBatch
<1>2. IsSeq(painted') /\ painted' = Picture
  BY PictureIsSeq DEF endBatch
<1>3. Picture' = Picture
  <2>1. painted' \o Paints(prim', dev') = painted'
    BY <1>1, <1>2, PictureWhenIdle DEF Idle
  <2> QED BY <1>2, <2>1 DEF Picture
<1>4. IsSettings(set') /\ set'.texture = None
  BY DEF endBatch, BatchInv, IsSettings
<1>5. BatchInv'
  BY <1>1, <1>2, <1>4 DEF BatchInv, endBatch, DeviceFollows, Idle
<1>6. Immediate!ImmediateNext
  BY <1>3, Forgets DEF endBatch
<1> QED BY <1>5, <1>6 DEF Step

\* Settings: what is pending is drawn first.
SetOK ==
  /\ IsSettings(set') /\ IsDevice(dev') /\ set'.texture \in Textures \cup {None}
  /\ (~scope => set'.texture = None)
  /\ dev'.target = dev.target
  /\ scope => /\ dev'.camera = set'.camera /\ dev'.viewport = set'.viewport
              /\ dev'.blend = set'.blend /\ dev'.alpha = set'.alpha
              /\ set'.texture # None => /\ dev'.texture = set'.texture
                                       /\ dev'.sampler = sampler[set'.texture]

LEMMA SettingStep ==
  ASSUME BatchInv, consumeInScope, SetOK, UNCHANGED <<rendering, scope, stack, sampler>>,
         \/ \E c \in Cameras : set' = [set EXCEPT !.camera = c]
         \/ \E v \in Viewports : set' = [set EXCEPT !.viewport = v]
         \/ \E b \in Blends : set' = [set EXCEPT !.blend = b]
         \/ \E t \in Textures : set' = [set EXCEPT !.texture = t, !.alpha = AlphaOf[t]]
  PROVE  Step
<1>1. Idle(prim') /\ prim'.open = prim.open /\ IsSeq(painted') /\ Picture' = Picture
  BY ConsumedInScope
<1>2. BatchInv'
  BY <1>1 DEF BatchInv, SetOK, DeviceFollows, Idle
<1>3. Immediate!Setting
  BY <1>1, SameNames DEF Immediate!Setting
<1> QED BY <1>2, <1>3 DEF Step, Immediate!ImmediateNext

LEMMA SetCameraStep ==
  ASSUME BatchInv, NEW c \in Cameras, setCamera(c) PROVE Step
<1>1. SetOK
  BY DEF BatchInv, setCamera, SetOK, IsSettings, IsDevice, DeviceFollows
<1> QED BY <1>1, SettingStep DEF setCamera

LEMMA SetViewportStep ==
  ASSUME BatchInv, NEW v \in Viewports, setViewport(v) PROVE Step
<1>1. SetOK
  BY DEF BatchInv, setViewport, SetOK, IsSettings, IsDevice, DeviceFollows
<1> QED BY <1>1, SettingStep DEF setViewport

LEMMA SetBlendStep ==
  ASSUME BatchInv, NEW b \in Blends, setBlendState(b) PROVE Step
<1>1. SetOK
  BY DEF BatchInv, setBlendState, SetOK, IsSettings, IsDevice, DeviceFollows
<1>2. consumeInScope
  BY DEF setBlendState, consumeInScope
<1> QED BY <1>1, <1>2, SettingStep DEF setBlendState

LEMMA SetTextureStep ==
  ASSUME BatchInv, NEW t \in Textures, setTexture(t) PROVE Step
<1>1. SetOK
  BY DEF BatchInv, setTexture, SetOK, IsSettings, IsDevice, DeviceFollows
<1>2. consumeInScope
  BY DEF setTexture, consumeInScope
<1> QED BY <1>1, <1>2, SettingStep DEF setTexture

LEMMA SamplerStep ==
  ASSUME BatchInv, Disturbances = {}, NEW t \in Textures, NEW m \in Samplers,
         SetTextureSamplerState(t, m)
  PROVE  Step
<1>1. set.texture # t /\ sampler' = [sampler EXCEPT ![t] = m] /\ sampler' \in [Textures -> Samplers]
  BY DEF BatchInv, SetTextureSamplerState
<1>2. set.texture # None => sampler'[set.texture] = sampler[set.texture]
  BY <1>1 DEF BatchInv
<1>3. UNCHANGED <<rendering, scope, set, stack, prim, dev, painted>>
  BY DEF SetTextureSamplerState
<1>4. BatchInv'
  BY <1>1, <1>2, <1>3 DEF BatchInv, DeviceFollows
<1>5. Picture' = Picture
  BY <1>3 DEF Picture
<1>6. Immediate!Sampling
  BY <1>1, <1>3, <1>5 DEF Immediate!Sampling
<1> QED BY <1>4, <1>6 DEF Step, Immediate!ImmediateNext

\* A primitive is painted by the device as the script set it.
LEMMA SeenAsSet ==
  ASSUME BatchInv, scope, set.texture # None \/ set.blend = "one", NEW p
  PROVE  Look(p, dev, dev.sampler, dev.target)
           = Look(p, set, IF set.texture = None THEN None ELSE sampler[set.texture], Top(stack))
<1>1. /\ dev.camera = set.camera /\ dev.viewport = set.viewport
      /\ dev.blend = set.blend /\ dev.alpha = set.alpha /\ dev.target = Top(stack)
      /\ set.blend # "one" => /\ set.texture # None /\ dev.texture = set.texture
                             /\ dev.sampler = sampler[set.texture]
  BY DEF BatchInv, DeviceFollows
<1> QED BY <1>1 DEF Look

LEMMA DrawStep ==
  ASSUME BatchInv, NEW p \in Prims, Draw(p) PROVE Step
<1>0. /\ scope /\ Ready(prim) /\ IsSeq(painted) /\ IsSeq(Picture) /\ p \in Prims \cup {Effect}
      /\ Room(p) = p /\ p \in 1 .. Capacity /\ p \in Int /\ prim.current \in Nat
  <2>1. scope /\ Ready(prim) /\ IsSeq(painted) /\ IsSeq(Picture)
    BY PictureIsSeq DEF BatchInv, Draw
  <2>2. prim.current \in Nat
    BY <2>1, BuffersFields DEF Ready
  <2>3. p \in 1 .. Capacity /\ p \in Int /\ p # -1
    BY BatchAssumption
  <2> QED BY <2>1, <2>2, <2>3 DEF Room, Effect
<1> DEFINE look == Look(p, dev, dev.sampler, dev.target)
<1>1. /\ Ready(prim') /\ prim'.open = prim.open /\ IsSeq(painted')
      /\ Picture' = Append(Picture, look)
  <2>1. CASE Full(prim, p)
    <3> DEFINE q == Cycled(drawOnly(prim))
    <3>1. Idle(q) /\ q.open = prim.open /\ q.current = 0
      <4>1. Idle(drawOnly(prim)) /\ drawOnly(prim).open = prim.open
        BY <1>0, DrawnIdle
      <4> QED BY <4>1, CycledIdle DEF Idle, Ready
    <3>2. prim' = Copied(q, p) /\ painted' = Picture /\ dev' = dev
      BY <2>1 DEF Draw
    <3> HIDE DEF q
    <3>3. q.current + Room(p) <= Capacity
      BY <1>0, <3>1
    <3>4. Ready(prim') /\ prim'.open = q.open /\ prim'.pending = Append(q.pending, p)
      BY <1>0, <3>1, <3>2, <3>3, CopiedReady DEF Idle
    <3>5. Paints(prim', dev) = Append(Paints(q, dev), look)
      BY <1>0, <3>1, <3>4, PaintsOneMore DEF Idle
    <3>6. Paints(q, dev) = << >>
      BY <3>1, PaintsNothing DEF Idle
    <3>7. IsSeq(Paints(q, dev))
      BY <3>1, PaintsIsSeq DEF Idle
    <3>8. Picture' = Append(Picture \o Paints(q, dev), look)
      BY <1>0, <3>2, <3>5, <3>7, JoinAppend DEF Picture
    <3>9. Picture \o Paints(q, dev) = Picture
      BY <1>0, <3>6, JoinEmpty
    <3> QED BY <1>0, <3>1, <3>2, <3>4, <3>8, <3>9
  <2>2. CASE ~Full(prim, p)
    <3>1. prim' = Copied(prim, p) /\ painted' = painted /\ dev' = dev
      BY <2>2 DEF Draw
    <3>2. prim.current + Room(p) <= Capacity
      BY <1>0, <2>2, BatchAssumption DEF Full
    <3>3. Ready(prim') /\ prim'.open = prim.open /\ prim'.pending = Append(prim.pending, p)
      BY <1>0, <3>1, <3>2, CopiedReady
    <3>4. Paints(prim', dev) = Append(Paints(prim, dev), look)
      BY <1>0, <3>3, PaintsOneMore
    <3>5. IsSeq(Paints(prim, dev))
      BY <1>0, PaintsIsSeq
    <3>6. Picture' = Append(Picture, look)
      BY <1>0, <3>1, <3>4, <3>5, JoinAppend DEF Picture
    <3> QED BY <1>0, <3>1, <3>3, <3>6
  <2> QED BY <2>1, <2>2
<1>2. look = Look(p, set, IF set.texture = None THEN None ELSE sampler[set.texture], Top(stack))
  BY <1>0, SeenAsSet DEF Draw
<1> HIDE DEF look
<1>3. UNCHANGED <<rendering, scope, set, stack, sampler, dev>> /\ Len(Picture) < PictureBound
  BY DEF Draw, MayPaint
<1>4. BatchInv'
  BY <1>0, <1>1, <1>3 DEF BatchInv, DeviceFollows
<1>5. Immediate!ImmediateNext
  BY <1>1, <1>2, <1>3, Draws DEF Painted
<1> QED BY <1>4, <1>5 DEF Step

LEMMA ClearStep ==
  ASSUME BatchInv, clearRenderTarget PROVE Step
<1> DEFINE entry == Other(Wipe, dev.target)
<1>1. Idle(prim') /\ prim'.open = prim.open
  BY ConsumedIdle DEF BatchInv, clearRenderTarget, consumed, Idle
<1>2. IsSeq(Picture) /\ painted' = Append(Picture, entry) /\ IsSeq(painted')
  <2>1. IsSeq(Picture) /\ painted' = Append(Picture, entry)
    BY PictureIsSeq DEF clearRenderTarget
  <2> HIDE DEF entry
  <2> QED BY <2>1, OneMoreIsSeq
<1>3. Picture' = Append(Picture, entry)
  BY <1>1, <1>2, PictureWhenIdle DEF Picture, Idle
<1>4. dev.target = Top(stack) /\ Len(Picture) < PictureBound
      /\ UNCHANGED <<rendering, scope, set, stack, sampler, dev>>
  BY DEF BatchInv, clearRenderTarget, MayPaint, DeviceFollows
<1>5. BatchInv'
  BY <1>1, <1>2, <1>4 DEF BatchInv, DeviceFollows, Idle
<1>6. Immediate!ImmediateNext
  BY <1>3, <1>4, Draws DEF Painted
<1> QED BY <1>5, <1>6 DEF Step

LEMMA ModelStep ==
  ASSUME BatchInv, drawModel PROVE Step
<1> DEFINE entry == Other(Model, dev.target)
<1>1. Idle(prim') /\ prim'.open = TRUE
  BY DrawnIdle, BeginIdle DEF BatchInv, drawModel
<1>2. IsSeq(Picture) /\ painted' = Append(Picture, entry) /\ IsSeq(painted')
  <2>1. IsSeq(Picture) /\ painted' = Append(Picture, entry)
    BY PictureIsSeq DEF drawModel
  <2> HIDE DEF entry
  <2> QED BY <2>1, OneMoreIsSeq
<1>3. Picture' = Append(Picture, entry)
  BY <1>1, <1>2, PictureWhenIdle DEF Picture, Idle
<1>4. scope /\ rendering /\ dev.target = Top(stack) /\ Len(Picture) < PictureBound
      /\ UNCHANGED <<rendering, scope, stack, sampler>>
  BY DEF BatchInv, drawModel, MayPaint, DeviceFollows
<1>5. /\ IsSettings(set') /\ set' = [set EXCEPT !.texture = None] /\ set'.texture = None
      /\ IsDevice(dev') /\ dev'.target = dev.target
      /\ dev'.camera = set'.camera /\ dev'.viewport = set'.viewport
      /\ dev'.blend = set'.blend /\ dev'.alpha = set'.alpha
  BY DEF BatchInv, drawModel, IsSettings, IsDevice
<1>6. BatchInv'
  BY <1>1, <1>2, <1>4, <1>5 DEF BatchInv, DeviceFollows, Idle
<1>7. Immediate!ImmediateNext
  BY <1>3, <1>4, <1>5, Forgets DEF Painted
<1> QED BY <1>6, <1>7 DEF Step

LEMMA EffectStep ==
  ASSUME BatchInv, drawPostEffect PROVE Step
<1> DEFINE state == [Cleared EXCEPT !.camera = Foreign, !.viewport = Foreign,
                                    !.blend = "one", !.alpha = Foreign,
                                    !.texture = Foreign, !.target = dev.target]
           opened == discard(primBegin(primEnd(prim)))
           quad == IF Full(opened, 1) THEN Copied(Cycled(opened), Effect)
                                      ELSE Copied(opened, Effect)
           look == Look(Effect, state, state.sampler, state.target)
<1>1. Idle(opened)
  BY DrawnIdle, BeginIdle DEF BatchInv, Idle
<1>2. Ready(quad) /\ Paints(quad, state) = Append(<< >>, look)
  <2> HIDE DEF opened, state
  <2>0. Room(Effect) = 1 /\ Effect \in Prims \cup {Effect} /\ Effect \in Int
    BY DEF Room, Effect
  <2>1. PICK q : Idle(q) /\ q.current + Room(Effect) <= Capacity /\ quad = Copied(q, Effect)
    <3>1. CASE Full(opened, 1)
      <4>1. Idle(Cycled(opened)) /\ Cycled(opened).current = 0
        BY <1>1, CycledIdle DEF Idle, Ready
      <4> QED BY <2>0, <3>1, <4>1, BatchAssumption
    <3>2. CASE ~Full(opened, 1)
      <4>1. opened.current \in Nat
        BY <1>1, BuffersFields DEF Idle, Ready
      <4>2. opened.current + Room(Effect) <= Capacity
        BY <2>0, <3>2, <4>1, BatchAssumption DEF Full
      <4> QED BY <1>1, <3>2, <4>2
    <3> QED BY <3>1, <3>2
  <2> HIDE DEF quad
  <2>2. Ready(quad) /\ quad.pending = Append(q.pending, Effect)
    BY <2>0, <2>1, CopiedReady DEF Idle
  <2>3. Paints(quad, state) = Append(Paints(q, state), look)
    BY <2>0, <2>1, <2>2, PaintsOneMore DEF Idle
  <2>4. Paints(q, state) = << >>
    BY <2>1, PaintsNothing DEF Idle
  <2> QED BY <2>2, <2>3, <2>4
<1>3. look = Look(Effect, EffectSettings, None, dev.target)
  BY DEF Look, EffectSettings, Cleared
<1>4. painted' = Picture \o Paints(quad, state) /\ prim' = primBegin(primEnd(quad))
  BY DEF drawPostEffect
<1> HIDE DEF state, opened, quad, look
<1>5. Idle(prim') /\ prim'.open = TRUE
  BY <1>2, <1>4, DrawnIdle, BeginIdle
<1>6. IsSeq(Picture) /\ painted' = Append(Picture, look) /\ IsSeq(painted')
  <2>1. IsSeq(Picture)
    BY PictureIsSeq
  <2>2. << >> \in Seq({0})
    BY EmptySeq
  <2>3. IsSeq(<< >>)
    BY <2>2, SeqOfAny
  <2>4. Picture \o Append(<< >>, look) = Append(Picture \o << >>, look)
    BY <2>1, <2>3, JoinAppend
  <2>5. Picture \o << >> = Picture
    BY <2>1, JoinEmpty
  <2>6. painted' = Append(Picture, look)
    BY <1>2, <1>4, <2>4, <2>5
  <2> QED BY <2>1, <2>6, OneMoreIsSeq
<1>7. Picture' = Append(Picture, look)
  BY <1>5, <1>6, PictureWhenIdle DEF Picture, Idle
<1>8. scope /\ rendering /\ dev.target = Top(stack) /\ Len(Picture) < PictureBound
      /\ UNCHANGED <<rendering, scope, stack, sampler>>
  BY DEF BatchInv, drawPostEffect, MayPaint, DeviceFollows
<1>9. /\ IsSettings(set') /\ set' = [set EXCEPT !.texture = None] /\ set'.texture = None
      /\ IsDevice(dev') /\ dev'.target = dev.target
      /\ dev'.camera = set'.camera /\ dev'.viewport = set'.viewport
      /\ dev'.blend = set'.blend /\ dev'.alpha = set'.alpha
  BY DEF BatchInv, drawPostEffect, IsSettings, IsDevice, Cleared
<1>10. BatchInv'
  BY <1>5, <1>6, <1>8, <1>9 DEF BatchInv, DeviceFollows, Idle
<1>11. Immediate!ImmediateNext
  BY <1>3, <1>7, <1>8, <1>9, Forgets DEF Painted
<1> QED BY <1>10, <1>11 DEF Step

\* A change of target: what is pending goes to the old one.
LEMMA TargetStep ==
  ASSUME BatchInv, scope, consume, NEW t \in Targets \cup {Canvas}, set.texture # t,
         t = Top(stack'), dev' = Targeted(t), stack' \in Seq(Targets), Len(stack') <= 2,
         UNCHANGED <<rendering, scope, set, sampler>>
  PROVE  BatchInv' /\ Picture' = Picture
<1>1. Idle(prim') /\ prim'.open = prim.open /\ IsSeq(painted') /\ Picture' = Picture
  BY ConsumedSame
<1>2. /\ IsDevice(dev') /\ dev'.target = t /\ dev'.viewport = set.viewport
      /\ dev'.camera = dev.camera /\ dev'.blend = dev.blend /\ dev'.alpha = dev.alpha
      /\ dev'.sampler = dev.sampler /\ (dev.texture # t => dev'.texture = dev.texture)
  BY DEF BatchInv, IsDevice, Targeted
<1> QED BY <1>1, <1>2 DEF BatchInv, DeviceFollows, Idle

LEMMA PushStep ==
  ASSUME BatchInv, Disturbances = {}, NEW t \in Targets, PushRenderTarget(t) PROVE Step
<1>1. /\ stack' = Append(stack, t) /\ stack' \in Seq(Targets) /\ Len(stack') = Len(stack) + 1
      /\ Top(stack') = t /\ Len(stack) < 2 /\ Len(stack) \in Nat
  BY TopOf DEF BatchInv, PushRenderTarget
<1>2. Len(stack') <= 2
  BY <1>1
<1>3. BatchInv' /\ Picture' = Picture
  BY <1>1, <1>2, TargetStep DEF PushRenderTarget
<1>4. Immediate!Retargeting
  BY <1>1, <1>3 DEF Immediate!Retargeting, PushRenderTarget
<1> QED BY <1>3, <1>4 DEF Step, Immediate!ImmediateNext

LEMMA PopStep ==
  ASSUME BatchInv, Disturbances = {}, PopRenderTarget PROVE Step
<1>1. /\ stack' = SubSeq(stack, 1, Len(stack) - 1) /\ stack # << >>
      /\ stack' \in Seq(Targets) /\ Len(stack') <= 1
  BY TopOf DEF BatchInv, PopRenderTarget
<1>2. Len(stack') <= 2 /\ Len(stack') \in Nat
  BY <1>1
<1>3. Top(stack') \in Targets \cup {Canvas}
  BY <1>1, <1>2, TopOf
<1>4. BatchInv' /\ Picture' = Picture
  BY <1>1, <1>2, <1>3, TargetStep DEF PopRenderTarget
<1>5. Immediate!Retargeting
  BY <1>1, <1>4 DEF Immediate!Retargeting, PopRenderTarget
<1> QED BY <1>4, <1>5 DEF Step, Immediate!ImmediateNext

LEMMA BatchUnchanged ==
  ASSUME BatchInv, UNCHANGED rendererVars PROVE Step
<1>1. BatchInv'
  BY DEF BatchInv, rendererVars, DeviceFollows
<1>2. UNCHANGED Immediate!immediateVars
  BY DEF rendererVars, Immediate!immediateVars, Picture
<1> QED BY <1>1, <1>2 DEF Step

LEMMA BatchStep ==
  ASSUME BatchInv, Disturbances = {}, [RendererNext]_rendererVars PROVE Step
<1>1. CASE UNCHANGED rendererVars
  BY <1>1, BatchUnchanged
<1>2. CASE BeginRenderTargetStack
  BY <1>2, BeginFrameStep
<1>3. CASE EndRenderTargetStack
  BY <1>3, EndFrameStep
<1>4. CASE beginBatch
  BY <1>4, BeginBatchStep
<1>5. CASE endBatch
  BY <1>5, EndBatchStep
<1>6. CASE \E c \in Cameras : setCamera(c)
  BY <1>6, SetCameraStep
<1>7. CASE \E v \in Viewports : setViewport(v)
  BY <1>7, SetViewportStep
<1>8. CASE \E b \in Blends : setBlendState(b)
  BY <1>8, SetBlendStep
<1>9. CASE \E t \in Textures : setTexture(t)
  BY <1>9, SetTextureStep
<1>10. CASE \E t \in Textures, s \in Samplers : SetTextureSamplerState(t, s)
  BY <1>10, SamplerStep
<1>11. CASE \E p \in Prims : Draw(p)
  BY <1>11, DrawStep
<1>12. CASE clearRenderTarget \/ drawPostEffect \/ drawModel
  BY <1>12, ClearStep, EffectStep, ModelStep
<1>13. CASE \E t \in Targets : PushRenderTarget(t)
  BY <1>13, PushStep
<1>14. CASE PopRenderTarget \/ ChangeDevice
  BY <1>14, PopStep, ChangeDeviceStep
<1> QED
  BY <1>1, <1>2, <1>3, <1>4, <1>5, <1>6, <1>7, <1>8, <1>9, <1>10, <1>11, <1>12, <1>13, <1>14
  DEF RendererNext

LEMMA BatchMeans ==
  ASSUME BatchInv PROVE RendererInv
<1>1. prim \in Buffers /\ prim.begin <= prim.current /\ prim.begin \in Nat
      /\ prim.current \in 0 .. Capacity /\ prim.current \in Nat /\ prim.clobbered = FALSE
  BY BuffersFields DEF BatchInv, Ready
<1>2. prim.begin \in 0 .. prim.current
  BY <1>1
<1>3. stack \in BoundedSeq(Targets, 2)
  <2>1. stack \in Seq(Targets) /\ Len(stack) <= 2
    BY DEF BatchInv
  <2>2. stack \in [1 .. Len(stack) -> Targets] /\ Len(stack) \in 0 .. 2
    <3>1. Len(stack) \in Nat
      BY <2>1
    <3>2. Len(stack) \in 0 .. 2
      <4> DEFINE n == Len(stack)
      <4>1. n \in Nat /\ n <= 2
        BY <2>1, <3>1
      <4> HIDE DEF n
      <4>2. n \in 0 .. 2
        BY <4>1
      <4> QED BY <4>2 DEF n
    <3>3. stack \in [1 .. Len(stack) -> Targets]
      <4>1. \A s \in Seq(Targets) : s \in [1 .. Len(s) -> Targets]
        OBVIOUS
      <4> QED BY <2>1, <4>1
    <3> QED BY <3>2, <3>3
  <2>3. \E m \in 0 .. 2 : stack \in [1 .. m -> Targets]
    BY <2>2
  <2> QED BY <2>3 DEF BoundedSeq, SeqOf
<1> QED BY <1>1, <1>2, <1>3 DEF BatchInv, RendererInv, RendererTypeOK, NoOverwrite

\* The batches keep to their buffer, and the device is told to read no position
\* that is written afterwards, for any sizes and any number of settings,
\* textures and targets, while scripts leave the bound texture alone.
THEOREM RendererSafe ==
  ASSUME Disturbances = {}
  PROVE  RendererSpec => []RendererInv
<1>1. RendererInit => BatchInv
  BY BatchInit
<1>2. BatchInv /\ [RendererNext]_rendererVars => BatchInv'
  BY BatchStep DEF Step
<1>3. BatchInv => RendererInv
  BY BatchMeans
<1> QED BY <1>1, <1>2, <1>3, PTL DEF RendererSpec

\* The renderer with batches implements the one without: under the same
\* condition, what is painted and pending is what scripts asked for, in order
\* and with the settings of the moment they asked.
THEOREM RendererImplementsImmediate ==
  ASSUME Disturbances = {}
  PROVE  RendererSpec => BatchingInvisible
<1>1. RendererInit => BatchInv /\ Immediate!ImmediateInit
  BY BatchInit
<1>2. BatchInv /\ [RendererNext]_rendererVars
        => BatchInv' /\ [Immediate!ImmediateNext]_(Immediate!immediateVars)
  BY BatchStep DEF Step
<1> QED BY <1>1, <1>2, PTL DEF RendererSpec, BatchingInvisible, Immediate!ImmediateSpec
------------------------------------------------------------------------------
(* The loop of a music.  Every way to give a range but "LengthAndEndPoint"    *)
(* hands the worker the start and the length of what was asked, and the      *)
(* worker keeps the part of it that lies in the file; between the two        *)
(* buffers and the queue no chunk is lost.                                   *)

SoundTypes == {"All", "StartPointToEnd", "StartPointAndLength", "StartToEndPoint",
               "StartPointAndEndPoint"}

MusicInv == MusicTypeOK /\ available + queued <= 2 /\ LoopIsAsked

Moment == 0 .. Word - 1

\* uint32_t of a number: what fits keeps its value.
LEMMA Unsigned ==
  ASSUME NEW n \in Int PROVE u32(n) \in Moment /\ (n \in Moment => u32(n) = n)
<1>1. Word \in Nat /\ Word > 0
  BY MusicAssumption
<1>2. n % Word \in Moment
  BY <1>1 DEF Moment
<1>3. n \in Moment => n % Word = n
  BY <1>1 DEF Moment
<1> QED BY <1>2, <1>3 DEF u32

\* A time as samples: any place in the file when it is negative.
LEMMA Samples ==
  ASSUME NEW t \in Int, NEW n \in ToSamples(t)
  PROVE  n \in Nat /\ (0 <= t /\ t < Word => n = t)
<1>1. CASE t >= 0
  <2>1. n = u32(t) /\ Word \in Nat /\ u32(t) \in Moment /\ (t \in Moment => u32(t) = t)
    BY <1>1, Unsigned, MusicAssumption DEF ToSamples
  <2> QED BY <1>1, <2>1 DEF Moment
<1>2. CASE ~ (t >= 0)
  BY <1>2, MusicAssumption DEF ToSamples
<1> QED BY <1>1, <1>2

\* The loop the worker makes of a start and a length.
LEMMA LoopKept ==
  ASSUME NEW start \in Int, NEW length \in Int, LoopOn(start, length)
  PROVE  /\ m_loop_enabled' = TRUE
         /\ m_loop_sample_start' \in 0 .. Total /\ m_loop_sample_count' \in 0 .. Total
         /\ 0 <= start /\ start <= Total /\ 0 <= length /\ length < Word =>
              /\ m_loop_sample_start' = start
              /\ m_loop_sample_start' + m_loop_sample_count' = Min2(start + length, Total)
<1>1. PICK s \in ToSamples(start), n \in ToSamples(length) :
        /\ m_loop_enabled' = TRUE /\ m_loop_sample_start' = Min2(s, Total)
        /\ m_loop_sample_count' = Min2(n, Total - Min2(s, Total))
  BY DEF LoopOn
<1>2. /\ s \in Nat /\ n \in Nat /\ Total \in Nat /\ Word > 2 * Total /\ Word \in Nat
      /\ 0 <= start /\ start < Word => s = start
      /\ 0 <= length /\ length < Word => n = length
  BY <1>1, Samples, MusicAssumption
<1> QED BY <1>1, <1>2 DEF Min2

\* What the script gives, whichever way, and what it means.
LEMMA AskedRange ==
  ASSUME RangeTypes \subseteq SoundTypes, NEW range \in Asked
  PROVE  /\ range.arguments[1] \in Int /\ range.arguments[2] \in Int
         /\ range.meaning[1] = range.arguments[1] /\ range.meaning[2] \in Int
         /\ range.meaning[1] < range.meaning[2] /\ range.meaning[1] <= Total =>
              /\ 0 <= range.arguments[2] /\ range.arguments[2] < Word
              /\ range.meaning[2] = range.arguments[1] + range.arguments[2]
<1>1. PICK type \in RangeTypes, s \in Times, e \in Times, n \in Times :
        range = [arguments |-> Arguments(type, s, e, n), meaning |-> Meaning(type, s, e, n)]
  BY DEF Asked
<1>2. /\ s \in Nat /\ e \in Nat /\ n \in Nat /\ s < Word /\ e < Word /\ n < Word
      /\ Total \in Nat /\ Word \in Nat /\ Word > 2 * Total
  BY MusicAssumption
<1>3. type \in SoundTypes
  OBVIOUS
<1>4. range.arguments = Arguments(type, s, e, n) /\ range.meaning = Meaning(type, s, e, n)
  BY <1>1
<1>5. CASE type = "All"
  BY <1>2, <1>4, <1>5 DEF Arguments, Meaning
<1>6. CASE type = "StartPointToEnd"
  BY <1>2, <1>4, <1>6 DEF Arguments, Meaning
<1>7. CASE type = "StartPointAndLength"
  BY <1>2, <1>4, <1>7 DEF Arguments, Meaning
<1>8. CASE type = "StartToEndPoint"
  BY <1>2, <1>4, <1>8 DEF Arguments, Meaning
<1>9. CASE type = "StartPointAndEndPoint"
  BY <1>2, <1>4, <1>9 DEF Arguments, Meaning
<1> QED BY <1>3, <1>5, <1>6, <1>7, <1>8, <1>9 DEF SoundTypes

\* The type invariant unfolded, with the bounds as the provers use them.
LEMMA MusicTypes ==
  ASSUME MusicTypeOK
  PROVE  /\ m_loop_enabled \in BOOLEAN
         /\ m_loop_sample_start \in Moment /\ m_loop_sample_count \in Moment
         /\ m_current_sample \in Moment /\ available \in 0 .. 2 /\ queued \in 0 .. 2
         /\ Moment \subseteq Nat /\ Word \in Nat /\ Total \in Nat /\ 0 .. Total \subseteq Moment
BY MusicAssumption DEF MusicTypeOK, Moment

\* A loaded music loops as its definition asks.
LEMMA MusicStarts ==
  ASSUME MusicInit PROVE MusicInv
<1>1. PICK r \in LoadedRange :
        /\ m_loop_enabled = TRUE /\ m_loop_sample_start = Min2(r[1], Total)
        /\ m_loop_sample_count = Min2(r[2] - r[1], Total - Min2(r[1], Total))
        /\ range_asked = r
  BY DEF MusicInit
<1>2. /\ r[1] \in Nat /\ r[2] \in Nat /\ r[1] <= r[2] /\ Total \in Nat /\ Word \in Nat
      /\ Word > 2 * Total /\ BufferFrames \in Nat
  <2>1. /\ Total \in Nat /\ Word \in Nat /\ Word > 2 * Total /\ BufferFrames \in Nat
        /\ \A t \in Times : t \in Nat
    BY MusicAssumption
  <2>2. CASE r = <<0, Total>>
    BY <2>1, <2>2
  <2>3. CASE r \in Times \X Times /\ r[1] < r[2]
    <3>1. r[1] \in Times /\ r[2] \in Times
      BY <2>3
    <3> QED BY <2>1, <2>3, <3>1
  <2> QED BY <2>2, <2>3 DEF LoadedRange
<1>3. m_loop_sample_start \in 0 .. Word - 1 /\ m_loop_sample_count \in 0 .. Word - 1
  BY <1>1, <1>2 DEF Min2
<1>4. MusicTypeOK
  BY <1>1, <1>2, <1>3 DEF MusicInit, MusicTypeOK
<1>5. LoopIsAsked
  BY <1>1, <1>2 DEF LoopIsAsked, Min2
<1> QED BY <1>4, <1>5 DEF MusicInv, MusicInit

\* Asking for another loop.
LEMMA RangeSet ==
  ASSUME RangeTypes \subseteq SoundTypes, MusicInv, NEW range \in Asked, SetLoopRange(range)
  PROVE  MusicInv'
<1>1. LoopOn(range.arguments[1], range.arguments[2]) /\ range_asked' = range.meaning
      /\ UNCHANGED <<m_current_sample, available, queued, chunk>>
  BY DEF SetLoopRange
<1>2. /\ m_loop_enabled' = TRUE
      /\ m_loop_sample_start' \in 0 .. Total /\ m_loop_sample_count' \in 0 .. Total
  BY <1>1, AskedRange, LoopKept
<1>3. LoopIsAsked'
  <2> DEFINE a == range.arguments[1]
             b == range.arguments[2]
             z == range_asked'[2]
  <2>1. a \in Int /\ b \in Int /\ z \in Int /\ range_asked'[1] = a
    BY <1>1, AskedRange
  <2>2. a < z /\ a <= Total => 0 <= b /\ b < Word /\ z = a + b
    BY <1>1, AskedRange
  <2>3. 0 <= a /\ a <= Total /\ 0 <= b /\ b < Word =>
          m_loop_sample_start' = a /\ m_loop_sample_start' + m_loop_sample_count' = Min2(a + b, Total)
    BY <1>1, <2>1, LoopKept
  <2> HIDE DEF a, b, z
  <2>4. m_loop_enabled' /\ 0 <= a /\ a < z /\ a <= Total =>
          /\ m_loop_sample_start' = a
          /\ m_loop_sample_start' + m_loop_sample_count' = Min2(z, Total)
    BY <2>2, <2>3
  <2> QED BY <2>1, <2>4 DEF LoopIsAsked, z
<1>4. MusicTypeOK'
  BY <1>1, <1>2, MusicTypes DEF MusicInv, MusicTypeOK, Moment
<1> QED BY <1>1, <1>3, <1>4 DEF MusicInv

\* Turning the loop off.
LEMMA LoopUnset ==
  ASSUME MusicInv, SetLoop PROVE MusicInv'
<1>1. MusicTypeOK'
  <2>1. MusicTypeOK /\ 0 \in 0 .. Word - 1 /\ Total \in 0 .. Word - 1
    BY MusicAssumption DEF MusicInv
  <2>2. m_loop_enabled' = FALSE /\ m_loop_sample_start' = 0 /\ m_loop_sample_count' = Total
        /\ UNCHANGED <<m_current_sample, available, queued, chunk>>
    BY DEF SetLoop, LoopOff
  <2> QED BY <2>1, <2>2 DEF MusicTypeOK
<1>2. LoopIsAsked'
  BY DEF LoopIsAsked, SetLoop, LoopOff
<1> QED BY <1>1, <1>2 DEF MusicInv, SetLoop

\* Starting at a time given as a number of any sign.
LEMMA PlayStep ==
  ASSUME MusicInv, NEW t \in PlayTimes, on_play(t) PROVE MusicInv'
<1>1. u32(t) \in Moment
  BY Unsigned, MusicAssumption
<1>2. UNCHANGED <<loopVars, chunk>> /\ m_current_sample' \in Moment
      /\ available' \in 0 .. 2 /\ queued' \in 0 .. 2 /\ available' + queued' <= 2
  BY <1>1, MusicTypes DEF MusicInv, on_play
<1> QED BY <1>2 DEF MusicInv, MusicTypeOK, LoopIsAsked, loopVars, Moment

\* A chunk starts in the file or in the word, and is no longer than a buffer.
LEMMA FromMoment ==
  ASSUME MusicTypeOK
  PROVE  From \in Moment /\ sample_count \in 0 .. BufferFrames
<1>1. From \in Moment
  BY MusicTypes DEF From
<1>2. \A x \in Moment : Min2(BufferFrames, x) \in 0 .. BufferFrames
  BY MusicAssumption DEF Min2, Moment
<1>3. u32(Total - m_current_sample) \in Moment /\ loop_sample_end \in Moment
  BY MusicTypes, Unsigned DEF loop_sample_end
<1>4. u32(loop_sample_end - m_current_sample) \in Moment
  BY <1>3, MusicTypes, Unsigned
<1> DEFINE x == CASE Returns          -> m_loop_sample_count
                  [] ~ m_loop_enabled -> u32(Total - m_current_sample)
                  [] OTHER            -> u32(loop_sample_end - m_current_sample)
<1>5. x \in Moment
  <2>1. CASE Returns
    BY <2>1, MusicTypes DEF Returns
  <2>2. CASE ~ Returns
    BY <1>3, <1>4, <2>2
  <2> QED BY <2>1, <2>2
<1>6. sample_count = Min2(BufferFrames, x)
  BY DEF sample_count
<1> HIDE DEF x
<1> QED BY <1>1, <1>2, <1>5, <1>6

\* Decoding a chunk fills one of the two buffers.
LEMMA DecodeStep ==
  ASSUME MusicInv, decode PROVE MusicInv'
<1> DEFINE n == Min2(sample_count, Total - From)
<1>1. From \in Moment /\ From <= Total /\ sample_count \in 0 .. BufferFrames
      /\ BufferFrames \in Nat /\ Total \in Nat /\ Moment \subseteq Nat
  BY FromMoment, MusicTypes, MusicAssumption DEF MusicInv, decode
<1>2. n \in 0 .. BufferFrames
  BY <1>1 DEF Min2
<1>3. chunk' = [from |-> From, count |-> n] /\ m_current_sample' = u32(From + n)
  BY DEF decode
<1> HIDE DEF n
<1>4. chunk' \in [from : Moment, count : 0 .. BufferFrames] /\ m_current_sample' \in Moment
  <2>1. From + n \in Int
    BY <1>1, <1>2
  <2> QED BY <1>1, <1>2, <1>3, <2>1, Unsigned
<1>5. available' \in 0 .. 2 /\ queued' \in 0 .. 2 /\ available' + queued' <= 2
      /\ UNCHANGED loopVars
  BY MusicTypes DEF MusicInv, decode
<1> QED BY <1>4, <1>5 DEF MusicInv, MusicTypeOK, LoopIsAsked, loopVars, Moment

\* What touches only the buffers.
LEMMA OtherSteps ==
  ASSUME MusicInv, decodeFails \/ OnBufferEnd \/ UNCHANGED musicVars PROVE MusicInv'
<1>1. UNCHANGED <<loopVars, chunk>> /\ m_current_sample' \in Moment
      /\ available' \in 0 .. 2 /\ queued' \in 0 .. 2 /\ available' + queued' <= 2
  <2>1. CASE decodeFails
    BY <2>1, MusicTypes, FromMoment DEF MusicInv, decodeFails
  <2>2. CASE OnBufferEnd
    BY <2>2, MusicTypes DEF MusicInv, OnBufferEnd
  <2>3. CASE UNCHANGED musicVars
    BY <2>3, MusicTypes DEF MusicInv, musicVars, loopVars
  <2> QED BY <2>1, <2>2, <2>3
<1> QED BY <1>1 DEF MusicInv, MusicTypeOK, LoopIsAsked, loopVars, Moment

\* For files, buffers and words of any size: the loop the worker keeps is the
\* part of the asked range that lies in the file, however the range is given, but
\* for "LengthAndEndPoint".
THEOREM LoopAsAsked ==
  ASSUME RangeTypes \subseteq SoundTypes
  PROVE  MusicSpec => []LoopInv
<1>1. MusicInit => MusicInv
  BY MusicStarts
<1>2. MusicInv /\ [MusicNext]_musicVars => MusicInv'
  BY RangeSet, LoopUnset, PlayStep, DecodeStep, OtherSteps DEF MusicNext
<1>3. MusicInv => LoopInv
  BY DEF MusicInv, LoopInv
<1> QED BY <1>1, <1>2, <1>3, PTL DEF MusicSpec
------------------------------------------------------------------------------
(* The keyboard.  What the scripts read follows what the user does only      *)
(* after the messages under way are handled, so the invariant speaks of the  *)
(* places in the queue: what one message adds, a later one takes off again   *)
(* unless it is still justified, and what a key still held has shown stays.  *)

Message ==
  [kind : {"down", "up"}, key : Keys] \cup [kind : {"activate"}, key : {"None"}]

\* What takes a code off KeyState.
Clears(m, c) == m.kind = "activate" \/ (m.kind = "up" /\ c \in MayShow(m.key))
ClearedAfter(ms, i, c) == \E j \in i + 1 .. Len(ms) : Clears(ms[j], c)
ActivatedAfter(ms, i) == \E j \in i + 1 .. Len(ms) : ms[j].kind = "activate"

\* What puts a code into KeyState, place 0 standing for KeyState itself; and
\* what makes a key noticed, place 0 standing for noticed.
Codes(k) == {VirtualKey[k], Translated(k)}
Adds(ms, i, state, c) ==
  IF i = 0 THEN c \in state ELSE ms[i].kind = "down" /\ c \in Codes(ms[i].key)
Notices(ms, i, seen, k) ==
  IF i = 0 THEN k \in seen ELSE ms[i].kind = "down" /\ ms[i].key = k

Justified(c) == active /\ \E k \in held : c \in MayShow(k)

\* A code is shown for a key that is held, or will be taken off.
CodesLeave ==
  \A i \in 0 .. Len(messages) : \A c :
    Adds(messages, i, KeyState, c) => Justified(c) \/ ClearedAfter(messages, i, c)

\* A key that is noticed will be shown, unless a change of window is to come.
Stays(ms, state, k) ==
  \E j \in 0 .. Len(ms) :
    Adds(ms, j, state, Translated(k)) /\ ~ ClearedAfter(ms, j, Translated(k))

KeysStay ==
  \A i \in 0 .. Len(messages) : \A k \in held :
    Notices(messages, i, noticed, k) /\ ~ Shares(k) =>
      ActivatedAfter(messages, i) \/ Stays(messages, KeyState, k)

\* While another window has the focus, what was pressed before is reset by the
\* change to it.
OthersReset ==
  ~ active => \A i \in 1 .. Len(messages) :
                messages[i].kind = "down" => ActivatedAfter(messages, i)

KeysInv ==
  /\ active \in BOOLEAN /\ messages \in Seq(Message)
  /\ noticed \subseteq held /\ held \subseteq Keys
  /\ CodesLeave /\ KeysStay /\ OthersReset

------------------------------------------------------------------------------
\* The names one key has: the virtual key of the message and the translated code.
LEMMA KeyNames ==
  ASSUME NEW k \in Keys
  PROVE  \/ k = "A" /\ VirtualKey[k] = "A" /\ Translated(k) = "A"
         \/ k = "Enter" /\ VirtualKey[k] = "RETURN" /\ Translated(k) = "RETURN"
         \/ k = "NumEnter" /\ VirtualKey[k] = "RETURN" /\ Translated(k) = "NUMPADENTER"
         \/ k \in {"LShift", "RShift"} /\ VirtualKey[k] = "SHIFT" /\ Translated(k) = "LSHIFT"
         \/ k = "LCtrl" /\ VirtualKey[k] = "CONTROL" /\ Translated(k) = "LCONTROL"
         \/ k = "RCtrl" /\ VirtualKey[k] = "CONTROL" /\ Translated(k) = "RCONTROL"
<1>1. k \in {"A", "Enter", "NumEnter", "LShift", "RShift", "LCtrl", "RCtrl"}
  BY KeyboardAssumption DEF VirtualKey
<1> QED BY <1>1 DEF VirtualKey, Translated, IsExtendedKey

\* Only another shift, or a key it shares its code with, takes a key's code off.
LEMMA TakesOff ==
  ASSUME NEW k \in Keys, NEW o \in Keys, o # k, ~ Shares(k), Translated(k) \in MayShow(o)
  PROVE  VirtualKey[k] = "SHIFT" /\ VirtualKey[o] = "SHIFT"
<1>1. VirtualKey[o] # Translated(k)
  BY DEF Shares
<1> QED BY <1>1, KeyNames DEF MayShow

\* The two shifts show the same codes.
LEMMA ShiftsShowTheSame ==
  ASSUME NEW k \in Keys, NEW o \in Keys, VirtualKey[k] = "SHIFT", VirtualKey[o] = "SHIFT"
  PROVE  MayShow(k) = MayShow(o)
BY KeyNames DEF MayShow

\* A message more: what it clears, it clears for all that came before.
LEMMA Appended ==
  ASSUME NEW ms \in Seq(Message), NEW m \in Message
  PROVE  LET ns == Append(ms, m) IN
         /\ ns \in Seq(Message) /\ Len(ns) = Len(ms) + 1 /\ Len(ms) \in Nat /\ ns[Len(ns)] = m
         /\ \A i \in 1 .. Len(ms) : ns[i] = ms[i]
         /\ \A i \in 0 .. Len(ms) :
              /\ \A c : ClearedAfter(ns, i, c) <=> ClearedAfter(ms, i, c) \/ Clears(m, c)
              /\ ActivatedAfter(ns, i) <=> ActivatedAfter(ms, i) \/ m.kind = "activate"
         /\ \A c : ~ ClearedAfter(ns, Len(ns), c)
<1> DEFINE ns == Append(ms, m)
<1>1. ns \in Seq(Message) /\ Len(ns) = Len(ms) + 1 /\ Len(ms) \in Nat /\ ns[Len(ms) + 1] = m
      /\ \A i \in 1 .. Len(ms) : ns[i] = ms[i]
  BY AppendProperties
<1> HIDE DEF ns
<1> DEFINE n == Len(ms)
<1>2. n \in Nat /\ Len(ns) = n + 1 /\ ns[n + 1] = m /\ \A i \in 1 .. n : ns[i] = ms[i]
  BY <1>1
<1> HIDE DEF n
<1>3. ASSUME NEW i \in 0 .. n
      PROVE  /\ \A c : (\E j \in i + 1 .. Len(ns) : Clears(ns[j], c))
                         <=> (\E j \in i + 1 .. n : Clears(ms[j], c)) \/ Clears(m, c)
             /\ (\E j \in i + 1 .. Len(ns) : ns[j].kind = "activate")
                  <=> (\E j \in i + 1 .. n : ms[j].kind = "activate") \/ m.kind = "activate"
  <2>1. i + 1 .. Len(ns) = (i + 1 .. n) \cup {n + 1} /\ \A j \in i + 1 .. n : j \in 1 .. n
    BY <1>2
  <2> QED BY <1>2, <2>1
<1>4. Len(ns) + 1 .. Len(ns) = {}
  BY <1>2
<1> QED BY <1>1, <1>2, <1>3, <1>4 DEF ClearedAfter, ActivatedAfter, n, ns

\* The first message is handled: places move by one, and place 0 is KeyState.
LEMMA Taken ==
  ASSUME NEW ms \in Seq(Message), ms # << >>
  PROVE  LET ns == Tail(ms) IN
         /\ ns \in Seq(Message) /\ Len(ms) = Len(ns) + 1 /\ Len(ns) \in Nat
         /\ Head(ms) = ms[1] /\ ms[1] \in Message
         /\ \A i \in 1 .. Len(ns) : ns[i] = ms[i + 1]
         /\ \A i \in 0 .. Len(ns) :
              /\ i + 1 \in 1 .. Len(ms)
              /\ \A c : ClearedAfter(ns, i, c) <=> ClearedAfter(ms, i + 1, c)
              /\ ActivatedAfter(ns, i) <=> ActivatedAfter(ms, i + 1)
         /\ \A c : ClearedAfter(ms, 0, c) <=> ClearedAfter(ms, 1, c) \/ Clears(ms[1], c)
         /\ ActivatedAfter(ms, 0) <=> ActivatedAfter(ms, 1) \/ ms[1].kind = "activate"
<1> DEFINE ns == Tail(ms)
<1>1. ns \in Seq(Message) /\ Len(ns) = Len(ms) - 1 /\ Len(ms) \in Nat \ {0}
      /\ Head(ms) = ms[1] /\ ms[1] \in Message
      /\ \A i \in 1 .. Len(ns) : ns[i] = ms[i + 1]
  BY HeadTailProperties
<1> HIDE DEF ns
<1> DEFINE n == Len(ns)
<1>2. n \in Nat /\ Len(ms) = n + 1 /\ \A i \in 1 .. n : ns[i] = ms[i + 1]
  BY <1>1
<1> HIDE DEF n
<1>3. ASSUME NEW i \in 0 .. n
      PROVE  /\ \A c : (\E j \in i + 1 .. n : Clears(ns[j], c))
                         <=> (\E j \in i + 1 + 1 .. n + 1 : Clears(ms[j], c))
             /\ (\E j \in i + 1 .. n : ns[j].kind = "activate")
                  <=> (\E j \in i + 1 + 1 .. n + 1 : ms[j].kind = "activate")
  <2>1. \A j \in i + 1 .. n : j + 1 \in i + 1 + 1 .. n + 1 /\ ns[j] = ms[j + 1]
    BY <1>2
  <2>2. \A j \in i + 1 + 1 .. n + 1 : j - 1 \in i + 1 .. n /\ ms[j] = ns[j - 1]
    BY <1>2
  <2> QED BY <2>1, <2>2
<1>4. /\ \A c : (\E j \in 0 + 1 .. n + 1 : Clears(ms[j], c))
                  <=> (\E j \in 1 + 1 .. n + 1 : Clears(ms[j], c)) \/ Clears(ms[1], c)
      /\ (\E j \in 0 + 1 .. n + 1 : ms[j].kind = "activate")
           <=> (\E j \in 1 + 1 .. n + 1 : ms[j].kind = "activate") \/ ms[1].kind = "activate"
  <2>1. 0 + 1 .. n + 1 = {1} \cup (1 + 1 .. n + 1)
    BY <1>2
  <2> QED BY <2>1
<1>5. \A i \in 0 .. n : i + 1 \in 1 .. Len(ms)
  BY <1>2
<1> QED BY <1>1, <1>2, <1>3, <1>4, <1>5 DEF ClearedAfter, ActivatedAfter, n, ns

\* A message more leaves what the earlier ones add and make noticed.
LEMMA AppendedSources ==
  ASSUME NEW ms \in Seq(Message), NEW m \in Message, NEW i \in 0 .. Len(ms)
  PROVE  /\ i \in 0 .. Len(Append(ms, m))
         /\ \A state, c : Adds(Append(ms, m), i, state, c) <=> Adds(ms, i, state, c)
         /\ \A seen, k : Notices(Append(ms, m), i, seen, k) <=> Notices(ms, i, seen, k)
<1>1. Len(ms) \in Nat /\ Len(Append(ms, m)) = Len(ms) + 1
      /\ (i # 0 => Append(ms, m)[i] = ms[i])
  BY Appended
<1>2. i \in 0 .. Len(Append(ms, m))
  BY <1>1
<1> QED BY <1>1, <1>2 DEF Adds, Notices

\* A code that will be shown still will be when the new message does not clear it.
LEMMA StaysAppended ==
  ASSUME NEW ms \in Seq(Message), NEW m \in Message, NEW state, NEW k,
         Stays(ms, state, k), ~ Clears(m, Translated(k))
  PROVE  Stays(Append(ms, m), state, k)
<1>1. PICK j \in 0 .. Len(ms) :
        Adds(ms, j, state, Translated(k)) /\ ~ ClearedAfter(ms, j, Translated(k))
  BY DEF Stays
<1>2. Adds(Append(ms, m), j, state, Translated(k)) /\ j \in 0 .. Len(Append(ms, m))
  BY <1>1, AppendedSources
<1>3. ~ ClearedAfter(Append(ms, m), j, Translated(k))
  BY <1>1, Appended
<1> QED BY <1>2, <1>3 DEF Stays

\* What a message makes of KeyState.
Handled(state, m) ==
  CASE m.kind = "activate" -> {}
    [] m.kind = "down" -> state \cup Codes(m.key)
    [] m.kind = "up" -> state \ MayShow(m.key)

\* The codes after a message: those it does not clear and those it adds.
LEMMA HandledCodes ==
  ASSUME NEW state, NEW m \in Message, NEW c
  PROVE  c \in Handled(state, m)
           <=> \/ c \in state /\ ~ Clears(m, c)
               \/ m.kind = "down" /\ c \in Codes(m.key)
<1>1. m.kind \in {"activate", "down", "up"}
  BY DEF Message
<1> QED BY <1>1 DEF Handled, Clears

\* ProcessMessage in terms of Handled.
LEMMA MessageHandled ==
  ASSUME KeysInv, ProcessMessage
  PROVE  /\ messages # << >> /\ messages' = Tail(messages) /\ messages[1] \in Message
         /\ KeyState' = Handled(KeyState, messages[1])
         /\ messages[1].kind = "activate" => noticed' = {}
         /\ messages[1].kind = "down" => noticed' = noticed \cup ({messages[1].key} \cap held)
         /\ messages[1].kind = "up" => noticed' = noticed
         /\ held' = held /\ active' = active
<1> DEFINE m == messages[1]
<1>1. messages # << >> /\ messages' = Tail(messages) /\ Head(messages) = m /\ m \in Message
  BY Taken DEF KeysInv, ProcessMessage
<1>2. m.kind \in {"activate", "down", "up"}
  BY <1>1 DEF Message
<1> HIDE DEF m
<1>3. KeyState' = Handled(KeyState, m)
  BY <1>1, <1>2 DEF ProcessMessage, ResetKeyboard, Handled, Codes, MayShow, ShiftsCleared
<1>4. /\ m.kind = "activate" => noticed' = {}
      /\ m.kind = "down" => noticed' = noticed \cup ({m.key} \cap held)
      /\ m.kind = "up" => noticed' = noticed
      /\ held' = held /\ active' = active
  BY <1>1, <1>2 DEF ProcessMessage, ResetKeyboard
<1> QED BY <1>1, <1>3, <1>4 DEF m

\* What place i adds after a message was handled, place i + 1 added before, or
\* KeyState did.
LEMMA SourcesTaken ==
  ASSUME NEW ms \in Seq(Message), ms # << >>, NEW state, NEW i \in 0 .. Len(Tail(ms)), NEW c
  PROVE  Adds(Tail(ms), i, Handled(state, ms[1]), c)
           <=> \/ Adds(ms, i + 1, state, c)
               \/ i = 0 /\ c \in state /\ ~ Clears(ms[1], c)
<1>1. i + 1 # 0 /\ (i # 0 => Tail(ms)[i] = ms[i + 1]) /\ ms[1] \in Message
      /\ Len(Tail(ms)) \in Nat
  <2>1. Len(Tail(ms)) \in Nat /\ ms[1] \in Message
        /\ \A j \in 1 .. Len(Tail(ms)) : Tail(ms)[j] = ms[j + 1]
    BY Taken
  <2> QED BY <2>1
<1>2. CASE i = 0
  BY <1>1, <1>2, HandledCodes DEF Adds
<1>3. CASE i # 0
  BY <1>1, <1>3 DEF Adds
<1> QED BY <1>2, <1>3

\* A code that will be shown still will be when a message is handled.
LEMMA StaysTaken ==
  ASSUME NEW ms \in Seq(Message), ms # << >>, NEW state, NEW k, Stays(ms, state, k)
  PROVE  Stays(Tail(ms), Handled(state, ms[1]), k)
<1> DEFINE c == Translated(k)
<1>1. PICK j \in 0 .. Len(ms) : Adds(ms, j, state, c) /\ ~ ClearedAfter(ms, j, c)
  BY DEF Stays
<1>2. Len(ms) = Len(Tail(ms)) + 1 /\ Len(Tail(ms)) \in Nat
  BY Taken
<1> HIDE DEF c
<1>3. CASE j = 0
  <2>1. c \in state
    BY <1>1, <1>3 DEF Adds
  <2>2. ~ ClearedAfter(ms, 1, c) /\ ~ Clears(ms[1], c)
    BY <1>1, <1>3, Taken
  <2>3. 0 \in 0 .. Len(Tail(ms)) /\ 0 + 1 = 1
    BY <1>2
  <2>4. ~ ClearedAfter(Tail(ms), 0, c)
    BY <2>2, <2>3, Taken
  <2>5. Adds(Tail(ms), 0, Handled(state, ms[1]), c)
    BY <2>1, <2>2, <2>3, SourcesTaken
  <2> QED BY <2>3, <2>4, <2>5 DEF Stays, c
<1>4. CASE j # 0
  <2>1. PICK i : i = j - 1
    OBVIOUS
  <2>2. i \in 0 .. Len(Tail(ms)) /\ i + 1 = j
    BY <1>2, <1>4, <2>1
  <2>3. ~ ClearedAfter(Tail(ms), i, c)
    BY <1>1, <2>2, Taken
  <2>4. Adds(Tail(ms), i, Handled(state, ms[1]), c)
    BY <1>1, <2>2, SourcesTaken
  <2> QED BY <2>2, <2>3, <2>4 DEF Stays, c
<1> QED BY <1>3, <1>4

\* Handling a message.
LEMMA ProcessStep ==
  ASSUME KeysInv, ProcessMessage PROVE KeysInv'
<1> DEFINE m == messages[1]
<1>1. /\ messages \in Seq(Message) /\ messages # << >> /\ messages' = Tail(messages)
      /\ KeyState' = Handled(KeyState, m) /\ m \in Message
      /\ m.kind = "activate" => noticed' = {}
      /\ m.kind = "down" => noticed' = noticed \cup ({m.key} \cap held)
      /\ m.kind = "up" => noticed' = noticed
      /\ held' = held /\ active' = active
      /\ m.kind \in {"activate", "down", "up"}
  BY MessageHandled DEF KeysInv, Message
<1>2. /\ messages' \in Seq(Message) /\ Len(messages) = Len(messages') + 1 /\ Len(messages') \in Nat
      /\ \A i \in 1 .. Len(messages') : messages'[i] = messages[i + 1]
      /\ \A i \in 0 .. Len(messages') :
           /\ i + 1 \in 1 .. Len(messages)
           /\ \A c : ClearedAfter(messages', i, c) <=> ClearedAfter(messages, i + 1, c)
           /\ ActivatedAfter(messages', i) <=> ActivatedAfter(messages, i + 1)
      /\ \A c : ClearedAfter(messages, 0, c) <=> ClearedAfter(messages, 1, c) \/ Clears(m, c)
      /\ ActivatedAfter(messages, 0) <=> ActivatedAfter(messages, 1) \/ m.kind = "activate"
  BY <1>1, Taken
<1>3. \A i \in 0 .. Len(messages') : i + 1 \in 0 .. Len(messages) /\ 0 \in 0 .. Len(messages)
                                  /\ (i = 0 => i + 1 = 1) /\ i + 1 # 0
  BY <1>2
<1>4. \A i \in 0 .. Len(messages') : \A c :
        Adds(messages', i, KeyState', c)
          <=> \/ Adds(messages, i + 1, KeyState, c)
              \/ i = 0 /\ c \in KeyState /\ ~ Clears(m, c)
  BY <1>1, SourcesTaken
<1> HIDE DEF m
<1>5. CodesLeave'
  <2> SUFFICES ASSUME NEW i \in 0 .. Len(messages'), NEW c, Adds(messages', i, KeyState', c)
               PROVE  Justified(c)' \/ ClearedAfter(messages', i, c)
    BY DEF CodesLeave
  <2>1. Justified(c) => Justified(c)'
    BY <1>1 DEF Justified
  <2>2. CASE Adds(messages, i + 1, KeyState, c)
    <3>1. Justified(c) \/ ClearedAfter(messages, i + 1, c)
      BY <1>3, <2>2 DEF KeysInv, CodesLeave
    <3> QED BY <1>2, <2>1, <3>1
  <2>3. CASE i = 0 /\ c \in KeyState /\ ~ Clears(m, c)
    <3>1. Adds(messages, 0, KeyState, c)
      BY <2>3 DEF Adds
    <3>2. Justified(c) \/ ClearedAfter(messages, 0, c)
      BY <1>3, <2>3, <3>1 DEF KeysInv, CodesLeave
    <3>3. ClearedAfter(messages, 0, c) => ClearedAfter(messages', 0, c)
      BY <1>2, <1>3, <2>3
    <3> QED BY <2>1, <2>3, <3>2, <3>3
  <2> QED BY <1>4, <2>2, <2>3
<1>6. KeysStay'
  <2> SUFFICES ASSUME NEW i \in 0 .. Len(messages'), NEW k \in held',
                      Notices(messages', i, noticed', k), ~ Shares(k)
               PROVE  ActivatedAfter(messages', i) \/ Stays(messages', KeyState', k)
    BY DEF KeysStay
  <2>1. Stays(messages, KeyState, k) => Stays(messages', KeyState', k)
    BY <1>1, StaysTaken DEF m
  <2>2. CASE Notices(messages, i + 1, noticed, k)
    <3>1. ActivatedAfter(messages, i + 1) \/ Stays(messages, KeyState, k)
      BY <1>1, <1>3, <2>2 DEF KeysInv, KeysStay
    <3> QED BY <1>2, <2>1, <3>1
  <2>3. CASE i = 0 /\ k \in noticed /\ m.kind # "activate"
    <3>1. Notices(messages, 0, noticed, k)
      BY <2>3 DEF Notices
    <3>2. ActivatedAfter(messages, 0) \/ Stays(messages, KeyState, k)
      BY <1>1, <1>3, <3>1 DEF KeysInv, KeysStay
    <3>3. ActivatedAfter(messages, 0) => ActivatedAfter(messages', 0)
      BY <1>2, <1>3, <2>3
    <3> QED BY <2>1, <2>3, <3>2, <3>3
  <2>4. Notices(messages, i + 1, noticed, k) \/ (i = 0 /\ k \in noticed /\ m.kind # "activate")
    <3>1. CASE i = 0
      BY <1>1, <1>3, <3>1 DEF Notices, m
    <3>2. CASE i # 0
      BY <1>2, <1>3, <3>2 DEF Notices
    <3> QED BY <3>1, <3>2
  <2> QED BY <2>2, <2>3, <2>4
<1>7. OthersReset'
  <2> SUFFICES ASSUME ~ active, NEW i \in 1 .. Len(messages'), messages'[i].kind = "down"
               PROVE  ActivatedAfter(messages', i)
    BY <1>1 DEF OthersReset
  <2>1. i \in 0 .. Len(messages') /\ i + 1 \in 1 .. Len(messages) /\ messages[i + 1].kind = "down"
    BY <1>2
  <2> QED BY <1>2, <2>1 DEF KeysInv, OthersReset
<1>8. noticed' \subseteq held'
  BY <1>1 DEF KeysInv
<1> QED BY <1>1, <1>2, <1>5, <1>6, <1>7, <1>8 DEF KeysInv

\* What a message that comes last changes, for whatever is held then.
LEMMA PostStep ==
  ASSUME KeysInv, NEW m \in Message, messages' = Append(messages, m), KeyState' = KeyState,
         active' \in BOOLEAN, held' \subseteq Keys, noticed' \subseteq held',
         noticed' \subseteq noticed,
         \A c : Justified(c) => Justified(c)' \/ Clears(m, c),
         \A c : m.kind = "down" /\ c \in Codes(m.key) => Justified(c)',
         m.kind = "activate" \/ \A k \in held' : ~ Shares(k) =>
            \/ m.kind = "down" /\ m.key = k
            \/ k \in held /\ ~ Clears(m, Translated(k)),
         ~ active' => m.kind = "activate"
  PROVE  KeysInv'
<1>1. /\ messages \in Seq(Message) /\ messages' \in Seq(Message)
      /\ Len(messages) \in Nat /\ Len(messages') = Len(messages) + 1
      /\ messages'[Len(messages')] = m
      /\ \A i \in 1 .. Len(messages) : messages'[i] = messages[i]
      /\ \A i \in 0 .. Len(messages) :
           /\ \A c : ClearedAfter(messages', i, c) <=> ClearedAfter(messages, i, c) \/ Clears(m, c)
           /\ ActivatedAfter(messages', i) <=> ActivatedAfter(messages, i) \/ m.kind = "activate"
      /\ \A c : ~ ClearedAfter(messages', Len(messages'), c)
  BY Appended DEF KeysInv
<1>2. \A i \in 0 .. Len(messages') : i \in 0 .. Len(messages) \/ (i = Len(messages') /\ i # 0)
  BY <1>1
<1>3. \A i \in 0 .. Len(messages) :
        /\ \A c : Adds(messages', i, KeyState', c) <=> Adds(messages, i, KeyState, c)
        /\ \A k : Notices(messages', i, noticed', k) => Notices(messages, i, noticed, k)
  <2> SUFFICES ASSUME NEW i \in 0 .. Len(messages)
               PROVE  /\ \A c : Adds(messages', i, KeyState', c) <=> Adds(messages, i, KeyState, c)
                      /\ \A k : Notices(messages', i, noticed', k) => Notices(messages, i, noticed, k)
    OBVIOUS
  <2>1. \A c : Adds(messages', i, KeyState', c) <=> Adds(messages, i, KeyState, c)
    BY <1>1, AppendedSources
  <2>2. \A k : Notices(messages', i, noticed', k) <=> Notices(messages, i, noticed', k)
    BY <1>1, AppendedSources
  <2>3. \A k : Notices(messages, i, noticed', k) => Notices(messages, i, noticed, k)
    BY DEF Notices
  <2> QED BY <2>1, <2>2, <2>3
<1>4. CodesLeave'
  <2> SUFFICES ASSUME NEW i \in 0 .. Len(messages'), NEW c, Adds(messages', i, KeyState', c)
               PROVE  Justified(c)' \/ ClearedAfter(messages', i, c)
    BY DEF CodesLeave
  <2>1. CASE i \in 0 .. Len(messages)
    <3>1. Justified(c) \/ ClearedAfter(messages, i, c)
      BY <1>3, <2>1 DEF KeysInv, CodesLeave
    <3> QED BY <1>1, <2>1, <3>1
  <2>2. CASE i = Len(messages') /\ i # 0
    <3>1. m.kind = "down" /\ c \in Codes(m.key)
      BY <1>1, <2>2 DEF Adds
    <3> QED BY <3>1
  <2> QED BY <1>2, <2>1, <2>2
<1>5. KeysStay'
  <2> SUFFICES ASSUME NEW i \in 0 .. Len(messages'), NEW k \in held',
                      Notices(messages', i, noticed', k), ~ Shares(k)
               PROVE  ActivatedAfter(messages', i) \/ Stays(messages', KeyState', k)
    BY DEF KeysStay
  <2>1. CASE m.kind = "activate"
    <3>1. i \in 0 .. Len(messages)
      <4>1. CASE i = Len(messages') /\ i # 0
        BY <1>1, <2>1, <4>1 DEF Notices
      <4> QED BY <1>2, <4>1
    <3> QED BY <1>1, <2>1, <3>1
  <2>2. CASE m.kind = "down" /\ m.key = k
    <3>1. Adds(messages', Len(messages'), KeyState', Translated(k))
      BY <1>1, <2>2 DEF Adds, Codes
    <3>2. Len(messages') \in 0 .. Len(messages')
      BY <1>1
    <3> QED BY <1>1, <3>1, <3>2 DEF Stays
  <2>3. CASE m.kind # "activate" /\ ~ (m.kind = "down" /\ m.key = k)
    <3>1. k \in held /\ ~ Clears(m, Translated(k))
      BY <2>3
    <3>2. i \in 0 .. Len(messages) /\ Notices(messages, i, noticed, k)
      <4>1. CASE i = Len(messages') /\ i # 0
        BY <1>1, <2>3, <4>1 DEF Notices
      <4> QED BY <1>2, <1>3, <4>1
    <3>3. ActivatedAfter(messages, i) \/ Stays(messages, KeyState, k)
      BY <3>1, <3>2 DEF KeysInv, KeysStay
    <3>4. Stays(messages, KeyState, k) => Stays(messages', KeyState', k)
      BY <1>1, <3>1, StaysAppended
    <3> QED BY <1>1, <3>2, <3>3, <3>4
  <2> QED BY <2>1, <2>2, <2>3
<1>6. OthersReset'
  <2> SUFFICES ASSUME ~ active', NEW i \in 1 .. Len(messages'), messages'[i].kind = "down"
               PROVE  ActivatedAfter(messages', i)
    BY DEF OthersReset
  <2>1. m.kind = "activate"
    OBVIOUS
  <2>2. i \in 0 .. Len(messages)
    BY <1>1, <2>1
  <2> QED BY <1>1, <2>1, <2>2
<1> QED BY <1>1, <1>4, <1>5, <1>6 DEF KeysInv

\* What changes when the messages stay as they are.
LEMMA SilentStep ==
  ASSUME KeysInv, UNCHANGED <<active, messages, KeyState>>, held' \subseteq Keys,
         noticed' \subseteq held', noticed' \subseteq noticed,
         \A c : Justified(c) => Justified(c)', active => held' \subseteq held
  PROVE  KeysInv'
<1>1. CodesLeave'
  <2> SUFFICES ASSUME NEW i \in 0 .. Len(messages), NEW c, Adds(messages, i, KeyState, c)
               PROVE  Justified(c)' \/ ClearedAfter(messages, i, c)
    BY DEF CodesLeave
  <2> QED BY DEF KeysInv, CodesLeave
<1>2. KeysStay'
  <2> SUFFICES ASSUME NEW i \in 0 .. Len(messages), NEW k \in held',
                      Notices(messages, i, noticed', k), ~ Shares(k)
               PROVE  ActivatedAfter(messages, i) \/ Stays(messages, KeyState, k)
    BY DEF KeysStay
  <2>1. Notices(messages, i, noticed, k)
    BY DEF Notices
  <2>2. CASE k \in held
    BY <2>1, <2>2 DEF KeysInv, KeysStay
  <2>3. CASE k \notin held
    <3>1. ~ active /\ i # 0
      BY <2>1, <2>3 DEF Notices, KeysInv
    <3>2. i \in 1 .. Len(messages) /\ messages[i].kind = "down"
      <4>1. Len(messages) \in Nat
        BY DEF KeysInv
      <4> QED BY <2>1, <3>1, <4>1 DEF Notices
    <3> QED BY <3>1, <3>2 DEF KeysInv, OthersReset
  <2> QED BY <2>2, <2>3
<1>3. OthersReset'
  BY DEF KeysInv, OthersReset
<1> QED BY <1>1, <1>2, <1>3 DEF KeysInv

\* A key goes down.
LEMMA PressStep ==
  ASSUME KeysInv, NEW k \in Keys, Press(k) PROVE KeysInv'
<1>1. /\ held' = held \cup {k} /\ active' = active /\ noticed' = noticed /\ KeyState' = KeyState
      /\ held' \subseteq Keys /\ noticed' \subseteq held' /\ active \in BOOLEAN
  BY DEF KeysInv, Press, unhandled
<1>2. \A c : Justified(c) => Justified(c)'
  BY <1>1 DEF Justified
<1>3. CASE active
  <2> DEFINE m == [kind |-> "down", key |-> k]
  <2>1. messages' = Append(messages, m) /\ m \in Message /\ m.kind = "down" /\ m.key = k
    BY <1>3 DEF Press, Post, Message
  <2>2. \A c \in Codes(k) : Justified(c)'
    BY <1>1, <1>3 DEF Justified, Codes, MayShow
  <2>3. \A c : ~ Clears(m, c)
    BY DEF Clears
  <2> HIDE DEF m
  <2>4. \A j \in held' : ~ Shares(j) => (m.kind = "down" /\ m.key = j)
                                       \/ (j \in held /\ ~ Clears(m, Translated(j)))
    BY <1>1, <2>1, <2>3
  <2> QED BY <1>1, <1>2, <1>3, <2>1, <2>2, <2>4, PostStep
<1>4. CASE ~ active
  <2>1. messages' = messages
    BY <1>4 DEF Press, Post
  <2> QED BY <1>1, <1>2, <1>4, <2>1, SilentStep
<1> QED BY <1>3, <1>4

\* A key comes up.
LEMMA ReleaseStep ==
  ASSUME KeysInv, NEW k \in Keys, Release(k) PROVE KeysInv'
<1>1. /\ held' = held \ {k} /\ active' = active /\ noticed' = noticed \ {k} /\ KeyState' = KeyState
      /\ held' \subseteq Keys /\ noticed' \subseteq held' /\ active \in BOOLEAN
      /\ held \subseteq Keys
  BY DEF KeysInv, Release, unhandled
<1>2. \A c : Justified(c) => Justified(c)' \/ c \in MayShow(k)
  BY <1>1 DEF Justified
<1> DEFINE silent == VirtualKey[k] = "SHIFT" /\ \E s \in held' : VirtualKey[s] = "SHIFT"
<1>3. CASE active /\ ~ silent
  <2> DEFINE m == [kind |-> "up", key |-> k]
  <2>1. messages' = Append(messages, m) /\ m \in Message /\ m.kind = "up" /\ m.key = k
    BY <1>3 DEF Release, Post, Message
  <2> HIDE DEF m
  <2>2. \A c : Clears(m, c) <=> c \in MayShow(k)
    BY <2>1 DEF Clears
  <2>3. \A j \in held' : ~ Shares(j) => j \in held /\ ~ Clears(m, Translated(j))
    <3> SUFFICES ASSUME NEW j \in held', ~ Shares(j), Translated(j) \in MayShow(k) PROVE FALSE
      BY <1>1, <2>2
    <3>1. j \in Keys /\ j # k
      BY <1>1
    <3>2. VirtualKey[j] = "SHIFT" /\ VirtualKey[k] = "SHIFT"
      BY <3>1, TakesOff
    <3> QED BY <1>3, <3>2
  <2> HIDE DEF silent
  <2> QED BY <1>1, <1>2, <1>3, <2>1, <2>2, <2>3, PostStep
<1>4. CASE ~ active \/ silent
  <2>1. messages' = messages
    BY <1>4 DEF Release, Post
  <2>2. \A c : Justified(c) => Justified(c)'
    <3> SUFFICES ASSUME NEW c, Justified(c) PROVE Justified(c)'
      OBVIOUS
    <3>1. active /\ silent
      BY <1>4 DEF Justified
    <3>2. PICK s \in held' : VirtualKey[s] = "SHIFT"
      BY <3>1
    <3>3. s \in Keys /\ VirtualKey[k] = "SHIFT"
      BY <1>1, <3>1
    <3>4. MayShow(k) = MayShow(s)
      BY <3>2, <3>3, ShiftsShowTheSame
    <3> QED BY <1>1, <1>2, <3>1, <3>4 DEF Justified
  <2> HIDE DEF silent
  <2> QED BY <1>1, <2>1, <2>2, SilentStep
<1> QED BY <1>3, <1>4

\* The focus goes to another window or comes back.
LEMMA SwitchStep ==
  ASSUME KeysInv, SwitchWindow PROVE KeysInv'
<1> DEFINE m == [kind |-> "activate", key |-> "None"]
<1>1. messages' = Append(messages, m) /\ m \in Message /\ m.kind = "activate"
  BY DEF SwitchWindow, Message
<1>2. \A c : Clears(m, c)
  BY DEF Clears
<1>3. held' = held /\ noticed' = noticed /\ KeyState' = KeyState /\ active' \in BOOLEAN
      /\ held \subseteq Keys /\ noticed \subseteq held
  BY DEF KeysInv, SwitchWindow, unhandled
<1> HIDE DEF m
<1>4. m.kind # "down"
  BY <1>1
<1> QED BY <1>1, <1>2, <1>3, <1>4, PostStep

\* Input is opened anew.
LEMMA OpenStep ==
  ASSUME KeysInv, OpenInput PROVE KeysInv'
<1>1. messages' = << >> /\ KeyState' = {} /\ noticed' = {} /\ held' = held /\ active' = active
  BY DEF OpenInput, ResetKeyboard
<1>2. messages' \in Seq(Message) /\ Len(messages') = 0
  BY <1>1, EmptySeq
<1>3. 0 .. Len(messages') = {0} /\ 1 .. Len(messages') = {}
  BY <1>2
<1>4. CodesLeave' /\ KeysStay' /\ OthersReset'
  BY <1>1, <1>3 DEF CodesLeave, KeysStay, OthersReset, Adds, Notices
<1> QED BY <1>1, <1>2, <1>4 DEF KeysInv

\* Every step.
LEMMA KeysStep ==
  ASSUME KeysInv, [KeyboardNext]_keyVars PROVE KeysInv'
<1>1. CASE \E k \in Keys : Press(k) \/ Release(k)
  BY <1>1, PressStep, ReleaseStep
<1>2. CASE SwitchWindow
  BY <1>2, SwitchStep
<1>3. CASE ProcessMessage
  BY <1>3, ProcessStep
<1>4. CASE OpenInput
  BY <1>4, OpenStep
<1>5. CASE UpdateInput \/ ResetKeyboardInput \/ UNCHANGED keyVars
  <2>1. UNCHANGED <<held, active, messages, KeyState, noticed>>
    BY <1>5 DEF UpdateInput, ResetKeyboardInput, keyVars
  <2>2. \A c : Justified(c) => Justified(c)'
    BY <2>1 DEF Justified
  <2>3. held' \subseteq Keys /\ noticed' \subseteq held'
    BY <2>1 DEF KeysInv
  <2> QED BY <2>1, <2>2, <2>3, SilentStep
<1> QED BY <1>1, <1>2, <1>3, <1>4, <1>5 DEF KeyboardNext

\* With no message under way, the places of KeysInv come down to place 0.
LEMMA KeysMean ==
  ASSUME KeysInv PROVE KeyboardInv
<1> SUFFICES ASSUME messages = << >>
             PROVE  /\ \A c \in KeyState : active /\ \E k \in held : c \in MayShow(k)
                    /\ \A k \in noticed : Shares(k) \/ Translated(k) \in KeyState
  BY DEF KeyboardInv
<1>1. Len(messages) = 0
  BY EmptySeq
<1>2. 0 .. Len(messages) = {0} /\ 0 + 1 .. Len(messages) = {}
  BY <1>1
<1>3. \A c \in KeyState : Justified(c)
  BY <1>2 DEF KeysInv, CodesLeave, Adds, ClearedAfter
<1>4. \A k \in noticed : Shares(k) \/ Translated(k) \in KeyState
  BY <1>2 DEF KeysInv, KeysStay, Notices, ActivatedAfter, Stays, Adds
<1> QED BY <1>3, <1>4 DEF Justified

\* For any number of messages under way and whatever the user does while another
\* window has the focus: when all messages are handled, no key is stuck and none
\* that was pressed in the window is missing.
THEOREM KeysAgree == KeyboardSpec => []KeyboardInv
<1>1. KeyboardInit => KeysInv
  <2> SUFFICES ASSUME KeyboardInit PROVE KeysInv
    OBVIOUS
  <2>1. messages = << >> /\ messages \in Seq(Message) /\ Len(messages) = 0
    BY EmptySeq DEF KeyboardInit
  <2>2. 0 .. Len(messages) = {0} /\ 1 .. Len(messages) = {}
    BY <2>1
  <2>3. CodesLeave /\ KeysStay /\ OthersReset
    BY <2>2 DEF KeyboardInit, CodesLeave, KeysStay, OthersReset, Adds, Notices
  <2> QED BY <2>1, <2>3 DEF KeysInv, KeyboardInit
<1>2. KeysInv /\ [KeyboardNext]_keyVars => KeysInv'
  BY KeysStep
<1>3. KeysInv => KeyboardInv
  BY KeysMean
<1> QED BY <1>1, <1>2, <1>3, PTL DEF KeyboardSpec
------------------------------------------------------------------------------
(* The video decoder.  What is shown is never more than two ticks after the  *)
(* latest time asked since the times only crept back, and the reader stands  *)
(* behind m_current_time.                                                    *)

\* The reader is not past the time it is told to be at.
NextBehind == HasDuration => 2 * next <= m_current_time + 2

\* Unless something went wrong, m_current_time is the time of what is shown, and
\* it was shown for the latest time asked since then or before.
TimeOfShown ==
  HasDuration /\ loose = "no" =>
    shown >= 0 /\ m_current_time = 2 * shown /\ 2 * shown <= latest + 2

VidInv ==
  /\ VideoTypeOK /\ m_loop_state.start \in Int /\ m_loop_state.end \in Int
  /\ RangeInside /\ TextureOfDevice /\ NextBehind /\ TimeOfShown /\ UpdateShowsTime

------------------------------------------------------------------------------
Below == {ss \in Nat \X Nat : ss[1] < ss[2]}

\* A set of numbers that is not empty has a least one.
LEMMA LeastOf ==
  ASSUME NEW S \in SUBSET Nat, S # {}
  PROVE  \E x \in S : \A y \in S : x <= y
<1>1. IsWellFoundedOn(Below, Nat)
  BY NatLessThanWellFounded DEF Below, OpToRel
<1>2. PICK x \in S : \A y \in S : ~ (<<y, x>> \in Below)
  BY <1>1, WFMin
<1>3. \A y \in S : <<y, x>> \in Nat \X Nat /\ (y < x => <<y, x>> \in Below)
  BY DEF Below
<1>4. \A y \in S : ~ (y < x)
  BY <1>2, <1>3
<1> QED BY <1>4

\* The last key frame that is not after a time: there is one, as frame 0 is a key frame.
LEMMA KeyFrameFound ==
  ASSUME NEW t \in Nat
  PROVE  KeyFrame(t) \in 0 .. LastFrame /\ 2 * KeyFrame(t) <= t
<1> DEFINE S == {x \in 0 .. Frames : \A k \in KeyFrames : 2 * k <= t => k <= x}
<1>0. Frames \in Nat \ {0} /\ 0 \in KeyFrames /\ KeyFrames \subseteq 0 .. Frames - 1
  BY VideoAssumption
<1>1. S \in SUBSET Nat /\ Frames \in S
  BY <1>0
<1>2. PICK x \in S : \A y \in S : x <= y
  BY <1>1, LeastOf
<1>3. x \in KeyFrames /\ 2 * x <= t
  <2> SUFFICES ASSUME ~ (x \in KeyFrames /\ 2 * x <= t) PROVE FALSE
    OBVIOUS
  <2>1. \A k \in KeyFrames : 2 * k <= t => k <= x - 1 /\ k \in Nat
    BY <1>0, <1>2
  <2>2. x # 0
    BY <1>0, <2>1
  <2>3. x - 1 \in S
    BY <1>0, <1>2, <2>1, <2>2
  <2> QED BY <1>2, <2>3
<1>4. \E k \in KeyFrames : 2 * k <= t /\ \A j \in KeyFrames : 2 * j <= t => j <= k
  BY <1>2, <1>3
<1> QED BY <1>0, <1>4 DEF KeyFrame, LastFrame

\* Two remainders of one length that are less than it apart are the same.
LEMMA Turns ==
  ASSUME NEW n \in Nat \ {0}, NEW x \in Int
  PROVE  x % n \in 0 .. n - 1 /\ x = n * (x \div n) + (x % n) /\ x \div n \in Int
OBVIOUS

\* Less than one turn apart and by whole turns is not apart.
LEMMA OneTurn ==
  ASSUME NEW n \in Nat \ {0}, NEW d \in Int, d % n = 0, d > - n, d < n
  PROVE  d = 0
<1> DEFINE q == d \div n
<1>1. q \in Int /\ d = n * q
  BY Turns
<1> HIDE DEF q
<1>2. CASE q >= 1
  BY <1>1, <1>2
<1>3. CASE q <= -1
  BY <1>1, <1>3
<1> QED BY <1>1, <1>2, <1>3

------------------------------------------------------------------------------
VideoPicture == [shown : -1 .. LastFrame, time : 0 .. Duration, next : 0 .. Frames]
Sane(p) == p \in VideoPicture /\ 2 * p.next <= p.time + 2

\* What reading to time t leaves, from a picture whose next frame is not after t.
Good(r, t) ==
  /\ r.how \in {"there", "short", "end", "failed"} /\ Sane(r.picture)
  /\ r.how = "there" =>
       /\ r.picture.shown >= 0 /\ r.picture.time = 2 * r.picture.shown
       /\ t <= 2 * r.picture.shown /\ 2 * r.picture.shown <= t + 2

\* Reading on: the first frame not before t is at most a frame after it.
LEMMA FramesRead ==
  ASSUME NEW p, Sane(p), NEW n \in Nat \ {0}, NEW t \in 0 .. Duration, m_duration = Duration,
         2 * p.next <= t + 2, NEW r \in readFrames(p, n, t)
  PROVE  Good(r, t)
<1> DEFINE R == Reached(p, n, t)
           f == CHOOSE f \in R : \A g \in R : f <= g
           before == IF f = p.next THEN p ELSE At(f - 1)
<1>0. /\ Frames \in Nat \ {0} /\ Duration \in Nat /\ 2 * Frames - 2 < Duration
      /\ p \in VideoPicture /\ p.next \in 0 .. Frames /\ LastFrame = Frames - 1
  BY VideoAssumption DEF Sane, VideoPicture, LastFrame
<1>1. R \in SUBSET Nat /\ R # {} /\ (p.next + n - 1 >= Frames => Frames \in R)
  <2>1. p.next + n - 1 \in R
    BY <1>0 DEF Reached
  <2> QED BY <1>0, <2>1 DEF Reached
<1>2. f \in R /\ \A g \in R : f <= g
  BY <1>1, LeastOf
<1> HIDE DEF f
<1>3. /\ f \in Nat /\ f <= Frames /\ p.next <= f /\ f <= p.next + n - 1
      /\ 2 * f >= t \/ f = p.next + n - 1 \/ f >= Frames
  BY <1>0, <1>1, <1>2 DEF Reached
<1>4. f # p.next => 2 * (f - 1) < t
  <2> SUFFICES ASSUME f # p.next, 2 * (f - 1) >= t PROVE FALSE
    BY <1>0, <1>3
  <2>1. f - 1 \in R
    BY <1>0, <1>3 DEF Reached
  <2> QED BY <1>2, <1>3, <2>1
<1>5. Sane(before) /\ before.next = f
  BY <1>0, <1>3 DEF At, Sane, VideoPicture
<1>6. f < Frames => Sane(At(f)) /\ At(f).shown = f /\ At(f).time = 2 * f
  BY <1>0, <1>3 DEF At, Sane, VideoPicture
<1> HIDE DEF before
<1>7. CASE f >= Frames
  <2>1. r = Result([before EXCEPT !.time = m_duration], "end")
    BY <1>7 DEF readFrames, f, before
  <2>2. Sane([before EXCEPT !.time = m_duration])
    BY <1>0, <1>3, <1>5, <1>7 DEF Sane, VideoPicture
  <2> QED BY <2>1, <2>2 DEF Good, Result
<1>8. CASE f < Frames
  <2>1. \/ r = Result(At(f), IF 2 * f >= t THEN "there" ELSE "short")
        \/ r = Result([At(f) EXCEPT !.shown = before.shown], "failed")
        \/ r = Result(before, "failed")
    BY <1>0, <1>3, <1>8 DEF readFrames, f, before
  <2>2. Sane([At(f) EXCEPT !.shown = before.shown])
    BY <1>0, <1>3, <1>5, <1>6, <1>8 DEF At, Sane, VideoPicture
  <2>3. CASE r = Result(At(f), IF 2 * f >= t THEN "there" ELSE "short")
    BY <1>0, <1>3, <1>4, <1>6, <1>8, <2>3 DEF Good, Result
  <2>4. CASE r = Result([At(f) EXCEPT !.shown = before.shown], "failed")
    BY <2>2, <2>4 DEF Good, Result
  <2>5. CASE r = Result(before, "failed")
    BY <1>5, <2>5 DEF Good, Result
  <2> QED BY <2>1, <2>3, <2>4, <2>5
<1> QED BY <1>0, <1>3, <1>7, <1>8

\* Seeking and reading on from the key frame.
LEMMA SoughtSane ==
  ASSUME NEW p, Sane(p), NEW t \in Int, m_duration \in {0, Duration}
  PROVE  Sane(Sought(p, t)) /\ (t \in 0 .. m_duration => 2 * Sought(p, t).next <= t)
<1>0. /\ Frames \in Nat \ {0} /\ Duration \in Nat
      /\ p \in VideoPicture /\ LastFrame = Frames - 1
  BY VideoAssumption DEF Sane, VideoPicture, LastFrame
<1>1. ClampTime(t) \in 0 .. Duration /\ (t \in 0 .. m_duration => ClampTime(t) = t)
  BY <1>0 DEF ClampTime
<1> DEFINE c == ClampTime(t)
           k == KeyFrame(c)
<1>2. k \in 0 .. LastFrame /\ 2 * k <= c
  BY <1>0, <1>1, KeyFrameFound
<1>3. Sought(p, t) = [p EXCEPT !.time = c, !.next = k]
  BY DEF Sought
<1>5. c \in 0 .. Duration /\ k \in 0 .. Frames
  BY <1>0, <1>1, <1>2
<1> HIDE DEF c, k
<1>4. Sought(p, t) \in VideoPicture /\ Sought(p, t).next = k /\ Sought(p, t).time = c
  BY <1>0, <1>3, <1>5 DEF VideoPicture
<1> QED BY <1>0, <1>1, <1>2, <1>4 DEF Sane, c

\* Reading on from a key frame.
LEMMA FrameAtTime ==
  ASSUME NEW p, Sane(p), NEW t \in 0 .. Duration, m_duration = Duration,
         NEW r \in readFrameAtTime(p, t)
  PROVE  Good(r, t)
<1>0. MaxDecodeFrames \in Nat \ {0} /\ Duration \in Nat
  BY VideoAssumption
<1>1. Sane(Sought(p, t)) /\ 2 * Sought(p, t).next <= t /\ Sought(p, t).next \in Int
  BY <1>0, SoughtSane, VideoAssumption DEF Sane, VideoPicture
<1>2. CASE r \in readFrames(Sought(p, t), MaxDecodeFrames, t)
  <2>1. 2 * Sought(p, t).next <= t + 2
    BY <1>0, <1>1
  <2> QED BY <1>0, <1>1, <1>2, <2>1, FramesRead
<1>3. CASE r = Result(p, "failed")
  BY <1>3 DEF Good, Result
<1> QED BY <1>2, <1>3 DEF readFrameAtTime

\* Reading on from where the reader is, and from a key frame when it is too far.
LEMMA CaughtUp ==
  ASSUME Sane(Current), NEW t \in 0 .. Duration, m_duration = Duration,
         m_current_time + 1 < t, NEW r \in catchUp(t)
  PROVE  Good(r, t)
<1>0. CatchUpFrames \in Nat \ {0} /\ Duration \in Nat
  BY VideoAssumption
<1>1. 2 * Current.next <= t + 2
  BY <1>0, VideoAssumption DEF Sane, VideoPicture, Current
<1>2. \A q \in readFrames(Current, CatchUpFrames, t) : Good(q, t)
  BY <1>0, <1>1, FramesRead
<1>3. CASE r \in readFrames(Current, CatchUpFrames, t)
  BY <1>2, <1>3
<1>4. ASSUME NEW q \in readFrames(Current, CatchUpFrames, t), r \in readFrameAtTime(q.picture, t)
      PROVE  Good(r, t)
  BY <1>2, <1>4, FrameAtTime DEF Good
<1> QED BY <1>3, <1>4 DEF catchUp

------------------------------------------------------------------------------
\* Folding a time into the loop range, from either side and over any number of
\* turns, gives the time the script means.
LEMMA RangeBounds ==
  ASSUME VidInv, HasDuration
  PROVE  /\ m_duration = Duration /\ Duration \in Nat \ {0}
         /\ loop_begin \in 0 .. Duration /\ loop_end \in 0 .. Duration
         /\ loop_begin < loop_end /\ loop_len \in Nat \ {0}
<1>1. m_duration = Duration /\ Duration \in Nat \ {0} /\ m_loop_state.has_range \in BOOLEAN
  BY VideoAssumption DEF VidInv, VideoTypeOK, HasDuration
<1>2. CASE m_loop_state.has_range
  <2>1. /\ 0 <= m_loop_state.start /\ m_loop_state.start < m_loop_state.end
        /\ m_loop_state.end <= m_duration
        /\ m_loop_state.start \in Int /\ m_loop_state.end \in Int
    BY <1>2 DEF VidInv, RangeInside, HasDuration
  <2>2. loop_begin = m_loop_state.start /\ loop_end = m_loop_state.end
    BY <1>2 DEF loop_begin, loop_end
  <2> QED BY <1>1, <2>1, <2>2 DEF loop_len
<1>3. CASE ~ m_loop_state.has_range
  BY <1>1, <1>3 DEF loop_begin, loop_end, loop_len
<1> QED BY <1>2, <1>3

\* fmod of numbers of either sign.
LEMMA Remainder ==
  ASSUME NEW x \in Int, NEW n \in Nat \ {0}
  PROVE  /\ fmod(x, n) \in Int /\ - n < fmod(x, n) /\ fmod(x, n) < n
         /\ x >= 0 => fmod(x, n) >= 0
         /\ x < 0 => fmod(x, n) <= 0
         /\ \E q \in Int : x = n * q + fmod(x, n)
<1>1. CASE x >= 0
  <2>1. fmod(x, n) = x % n
    BY <1>1 DEF fmod
  <2>2. x % n \in 0 .. n - 1 /\ x = n * (x \div n) + (x % n) /\ x \div n \in Int
    BY Turns
  <2>3. \E q \in Int : x = n * q + (x % n)
    BY <2>2
  <2> QED BY <1>1, <2>1, <2>2, <2>3
<1>2. CASE x < 0
  <2> DEFINE y == - x
             q == y \div n
             m == y % n
  <2>1. y \in Int /\ m \in 0 .. n - 1 /\ y = n * q + m /\ q \in Int
    BY Turns
  <2>2. fmod(x, n) = - m
    BY <1>2 DEF fmod
  <2> HIDE DEF q, m
  <2>3. - q \in Int /\ x = n * (- q) + (- m)
    BY <2>1
  <2>4. \E p \in Int : x = n * p + (- m)
    BY <2>3
  <2> QED BY <1>2, <2>1, <2>2, <2>4
<1> QED BY <1>1, <1>2

\* A multiple of n leaves no remainder.
LEMMA WholeTurns ==
  ASSUME NEW n \in Nat \ {0}, NEW q \in Int
  PROVE  (n * q) % n = 0
<1> DEFINE x == n * q
           m == x % n
           p == x \div n
<1>0. x \in Int
  OBVIOUS
<1> HIDE DEF x
<1>1. m \in 0 .. n - 1 /\ x = n * p + m /\ p \in Int
  BY <1>0, Turns
<1>2. n * (q - p) = m
  BY <1>1 DEF x
<1> HIDE DEF m, p
<1> DEFINE d == q - p
<1>3. d \in Int /\ n * d = m
  BY <1>1, <1>2
<1> HIDE DEF d
<1>4. ~ (d >= 1)
  BY <1>1, <1>3
<1>5. ~ (d <= -1)
  BY <1>1, <1>3
<1>6. d = 0
  BY <1>3, <1>4, <1>5
<1> QED BY <1>3, <1>6 DEF m, x

InTurn(b, n, t) == CHOOSE v \in b .. b + n - 1 : (t - v) % n = 0

\* The time of the range that is whole turns apart, of which there is one.
LEMMA TheTurn ==
  ASSUME NEW b \in Int, NEW n \in Nat \ {0}, NEW t \in Int, NEW w \in b .. b + n - 1,
         NEW q \in Int, t - w = n * q
  PROVE  w = InTurn(b, n, t)
<1>1. (t - w) % n = 0
  BY WholeTurns
<1> DEFINE v == CHOOSE v \in b .. b + n - 1 : (t - v) % n = 0
<1>2. v \in b .. b + n - 1 /\ (t - v) % n = 0
  BY <1>1
<1> HIDE DEF v
<1> DEFINE p == (t - v) \div n
           d == q - p
<1>3. p \in Int /\ t - v = n * p
  BY <1>2, Turns
<1> HIDE DEF p
<1>4. d \in Int /\ v - w = n * d /\ v - w > - n /\ v - w < n
  BY <1>2, <1>3
<1> HIDE DEF d
<1>5. ~ (d >= 1) /\ ~ (d <= -1)
  BY <1>4
<1>6. d = 0
  BY <1>4, <1>5
<1>7. v = w
  BY <1>2, <1>4, <1>6
<1> QED BY <1>7 DEF v, InTurn

\* What updateToTime makes of a time is what the script means by it.
LEMMA WrappedIsMeant ==
  ASSUME VidInv, HasDuration, NEW t \in Int, ~ HoldsEnd(t)
  PROVE  wrapped(t) = Meant(t) /\ wrapped(t) \in 0 .. Duration
<1> DEFINE b == loop_begin
           e == loop_end
           n == loop_len
           x == fmod(t - b, n)
<1>0. /\ m_duration = Duration /\ Duration \in Nat \ {0} /\ m_looping \in BOOLEAN
      /\ b \in 0 .. Duration /\ e \in 0 .. Duration /\ b < e /\ n \in Nat \ {0} /\ n = e - b
  BY RangeBounds DEF VidInv, VideoTypeOK, loop_len
<1>1. ~ m_looping => t < Duration
  BY <1>0 DEF HoldsEnd
<1>2. /\ x \in Int /\ - n < x /\ x < n
      /\ t - b >= 0 => x >= 0
      /\ t - b < 0 => x <= 0
      /\ \E q \in Int : t - b = n * q + x
  <2> DEFINE y == t - b
  <2>1. y \in Int
    BY <1>0
  <2> HIDE DEF y
  <2>2. /\ fmod(y, n) \in Int /\ - n < fmod(y, n) /\ fmod(y, n) < n
        /\ y >= 0 => fmod(y, n) >= 0
        /\ y < 0 => fmod(y, n) <= 0
        /\ \E q \in Int : y = n * q + fmod(y, n)
    BY <1>0, <2>1, Remainder
  <2> QED BY <2>2 DEF y
<1>3. PICK q \in Int : t - b = n * q + x
  BY <1>2
<1>4. Folded(t) = b + x
  BY DEF Folded
<1>5. wrapped(t) = IF t >= e /\ m_looping THEN b + x
                   ELSE IF t < b /\ m_looping THEN IF x < 0 THEN b + x + n ELSE b + x
                   ELSE IF t < b THEN b ELSE t
  <2>1. CASE t >= e
    BY <1>0, <1>2, <1>4, <2>1 DEF wrapped
  <2>2. CASE t < b
    BY <1>0, <1>2, <1>4, <2>2 DEF wrapped
  <2>3. CASE b <= t /\ t < e
    BY <1>0, <1>2, <1>4, <2>3 DEF wrapped
  <2> QED BY <1>0, <2>1, <2>2, <2>3
<1>6. Meant(t) = IF m_looping
                 THEN IF b <= t /\ t < e THEN t
                      ELSE CHOOSE w \in b .. e - 1 : (t - w) % n = 0
                 ELSE IF t < b THEN b ELSE IF t > Duration THEN Duration ELSE t
  BY DEF Meant
<1> HIDE DEF b, e, n, x
<1>7. CASE m_looping /\ ~ (b <= t /\ t < e)
  <2> DEFINE w == IF x < 0 THEN b + x + n ELSE b + x
  <2>1. w \in b .. b + n - 1
    BY <1>0, <1>2
  <2>2. wrapped(t) = w
    BY <1>0, <1>2, <1>5, <1>7
  <2>3. \E p \in Int : t - w = n * p
    <3>1. CASE x < 0
      <4>1. t - w = n * q - n
        BY <1>0, <1>2, <1>3, <3>1
      <4>2. n * q - n = n * (q - 1) /\ q - 1 \in Int
        BY <1>0
      <4> QED BY <4>1, <4>2
    <3>2. CASE x >= 0
      BY <1>0, <1>2, <1>3, <3>2
    <3> QED BY <1>2, <3>1, <3>2
  <2>7. PICK p \in Int : t - w = n * p
    BY <2>3
  <2> HIDE DEF w
  <2>4. w = InTurn(b, n, t)
    <3>1. b \in Int /\ t \in Int
      BY <1>0
    <3> QED BY <1>0, <2>1, <2>7, <3>1, TheTurn
  <2>5. b .. b + n - 1 = b .. e - 1
    BY <1>0
  <2>6. wrapped(t) = Meant(t)
    <3>1. Meant(t) = CHOOSE v \in b .. e - 1 : (t - v) % n = 0
      BY <1>6, <1>7
    <3>2. Meant(t) = InTurn(b, n, t)
      BY <2>5, <3>1 DEF InTurn
    <3> QED BY <2>2, <2>4, <3>2
  <2> QED BY <1>0, <2>1, <2>2, <2>6
<1>8. CASE m_looping /\ b <= t /\ t < e
  BY <1>0, <1>5, <1>6, <1>8
<1>9. CASE ~ m_looping
  BY <1>0, <1>1, <1>5, <1>6, <1>9
<1> QED BY <1>0, <1>7, <1>8, <1>9

------------------------------------------------------------------------------
\* The invariant, step by step.
LEMMA VideoTypes ==
  VideoTypeOK <=>
    /\ device \in BOOLEAN /\ m_byte_stream \in BOOLEAN /\ m_source_reader \in BOOLEAN
    /\ m_texture \in BOOLEAN /\ m_looping \in BOOLEAN
    /\ m_duration \in {0, Duration} /\ m_current_time \in 0 .. Duration
    /\ m_last_requested_time \in -1 .. Duration
    /\ m_loop_state.has_range \in BOOLEAN
    /\ next \in 0 .. Frames /\ shown \in -1 .. LastFrame
    /\ answer.ok \in BOOLEAN /\ loose \in {"no", "seek", "end", "failed"}
    /\ latest \in 0 .. Duration
BY DEF VideoTypeOK

\* The sizes of the file, as the provers use them.
LEMMA FileSizes ==
  /\ Frames \in Nat \ {0} /\ Duration \in Nat \ {0} /\ 2 * Frames - 2 < Duration
  /\ LastFrame \in Nat /\ LastFrame = Frames - 1
BY VideoAssumption DEF LastFrame

\* The reader stands at a picture.
LEMMA CurrentSane ==
  ASSUME VidInv, HasDuration
  PROVE  Sane(Current) /\ m_duration = Duration
BY DEF VidInv, VideoTypeOK, NextBehind, HasDuration, Sane, VideoPicture, Current

\* Nothing is open.
LEMMA VideoStarts ==
  ASSUME VideoInit PROVE VidInv
<1>1. VideoTypeOK
  <2>1. /\ device \in BOOLEAN /\ m_byte_stream \in BOOLEAN /\ m_source_reader \in BOOLEAN
        /\ m_texture \in BOOLEAN /\ m_looping \in BOOLEAN
    BY DEF VideoInit
  <2>2. m_loop_state.has_range \in BOOLEAN /\ answer.ok \in BOOLEAN
    BY DEF VideoInit, NoRange, NoAnswer
  <2>3. /\ m_duration \in {0, Duration} /\ m_current_time \in 0 .. Duration
        /\ m_last_requested_time \in -1 .. Duration
        /\ next \in 0 .. Frames /\ shown \in -1 .. LastFrame
        /\ loose \in {"no", "seek", "end", "failed"} /\ latest \in 0 .. Duration
    BY FileSizes DEF VideoInit
  <2> QED BY <2>1, <2>2, <2>3, VideoTypes
<1>2. ~ HasDuration /\ m_source_reader = FALSE /\ m_texture = FALSE /\ ~ answer.ok
  BY DEF VideoInit, HasDuration, NoAnswer
<1>3. m_loop_state.start \in Int /\ m_loop_state.end \in Int
  BY DEF VideoInit, NoRange
<1> QED BY <1>1, <1>2, <1>3 DEF VidInv, RangeInside, TextureOfDevice, NextBehind, TimeOfShown,
     UpdateShowsTime

\* Whatever ends with everything dropped.
LEMMA GivenUp ==
  ASSUME device' \in BOOLEAN, m_byte_stream' \in BOOLEAN, m_source_reader' \in BOOLEAN,
         m_looping' \in BOOLEAN, m_texture' = FALSE, m_duration' = 0, m_current_time' = 0,
         m_last_requested_time' = -1, m_loop_state' = NoRange, next' = 0, shown' = -1,
         loose' = "no", latest' = 0, answer' = NoAnswer
  PROVE  VidInv'
<1>1. VideoTypeOK'
  <2>1. /\ device' \in BOOLEAN /\ m_byte_stream' \in BOOLEAN /\ m_source_reader' \in BOOLEAN
        /\ m_texture' \in BOOLEAN /\ m_looping' \in BOOLEAN
    OBVIOUS
  <2>2. m_loop_state'.has_range \in BOOLEAN /\ answer'.ok \in BOOLEAN
    BY DEF NoRange, NoAnswer
  <2>3. /\ m_duration' \in {0, Duration} /\ m_current_time' \in 0 .. Duration
        /\ m_last_requested_time' \in -1 .. Duration
        /\ next' \in 0 .. Frames /\ shown' \in -1 .. LastFrame
        /\ loose' \in {"no", "seek", "end", "failed"} /\ latest' \in 0 .. Duration
    BY FileSizes
  <2> QED BY <2>1, <2>2, <2>3 DEF VideoTypeOK
<1>2. ~ HasDuration' /\ ~ answer'.ok /\ m_duration' = 0 /\ m_texture' = FALSE
  BY DEF HasDuration, NoAnswer
<1>3. m_loop_state'.start \in Int /\ m_loop_state'.end \in Int
  BY DEF NoRange
<1> QED BY <1>1, <1>2, <1>3 DEF VidInv, RangeInside, TextureOfDevice, NextBehind, TimeOfShown,
     UpdateShowsTime

\* close() and what failed so far that nothing stays.
LEMMA ClosedStep ==
  ASSUME VidInv, Closed(TRUE) \/ Closed(FALSE), answer' = NoAnswer,
         device' \in BOOLEAN, m_looping' \in BOOLEAN
  PROVE  VidInv'
<1> QED BY GivenUp DEF Closed

\* A loop range that is kept lies inside a duration that is known.
LEMMA RangeKept ==
  ASSUME NEW range \in LoopRanges, NEW total \in Nat
  PROVE  LET state == LoopRangeOf(range[1], range[2], total) IN
         /\ state.has_range \in BOOLEAN /\ state.start \in Int /\ state.end \in Int
         /\ state.has_range /\ total > 0 =>
              0 <= state.start /\ state.start < state.end /\ state.end <= total
BY VideoAssumption DEF LoopRangeOf

\* open() and reopen().
LEMMA OpenedStep ==
  ASSUME VidInv, NEW looping \in BOOLEAN, NEW range \in LoopRanges, device,
         Opened(looping, range), answer' = NoAnswer, UNCHANGED device
  PROVE  VidInv'
<1>1. /\ m_duration' \in Nat /\ LastFrame \in Nat /\ Frames \in Nat \ {0} /\ Duration \in Nat
      /\ Duration > 0
  BY VideoAssumption DEF Opened, LastFrame
<1>2. /\ m_loop_state'.has_range \in BOOLEAN
      /\ m_loop_state'.start \in Int /\ m_loop_state'.end \in Int
      /\ m_loop_state'.has_range /\ m_duration' > 0 =>
           /\ 0 <= m_loop_state'.start /\ m_loop_state'.start < m_loop_state'.end
           /\ m_loop_state'.end <= m_duration'
  <2>1. CASE range[2] > 0
    BY <1>1, <2>1, RangeKept DEF Opened
  <2>2. CASE ~ range[2] > 0
    <3>1. m_loop_state' = NoRange
      BY <2>2, RangeKept, VideoAssumption DEF Opened
    <3> QED BY <3>1 DEF NoRange
  <2> QED BY <2>1, <2>2
<1>3. VideoTypeOK'
  BY <1>1, <1>2 DEF Opened, VidInv, VideoTypeOK, NoAnswer, LastFrame
<1>4. RangeInside' /\ TextureOfDevice' /\ UpdateShowsTime'
  BY <1>2 DEF Opened, RangeInside, TextureOfDevice, UpdateShowsTime, NoAnswer
<1>5. NextBehind' /\ TimeOfShown'
  BY DEF Opened, NextBehind, TimeOfShown, HasDuration
<1> QED BY <1>2, <1>3, <1>4, <1>5 DEF VidInv

\* An open() that fails at any stage.
LEMMA BrokenStep ==
  ASSUME VidInv, openFails PROVE VidInv'
<1>1. CASE Closed(FALSE) \/ Closed(TRUE)
  BY <1>1, ClosedStep DEF openFails, VidInv, VideoTypeOK
<1>2. CASE ~ (Closed(FALSE) \/ Closed(TRUE))
  <2>1. device \in BOOLEAN /\ m_looping \in BOOLEAN
    BY VideoTypes DEF VidInv
  <2> QED BY <1>2, <2>1, GivenUp DEF openFails
<1> QED BY <1>1, <1>2

\* setLooping and setLoopRange.
LEMMA LoopStep ==
  ASSUME VidInv,
         \/ \E looping \in BOOLEAN : setLooping(looping)
         \/ \E range \in LoopRanges : setLoopRange(range)
  PROVE  VidInv'
<1>1. /\ UNCHANGED <<device, streamVars, timeVars>> /\ answer' = NoAnswer
      /\ m_looping' \in BOOLEAN
      /\ m_loop_state'.has_range \in BOOLEAN
      /\ m_loop_state'.start \in Int /\ m_loop_state'.end \in Int
      /\ RangeInside'
  <2>1. CASE \E looping \in BOOLEAN : setLooping(looping)
    BY <2>1 DEF setLooping, VidInv, VideoTypeOK, RangeInside, streamVars
  <2>2. ASSUME NEW range \in LoopRanges, setLoopRange(range)
        PROVE  /\ UNCHANGED <<device, streamVars, timeVars>> /\ answer' = NoAnswer
               /\ m_looping' \in BOOLEAN
               /\ m_loop_state'.has_range \in BOOLEAN
               /\ m_loop_state'.start \in Int /\ m_loop_state'.end \in Int
               /\ RangeInside'
    <3>1. m_duration \in Nat
      BY VideoAssumption DEF VidInv, VideoTypeOK
    <3>2. m_loop_state' = LoopRangeOf(range[1], range[2], m_duration)
      BY <2>2 DEF setLoopRange
    <3> QED BY <2>2, <3>1, <3>2, RangeKept DEF setLoopRange, VidInv, VideoTypeOK, RangeInside, streamVars
  <2> QED BY <2>1, <2>2
<1> QED BY <1>1 DEF VidInv, VideoTypeOK, TextureOfDevice, NextBehind, TimeOfShown,
     UpdateShowsTime, HasDuration, NoAnswer, streamVars, timeVars

\* seek().
LEMMA SeekStep ==
  ASSUME VidInv, NEW t \in VideoTimes, seek(t) PROVE VidInv'
<1>1. t \in Int /\ m_duration \in {0, Duration} /\ Duration \in Nat
  BY VideoAssumption DEF VidInv, VideoTypeOK
<1> DEFINE c == ClampTime(t)
<1>2. c \in 0 .. Duration
  BY <1>1 DEF ClampTime
<1>3. KeyFrame(c) \in 0 .. LastFrame /\ 2 * KeyFrame(c) <= c
  BY <1>2, KeyFrameFound
<1>4. shown' = shown /\ m_current_time' = c /\ next' = KeyFrame(c)
  BY DEF seek, Now, Sought, Current
<1> HIDE DEF c
<1> QED BY <1>1, <1>2, <1>3, <1>4, VideoAssumption DEF seek, VidInv, VideoTypeOK, RangeInside,
     TextureOfDevice, NextBehind, TimeOfShown, UpdateShowsTime, HasDuration, NoAnswer, LastFrame,
     streamVars, rangeVars

\* What the steps of updateToTime leave alone.
LEMMA StreamKept ==
  ASSUME VidInv, UNCHANGED <<device, streamVars, rangeVars>>
  PROVE  /\ (HasDuration' <=> HasDuration) /\ m_duration' = m_duration
         /\ RangeInside' /\ TextureOfDevice'
         /\ m_loop_state'.start \in Int /\ m_loop_state'.end \in Int
BY DEF VidInv, RangeInside, TextureOfDevice, HasDuration, streamVars, rangeVars

\* Types, for the steps of updateToTime.
LEMMA TypesKept ==
  ASSUME VidInv, UNCHANGED <<device, streamVars, rangeVars>>, answer'.ok \in BOOLEAN,
         m_current_time' \in 0 .. Duration, m_last_requested_time' \in -1 .. Duration,
         next' \in 0 .. Frames, shown' \in -1 .. LastFrame,
         loose' \in {"no", "seek", "end", "failed"}, latest' \in 0 .. Duration
  PROVE  VideoTypeOK'
BY VideoTypes DEF VidInv, VideoTypeOK, streamVars, rangeVars

\* updateToTime reads: from a key frame when it is far, else from where it is.
LEMMA ReadStep ==
  ASSUME VidInv, NEW t \in VideoTimes, updateRead(t) PROVE VidInv'
<1> DEFINE w == wrapped(t)
<1>1. /\ HasDuration /\ ~ HoldsEnd(t) /\ t \in Int /\ m_last_requested_time' = w /\ latest' = w
      /\ UNCHANGED <<device, streamVars, rangeVars>>
  BY VideoAssumption DEF updateRead
<1>2. w = Meant(t) /\ w \in 0 .. Duration
  BY <1>1, WrappedIsMeant
<1>3. PICK r \in IF is_backward(w) \/ large_jump(w) THEN readFrameAtTime(Current, w) ELSE catchUp(w) :
        Leave(r) /\ answer' = [ok |-> r.how = "there", at |-> Meant(t)]
  BY DEF updateRead
<1>4. is_backward(w) \/ large_jump(w) \/ m_current_time + 1 < w
  BY DEF updateRead
<1> HIDE DEF w
<1>5. Good(r, w)
  <2>1. Sane(Current) /\ m_duration = Duration
    BY <1>1, CurrentSane
  <2>2. CASE is_backward(w) \/ large_jump(w)
    BY <1>2, <1>3, <2>1, <2>2, FrameAtTime
  <2>3. CASE ~ (is_backward(w) \/ large_jump(w))
    BY <1>2, <1>3, <1>4, <2>1, <2>3, CaughtUp
  <2> QED BY <2>2, <2>3
<1>6. /\ shown' = r.picture.shown /\ m_current_time' = r.picture.time /\ next' = r.picture.next
      /\ loose' = IF r.how = "there" THEN "no" ELSE "failed"
      /\ answer'.ok = (r.how = "there") /\ answer'.at = w
  BY <1>2, <1>3 DEF Leave, Now
<1>7. VideoTypeOK'
  BY <1>1, <1>2, <1>5, <1>6, FileSizes, TypesKept DEF Good, Sane, VideoPicture
<1>8. NextBehind' /\ TimeOfShown' /\ UpdateShowsTime'
  <2>1. 2 * next' <= m_current_time' + 2
    BY <1>5, <1>6 DEF Good, Sane
  <2>2. r.how = "there" =>
          /\ shown' >= 0 /\ m_current_time' = 2 * shown'
          /\ w <= 2 * shown' /\ 2 * shown' <= w + 2
    BY <1>5, <1>6 DEF Good
  <2>3. loose' = "no" => r.how = "there"
    BY <1>6
  <2>4. UpdateShowsTime'
    <3>1. loose' = "no" => 2 * shown' + 1 >= w /\ 2 * shown' <= latest' + 2
      BY <1>1, <1>2, <1>6, <2>2, <2>3, <1>7, FileSizes DEF VideoTypeOK
    <3> QED BY <1>6, <3>1 DEF UpdateShowsTime, FrameOf
  <2> QED BY <1>1, <2>1, <2>2, <2>3, <2>4 DEF NextBehind, TimeOfShown
<1> QED BY <1>1, <1>7, <1>8, StreamKept DEF VidInv

\* updateToTime keeps the frame shown: it did not go back far since it was read.
LEMMA KeepStep ==
  ASSUME VidInv, NEW t \in VideoTimes, updateKeep(t) PROVE VidInv'
<1> DEFINE w == wrapped(t)
<1>1. /\ HasDuration /\ ~ HoldsEnd(t) /\ t \in Int /\ m_last_requested_time' = w
      /\ UNCHANGED <<device, streamVars, rangeVars, m_current_time, next, shown, loose>>
      /\ answer' = [ok |-> TRUE, at |-> Meant(t)] /\ ~ is_backward(w) /\ m_current_time + 1 >= w
      /\ latest' = IF w + BackwardTolerance < m_last_requested_time \/ latest < w THEN w ELSE latest
  BY VideoAssumption DEF updateKeep
<1>2. w = Meant(t) /\ w \in 0 .. Duration
  BY <1>1, WrappedIsMeant
<1> HIDE DEF w
<1>3. m_last_requested_time \in -1 .. Duration /\ shown \in -1 .. LastFrame
      /\ m_current_time \in 0 .. Duration /\ next \in 0 .. Frames
      /\ loose \in {"no", "seek", "end", "failed"} /\ latest \in 0 .. Duration
  BY VideoTypes DEF VidInv
<1>4. latest' >= latest /\ latest' >= w /\ latest' \in 0 .. Duration
  <2>1. BackwardTolerance \in Nat
    BY VideoAssumption
  <2> QED BY <1>1, <1>2, <1>3, <2>1, FileSizes DEF is_backward
<1>5. loose = "no" =>
        shown >= 0 /\ m_current_time = 2 * shown /\ 2 * shown <= latest' + 2 /\ w <= 2 * shown + 1
  BY <1>1, <1>2, <1>3, <1>4, FileSizes DEF VidInv, TimeOfShown
<1>6. VideoTypeOK'
  BY <1>1, <1>2, <1>3, <1>4, FileSizes, TypesKept
<1>7. UpdateShowsTime'
  BY <1>1, <1>2, <1>3, <1>4, <1>5, FileSizes DEF UpdateShowsTime, FrameOf
<1>8. NextBehind' /\ TimeOfShown'
  BY <1>1, <1>5, StreamKept DEF VidInv, NextBehind, TimeOfShown
<1> QED BY <1>1, <1>6, <1>7, <1>8, StreamKept DEF VidInv

\* updateToTime at or after the end of a video that does not loop.
LEMMA EndStep ==
  ASSUME VidInv, NEW t \in VideoTimes, updateEnd(t) PROVE VidInv'
<1>1. /\ HasDuration /\ UNCHANGED <<device, streamVars, rangeVars, m_last_requested_time, latest>>
      /\ m_duration = Duration /\ Sane(Current)
  BY CurrentSane DEF updateEnd
<1>2. m_last_requested_time \in -1 .. Duration /\ shown \in -1 .. LastFrame
      /\ m_current_time \in 0 .. Duration /\ next \in 0 .. Frames
      /\ loose \in {"no", "seek", "end", "failed"} /\ latest \in 0 .. Duration
  BY VideoTypes DEF VidInv
<1>3. CASE m_current_time >= m_duration
  <2>1. /\ UNCHANGED <<m_current_time, next, shown, loose>> /\ answer'.ok = TRUE
        /\ loose # "no"
    <3>1. loose = "no" => m_current_time = 2 * shown
      BY <1>1 DEF VidInv, TimeOfShown
    <3> QED BY <1>1, <1>2, <1>3, <3>1, FileSizes DEF updateEnd
  <2>2. VideoTypeOK'
    BY <1>1, <1>2, <2>1, TypesKept
  <2>3. NextBehind' /\ TimeOfShown' /\ UpdateShowsTime'
    BY <1>1, <2>1, StreamKept DEF VidInv, NextBehind, TimeOfShown, UpdateShowsTime
  <2> QED BY <1>1, <2>2, <2>3, StreamKept DEF VidInv
<1>4. CASE ~ m_current_time >= m_duration
  <2>1. PICK r \in readFrameAtTime(Current, m_duration) :
          /\ Now([r.picture EXCEPT !.time = m_duration])
          /\ answer' = [ok |-> r.how = "there", at |-> Meant(t)]
          /\ loose' = IF r.how = "end" THEN "end" ELSE "failed"
    BY <1>4 DEF updateEnd
  <2>2. Good(r, m_duration)
    BY <1>1, <2>1, FileSizes, FrameAtTime
  <2>3. /\ shown' = r.picture.shown /\ m_current_time' = Duration /\ next' = r.picture.next
        /\ loose' \in {"end", "failed"} /\ answer'.ok \in BOOLEAN
    BY <1>1, <2>1, <2>2 DEF Now, Good, Sane, VideoPicture
  <2>4. VideoTypeOK'
    BY <1>1, <1>2, <2>2, <2>3, FileSizes, TypesKept DEF Good, Sane, VideoPicture
  <2>5. 2 * next' <= m_current_time' + 2
    BY <2>2, <2>3, FileSizes DEF Good, Sane, VideoPicture
  <2>6. NextBehind' /\ TimeOfShown' /\ UpdateShowsTime'
    BY <2>3, <2>5 DEF NextBehind, TimeOfShown, UpdateShowsTime
  <2> QED BY <1>1, <2>4, <2>6, StreamKept DEF VidInv
<1> QED BY <1>3, <1>4

\* What shows nothing new.
LEMMA NothingStep ==
  ASSUME VidInv, updateNothing \/ onVideoDeviceCreate \/ UNCHANGED videoVars PROVE VidInv'
<1>1. CASE updateNothing
  <2>1. /\ ~ HasDuration /\ UNCHANGED <<device, streamVars, rangeVars, m_last_requested_time, next, shown, loose, latest>>
        /\ answer' = NoAnswer /\ m_current_time' \in {0, m_current_time}
    BY <1>1 DEF updateNothing
  <2>2. VideoTypeOK'
    BY <2>1, VideoTypes, TypesKept, FileSizes DEF VidInv, NoAnswer
  <2>3. NextBehind' /\ TimeOfShown' /\ UpdateShowsTime'
    BY <2>1, StreamKept DEF NextBehind, TimeOfShown, UpdateShowsTime, NoAnswer
  <2> QED BY <2>1, <2>2, <2>3, StreamKept DEF VidInv
<1>2. CASE onVideoDeviceCreate
  <2>1. /\ UNCHANGED <<streamVars, timeVars, rangeVars, answer>> /\ device' = TRUE /\ ~ device
    BY <1>2 DEF onVideoDeviceCreate
  <2>2. VideoTypeOK'
    BY <2>1, VideoTypes DEF VidInv, VideoTypeOK, streamVars, timeVars, rangeVars
  <2>3. TextureOfDevice'
    BY <2>1 DEF VidInv, TextureOfDevice, streamVars
  <2> QED BY <2>1, <2>2, <2>3 DEF VidInv, RangeInside, NextBehind, TimeOfShown, UpdateShowsTime,
            HasDuration, streamVars, timeVars, rangeVars
<1>3. CASE UNCHANGED videoVars
  BY <1>3, VideoTypes DEF videoVars, VidInv, VideoTypeOK, RangeInside, TextureOfDevice, NextBehind,
     TimeOfShown, UpdateShowsTime, HasDuration, FrameOf
<1> QED BY <1>1, <1>2, <1>3

\* For files, thresholds, tolerances, ranges and times of any size, jumping back
\* and forth between loops: a texture belongs to its device, a loop range lies
\* inside the video, and when updateToTime succeeds the texture shows the frame of
\* the time the script meant, or of one the times crept back from by steps within
\* the tolerance.
THEOREM VideoShowsTime == VideoSpec => []VideoInv
<1>1. VideoInit => VidInv
  BY VideoStarts
<1>2. VidInv /\ [VideoNext]_videoVars => VidInv'
  <2> SUFFICES ASSUME VidInv, [VideoNext]_videoVars PROVE VidInv'
    OBVIOUS
  <2>1. ASSUME NEW looping \in BOOLEAN, NEW range \in LoopRanges,
               open(looping, range) \/ reopen(looping, range)
        PROVE  VidInv'
    BY <2>1, OpenedStep DEF open, reopen
  <2>2. CASE openFails
    BY <2>2, BrokenStep
  <2>3. CASE close \/ onVideoDeviceDestroy
    <3>1. device \in BOOLEAN /\ m_looping \in BOOLEAN
      BY VideoTypes DEF VidInv
    <3> QED BY <2>3, <3>1, ClosedStep DEF close, onVideoDeviceDestroy
  <2>4. CASE \/ \E looping \in BOOLEAN : setLooping(looping)
             \/ \E range \in LoopRanges : setLoopRange(range)
    BY <2>4, LoopStep
  <2>5. ASSUME NEW t \in VideoTimes, seek(t) PROVE VidInv'
    BY <2>5, SeekStep
  <2>6. ASSUME NEW t \in VideoTimes, updateRead(t) \/ updateKeep(t) \/ updateEnd(t)
        PROVE  VidInv'
    BY <2>6, ReadStep, KeepStep, EndStep
  <2>7. CASE updateNothing \/ onVideoDeviceCreate \/ UNCHANGED videoVars
    BY <2>7, NothingStep
  <2> QED BY <2>1, <2>2, <2>3, <2>4, <2>5, <2>6, <2>7 DEF VideoNext
<1>3. VidInv => VideoInv
  BY DEF VidInv, VideoInv
<1> QED BY <1>1, <1>2, <1>3, PTL DEF VideoSpec
------------------------------------------------------------------------------
(* The swap chain.  Each function of the code gets a lemma that says what  *)
(* the states it may leave have in common with the one it was called in,   *)
(* first whichever of its calls fail, then when only SetFullscreenState    *)
(* does.                                                                   *)

Visible == Sizes \ {Minimized}

Chains == [device : BOOLEAN, model : Models, canvas : BOOLEAN, canvas_size : CanvasSizes,
           chain : BOOLEAN, rtv : BOOLEAN, info : Visible,
           fullscreen : BOOLEAN, exclusive : BOOLEAN, mode : Visible,
           to_window : BOOLEAN, to_mode : BOOLEAN, client : Sizes,
           window_fullscreen : BOOLEAN, placement : Sizes,
           told : {"created", "destroyed"}, auto_size : CanvasSizes,
           stale : BOOLEAN, null_use : BOOLEAN]

\* No window and no mode is without pixels.
LEMMA SizeFacts ==
  /\ Minimized \in Sizes /\ 1 \in Visible
  /\ WindowSizes \subseteq Visible /\ Modes \subseteq Visible /\ Monitor \in Visible
  /\ CanvasSizes \subseteq Visible /\ Visible \subseteq Sizes
  /\ \A n \in Sizes : Clamp(n) \in Visible /\ (n # Minimized => Clamp(n) = n)
BY SizesAssumption DEF Sizes, Minimized, Visible, Clamp

LEMMA DoneIs == ASSUME NEW s, NEW r \in Done(s) PROVE r.ok /\ r.s = s
BY DEF Done

LEMMA FailedIs == ASSUME NEW s, NEW r \in Failed(s) PROVE ~ r.ok /\ r.s = s
BY DEF Failed

LEMMA CallIs ==
  ASSUME NEW c, NEW s, NEW r \in Call(c, s)
  PROVE  /\ r.s = s
         /\ ~ failing /\ c # "fullscreen" => r.ok
<1>1. r \in Done(s) \/ (MayFail(c) /\ r \in Failed(s))
  BY DEF Call
<1>2. r.s = s /\ (~ MayFail(c) => r.ok)
  BY <1>1, DoneIs, FailedIs
<1> QED BY <1>2 DEF MayFail

\* What holds between any two calls.
Owned(s) ==
  /\ s \in Chains
  /\ s.fullscreen => s.chain /\ s.exclusive
  /\ s.told = "created" => s.auto_size = s.canvas_size

\* What every function keeps, and what those keep that touch neither the chain
\* nor the state of the screen.
Keeps(s, t) ==
  /\ Owned(t) /\ (s.null_use => t.null_use) /\ t.device = s.device
  /\ t.window_fullscreen = s.window_fullscreen

Alike(s, t) == Keeps(s, t) /\ t.exclusive = s.exclusive /\ t.canvas_size = s.canvas_size

Remains(s, t) ==
  /\ Alike(s, t) /\ t.chain = s.chain /\ t.fullscreen = s.fullscreen /\ t.mode = s.mode
  /\ t.told = s.told

LEMMA ViewStays ==
  ASSUME NEW s, Owned(s), NEW r \in createRenderTarget(s) PROVE Remains(s, r.s)
<1>1. CASE ~ (s.chain /\ s.device)
  BY <1>1, FailedIs DEF createRenderTarget, Remains, Alike, Keeps
<1>2. CASE s.chain /\ s.device
  <2>1. PICK q \in Call("view", s) : r \in IF q.ok THEN Done([q.s EXCEPT !.rtv = TRUE]) ELSE {q}
    BY <1>2 DEF createRenderTarget, Then
  <2>2. q.s = s
    BY <2>1, CallIs
  <2> DEFINE t == [s EXCEPT !.rtv = TRUE]
  <2>3. r = q \/ r \in Done(t)
    BY <2>1, <2>2
  <2>4. Remains(s, s) /\ Remains(s, t)
    BY DEF Remains, Alike, Keeps, Owned, Chains
  <2> HIDE DEF t
  <2> QED BY <2>2, <2>3, <2>4, DoneIs
<1> QED BY <1>1, <1>2

LEMMA UseStays ==
  ASSUME NEW s, Owned(s), NEW r \in UseViews(s) PROVE Remains(s, r.s)
<1> DEFINE t == [s EXCEPT !.null_use = TRUE]
<1>1. r \in Done(s) \/ r \in Failed(t)
  BY DEF UseViews
<1>2. Remains(s, s) /\ Remains(s, t)
  BY DEF Remains, Alike, Keeps, Owned, Chains
<1> HIDE DEF t
<1> QED BY <1>1, <1>2, DoneIs, FailedIs

LEMMA BuffersStay ==
  ASSUME NEW s, Owned(s), NEW size \in Sizes, NEW r \in resizeSwapChain(s, size)
  PROVE  Remains(s, r.s)
<1>1. CASE size = 0 \/ ~ s.chain
  BY <1>1, FailedIs DEF resizeSwapChain, Remains, Alike, Keeps
<1>2. CASE ~ (size = 0 \/ ~ s.chain)
  <2> DEFINE t == [s EXCEPT !.rtv = FALSE, !.info = size, !.stale = FALSE]
  <2>1. Remains(s, t)
    BY <1>2 DEF Remains, Alike, Keeps, Owned, Chains, Visible, Minimized
  <2>2. PICK q \in Then(Call("buffers", t), createRenderTarget) :
           r \in IF q.ok THEN UseViews(q.s) ELSE {q}
    BY <1>2 DEF resizeSwapChain, Then
  <2> HIDE DEF t
  <2>3. PICK p \in Call("buffers", t) : q \in IF p.ok THEN createRenderTarget(p.s) ELSE {p}
    BY <2>2 DEF Then
  <2>4. p.s = t
    BY <2>3, CallIs
  <2>5. Remains(s, q.s)
    BY <2>1, <2>3, <2>4, ViewStays DEF Remains, Alike, Keeps
  <2> QED BY <2>2, <2>5, UseStays DEF Remains, Alike, Keeps
<1> QED BY <1>1, <1>2

\* WM_SIZE and what its handler does.
LEMMA SizeStays ==
  ASSUME NEW s, Owned(s), NEW size \in Sizes, NEW r \in Resized(s, size)
  PROVE  Remains(s, r.s)
<1>1. CASE size = s.client
  BY <1>1, DoneIs DEF Resized, Remains, Alike, Keeps
<1>2. CASE size # s.client
  <2> DEFINE t == [s EXCEPT !.client = size]
  <2>1. Remains(s, t) /\ Owned(t)
    BY DEF Remains, Alike, Keeps, Owned, Chains
  <2>2. r \in onWindowSize(t, size)
    BY <1>2 DEF Resized
  <2> HIDE DEF t
  <2>3. CASE r \in Done(t)
    BY <2>1, <2>3, DoneIs
  <2>4. CASE r \notin Done(t)
    <3>1. PICK q \in resizeSwapChain(t, size) :
            r \in IF q.ok THEN Done([q.s EXCEPT !.to_window = FALSE, !.to_mode = FALSE]) ELSE {q}
      BY <2>2, <2>4 DEF onWindowSize, Then
    <3>2. Remains(t, q.s)
      BY <2>1, <3>1, BuffersStay
    <3> DEFINE u == [q.s EXCEPT !.to_window = FALSE, !.to_mode = FALSE]
    <3>3. Remains(q.s, u)
      BY <3>2 DEF Remains, Alike, Keeps, Owned, Chains
    <3> HIDE DEF u
    <3>4. r.s = q.s \/ r.s = u
      BY <3>1, DoneIs DEF u
    <3> QED BY <2>1, <3>2, <3>3, <3>4 DEF Remains, Alike, Keeps
  <2> QED BY <2>3, <2>4
<1> QED BY <1>1, <1>2

\* SetFullscreenState, with the window that follows it.
LEMMA StateStays ==
  ASSUME NEW s, Owned(s), NEW on \in BOOLEAN, on => s.chain /\ s.exclusive,
         NEW r \in setFullscreenState(s, on)
  PROVE  /\ Alike(s, r.s) /\ r.s.chain = s.chain /\ r.s.mode = s.mode /\ r.s.told = s.told
         /\ r.ok => r.s.fullscreen = on
<1>1. CASE s.fullscreen = on
  BY <1>1, DoneIs DEF setFullscreenState, Alike, Keeps
<1>2. CASE s.fullscreen # on
  <2> DEFINE t == [s EXCEPT !.fullscreen = on]
             sizes == IF on THEN {s.mode} ELSE WindowSizes \cup {s.client}
  <2>1. PICK q \in Call("fullscreen", s) :
          r \in IF q.ok THEN UNION {Always(Resized([q.s EXCEPT !.fullscreen = on], size), Done) :
                    size \in IF on THEN {q.s.mode} ELSE WindowSizes \cup {q.s.client}}
                ELSE {q}
    BY <1>2 DEF setFullscreenState, Then
  <2>2. q.s = s
    BY <2>1, CallIs
  <2>3. CASE ~ q.ok
    BY <2>1, <2>2, <2>3 DEF Alike, Keeps
  <2>4. CASE q.ok
    <3>1. PICK size \in sizes : r \in Always(Resized(t, size), Done)
      BY <2>1, <2>2, <2>4
    <3>2. size \in Sizes
      BY SizeFacts DEF Owned, Chains
    <3>3. Owned(t) /\ Alike(s, t) /\ t.chain = s.chain /\ t.mode = s.mode /\ t.fullscreen = on
          /\ t.told = s.told
      BY DEF Alike, Keeps, Owned, Chains
    <3> HIDE DEF t
    <3>4. PICK p \in Resized(t, size) : r \in Done(p.s)
      BY <3>1 DEF Always
    <3>5. Remains(t, p.s)
      BY <3>2, <3>3, <3>4, SizeStays
    <3> QED BY <3>3, <3>4, <3>5, DoneIs DEF Remains, Alike, Keeps
  <2> QED BY <2>3, <2>4
<1> QED BY <1>1, <1>2

LEMMA BufferSizeVisible ==
  ASSUME NEW s, s \in Chains PROVE BufferSize(s) \in Visible
<1>1. s.client \in Sizes /\ s.mode \in Visible /\ s.canvas_size \in CanvasSizes /\ s.exclusive \in BOOLEAN
  BY DEF Chains
<1> QED BY <1>1, SizeFacts DEF BufferSize

LEMMA ChainStays ==
  ASSUME NEW s, Owned(s), NEW r \in createSwapChain(s)
  PROVE  /\ Alike(s, r.s) /\ (r.ok => r.s.chain) /\ (r.s.fullscreen => s.fullscreen)
         /\ r.s.told = s.told
<1> DEFINE f == [s EXCEPT !.info = BufferSize(s), !.stale = FALSE]
           t == [f EXCEPT !.chain = TRUE, !.fullscreen = FALSE]
           waitable == s.model = "composition" \/ (s.model = "modern" /\ ~s.exclusive)
<1>1. BufferSize(s) \in Visible
  BY BufferSizeVisible DEF Owned
<1>2. Alike(s, f) /\ f.fullscreen = s.fullscreen /\ f.told = s.told
  BY <1>1 DEF Alike, Keeps, Owned, Chains
<1>3. Alike(s, t) /\ t.chain /\ ~ t.fullscreen /\ t.told = s.told
  BY <1>1 DEF Alike, Keeps, Owned, Chains
<1> HIDE DEF waitable
<1>4. PICK q \in Then(Then(Call("chain", f),
            LAMBDA v : IF waitable THEN Call("latency", [v EXCEPT !.chain = TRUE, !.fullscreen = FALSE])
                       ELSE Done([v EXCEPT !.chain = TRUE, !.fullscreen = FALSE])),
            createRenderTarget) : r \in IF q.ok THEN UseViews(q.s) ELSE {q}
  BY DEF createSwapChain, Then, waitable
<1>5. PICK p \in Then(Call("chain", f),
            LAMBDA v : IF waitable THEN Call("latency", [v EXCEPT !.chain = TRUE, !.fullscreen = FALSE])
                       ELSE Done([v EXCEPT !.chain = TRUE, !.fullscreen = FALSE])) :
            q \in IF p.ok THEN createRenderTarget(p.s) ELSE {p}
  BY <1>4 DEF Then
<1>6. PICK c \in Call("chain", f) : p \in
          IF c.ok THEN IF waitable THEN Call("latency", [c.s EXCEPT !.chain = TRUE, !.fullscreen = FALSE])
                       ELSE Done([c.s EXCEPT !.chain = TRUE, !.fullscreen = FALSE])
          ELSE {c}
  BY <1>5 DEF Then
<1>7. c.s = f
  BY <1>6, CallIs
<1> HIDE DEF f
<1>8. (~ p.ok /\ p.s = f) \/ p.s = t
  BY <1>6, <1>7, CallIs, DoneIs
<1> HIDE DEF t
<1>9. CASE ~ p.ok /\ p.s = f
  BY <1>2, <1>4, <1>5, <1>9
<1>10. CASE p.s = t
  <2>1. q.s = t \/ Remains(t, q.s)
    BY <1>3, <1>5, <1>10, ViewStays DEF Alike, Keeps
  <2>2. Alike(s, q.s) /\ q.s.chain /\ ~ q.s.fullscreen /\ q.s.told = s.told
    BY <1>3, <2>1 DEF Remains, Alike, Keeps
  <2>3. r = q \/ Remains(q.s, r.s)
    BY <1>4, <2>2, UseStays DEF Alike, Keeps
  <2> QED BY <2>2, <2>3 DEF Remains, Alike, Keeps
<1> QED BY <1>8, <1>9, <1>10

LEMMA CanvasStays ==
  ASSUME NEW s, Owned(s), NEW r \in createCanvas(s)
  PROVE  Remains(s, r.s)
<1>1. CASE ~ s.device
  BY <1>1, FailedIs DEF createCanvas, Remains, Alike, Keeps
<1>2. CASE s.device
  <2>1. PICK q \in Call("canvas", s) :
          r \in IF q.ok THEN Call("canvas", [q.s EXCEPT !.canvas = TRUE]) ELSE {q}
    BY <1>2 DEF createCanvas, Then
  <2>2. q.s = s
    BY <2>1, CallIs
  <2>3. r = q \/ r \in Call("canvas", [s EXCEPT !.canvas = TRUE])
    BY <2>1, <2>2
  <2>4. r.s = s \/ r.s = [s EXCEPT !.canvas = TRUE]
    BY <2>2, <2>3, CallIs
  <2> QED BY <2>4 DEF Remains, Alike, Keeps, Owned, Chains
<1> QED BY <1>1, <1>2

\* destroySwapChain: the chain is gone, whatever SetFullscreenState returned.
LEMMA ChainGone ==
  ASSUME NEW s, Owned(s), NEW r \in destroySwapChain(s)
  PROVE  Alike(s, r.s) /\ r.ok /\ ~ r.s.chain /\ ~ r.s.fullscreen /\ r.s.told = s.told
<1> DEFINE v == [s EXCEPT !.rtv = FALSE]
<1>1. Owned(v) /\ Remains(s, v)
  BY DEF Remains, Alike, Keeps, Owned, Chains
<1>2. \A t : Owned(t) => LET d == [t EXCEPT !.chain = FALSE, !.fullscreen = FALSE] IN
        Alike(t, d) /\ ~ d.chain /\ ~ d.fullscreen /\ d.told = t.told
  BY DEF Alike, Keeps, Owned, Chains
<1>3. CASE ~ s.chain
  <2> HIDE DEF v
  <2> DEFINE d == [v EXCEPT !.chain = FALSE, !.fullscreen = FALSE]
  <2>1. r \in Done(d)
    BY <1>3 DEF destroySwapChain, v
  <2>2. Alike(v, d) /\ ~ d.chain /\ ~ d.fullscreen /\ d.told = v.told
    BY <1>1, <1>2
  <2> HIDE DEF d
  <2> QED BY <1>1, <2>1, <2>2, DoneIs DEF Remains, Alike, Keeps
<1>4. CASE s.chain
  <2> HIDE DEF v
  <2>1. PICK q \in setFullscreenState(v, FALSE) :
          r \in Done([q.s EXCEPT !.chain = FALSE, !.fullscreen = FALSE])
    BY <1>4 DEF destroySwapChain, Always, v
  <2>2. Alike(v, q.s) /\ q.s.told = v.told
    BY <1>1, <2>1, StateStays
  <2> DEFINE d == [q.s EXCEPT !.chain = FALSE, !.fullscreen = FALSE]
  <2>3. Alike(q.s, d) /\ ~ d.chain /\ ~ d.fullscreen /\ d.told = q.s.told
    BY <1>2, <2>2 DEF Alike, Keeps
  <2> HIDE DEF d
  <2> QED BY <1>1, <2>1, <2>2, <2>3, DoneIs DEF Remains, Alike, Keeps, d
<1> QED BY <1>3, <1>4 DEF Owned, Chains

\* Events told to those who listen.
LEMMA TellStays ==
  ASSUME NEW s, Owned(s)
  PROVE  /\ Alike(s, Tell(s, "create")) /\ Alike(s, Tell(s, "destroy"))
         /\ Tell(s, "destroy").told = "destroyed"
         /\ \A e \in {"create", "destroy"} : LET t == Tell(s, e) IN
              /\ t.chain = s.chain /\ t.rtv = s.rtv /\ t.info = s.info /\ t.canvas = s.canvas
              /\ t.fullscreen = s.fullscreen /\ t.to_mode = s.to_mode /\ t.to_window = s.to_window
              /\ t.client = s.client /\ t.mode = s.mode /\ t.model = s.model /\ t.stale = s.stale
              /\ t.null_use = s.null_use
BY DEF Tell, Alike, Keeps, Owned, Chains

\* What enterExclusiveFullscreen is made of when it does not refuse at once.
LEMMA EnterParts ==
  ASSUME NEW s, NEW r \in enterExclusiveFullscreen(s), r \notin Failed(s)
  PROVE  \E mode \in Modes : \E d \in destroySwapChain(Tell(s, "destroy")) :
         \E w \in Resized(d.s, mode) :
         \E p \in createSwapChain([w.s EXCEPT !.mode = mode, !.exclusive = TRUE]) :
           \/ ~ p.ok /\ r = p
           \/ /\ p.ok
              /\ \E q \in setFullscreenState(p.s, TRUE) :
                   r \in IF q.ok
                         THEN Done(Tell([q.s EXCEPT !.to_window = FALSE, !.to_mode = TRUE], "create"))
                         ELSE {q}
<1>1. s.chain /\ s.model # "composition"
  BY DEF enterExclusiveFullscreen
<1>2. PICK mode \in Modes : r \in
         Then(Then(Always(destroySwapChain(Tell(s, "destroy")),
                LAMBDA t : Always(Resized(t, mode), LAMBDA u :
                  createSwapChain([u EXCEPT !.mode = mode, !.exclusive = TRUE]))),
                         LAMBDA t : setFullscreenState(t, TRUE)),
                    LAMBDA t : Done(Tell([t EXCEPT !.to_window = FALSE, !.to_mode = TRUE], "create")))
  BY <1>1 DEF enterExclusiveFullscreen
<1>3. PICK q \in Then(Always(destroySwapChain(Tell(s, "destroy")),
                LAMBDA t : Always(Resized(t, mode), LAMBDA u :
                  createSwapChain([u EXCEPT !.mode = mode, !.exclusive = TRUE]))),
                         LAMBDA t : setFullscreenState(t, TRUE)) :
         r \in IF q.ok THEN Done(Tell([q.s EXCEPT !.to_window = FALSE, !.to_mode = TRUE], "create")) ELSE {q}
  BY <1>2 DEF Then
<1>4. PICK p \in Always(destroySwapChain(Tell(s, "destroy")),
                LAMBDA t : Always(Resized(t, mode), LAMBDA u :
                  createSwapChain([u EXCEPT !.mode = mode, !.exclusive = TRUE]))) :
         q \in IF p.ok THEN setFullscreenState(p.s, TRUE) ELSE {p}
  BY <1>3 DEF Then
<1>5. PICK d \in destroySwapChain(Tell(s, "destroy")) :
         p \in Always(Resized(d.s, mode), LAMBDA u :
                  createSwapChain([u EXCEPT !.mode = mode, !.exclusive = TRUE]))
  BY <1>4 DEF Always
<1>6. PICK w \in Resized(d.s, mode) :
         p \in createSwapChain([w.s EXCEPT !.mode = mode, !.exclusive = TRUE])
  BY <1>5 DEF Always
<1> HIDE <1>2
<1>7. CASE ~ p.ok
  <2>1. q = p /\ r = p
    BY <1>3, <1>4, <1>7
  <2> QED BY <1>5, <1>6, <1>7, <2>1
<1>8. CASE p.ok
  <2>1. q \in setFullscreenState(p.s, TRUE)
    BY <1>4, <1>8
  <2> QED BY <1>3, <1>5, <1>6, <1>8, <2>1
<1> QED BY <1>7, <1>8

LEMMA EnterKeeps ==
  ASSUME NEW s, Owned(s), NEW r \in enterExclusiveFullscreen(s)
  PROVE  Keeps(s, r.s) /\ (s.exclusive => r.s.exclusive)
<1>1. CASE r \in Failed(s)
  BY <1>1, FailedIs DEF Keeps
<1>2. CASE r \notin Failed(s)
  <2>1. PICK mode \in Modes : \E d \in destroySwapChain(Tell(s, "destroy")) :
         \E w \in Resized(d.s, mode) :
         \E p \in createSwapChain([w.s EXCEPT !.mode = mode, !.exclusive = TRUE]) :
           \/ ~ p.ok /\ r = p
           \/ /\ p.ok
              /\ \E q \in setFullscreenState(p.s, TRUE) :
                   r \in IF q.ok
                         THEN Done(Tell([q.s EXCEPT !.to_window = FALSE, !.to_mode = TRUE], "create"))
                         ELSE {q}
    BY <1>2, EnterParts
  <2>2. PICK d \in destroySwapChain(Tell(s, "destroy")) :
         \E w \in Resized(d.s, mode) :
         \E p \in createSwapChain([w.s EXCEPT !.mode = mode, !.exclusive = TRUE]) :
           \/ ~ p.ok /\ r = p
           \/ /\ p.ok
              /\ \E q \in setFullscreenState(p.s, TRUE) :
                   r \in IF q.ok
                         THEN Done(Tell([q.s EXCEPT !.to_window = FALSE, !.to_mode = TRUE], "create"))
                         ELSE {q}
    BY <2>1
  <2>3. PICK w \in Resized(d.s, mode) :
         \E p \in createSwapChain([w.s EXCEPT !.mode = mode, !.exclusive = TRUE]) :
           \/ ~ p.ok /\ r = p
           \/ /\ p.ok
              /\ \E q \in setFullscreenState(p.s, TRUE) :
                   r \in IF q.ok
                         THEN Done(Tell([q.s EXCEPT !.to_window = FALSE, !.to_mode = TRUE], "create"))
                         ELSE {q}
    BY <2>2
  <2> DEFINE v == [w.s EXCEPT !.mode = mode, !.exclusive = TRUE]
  <2>4. mode \in Visible /\ mode \in Sizes
    BY SizeFacts
  <2>5. Keeps(s, d.s) /\ ~ d.s.chain /\ ~ d.s.fullscreen
    <3>1. Keeps(s, Tell(s, "destroy"))
      BY TellStays DEF Alike
    <3>2. Keeps(Tell(s, "destroy"), d.s) /\ ~ d.s.chain /\ ~ d.s.fullscreen
      BY <2>2, <3>1, ChainGone DEF Alike, Keeps
    <3> QED BY <3>1, <3>2 DEF Keeps
  <2>6. Keeps(s, w.s) /\ ~ w.s.fullscreen
    <3>1. Remains(d.s, w.s)
      BY <2>3, <2>4, <2>5, SizeStays DEF Keeps
    <3> QED BY <2>5, <3>1 DEF Remains, Alike, Keeps
  <2>7. Keeps(s, v) /\ v.exclusive
    BY <2>4, <2>6 DEF Keeps, Owned, Chains
  <2> HIDE DEF v
  <2>8. PICK p \in createSwapChain(v) :
           \/ ~ p.ok /\ r = p
           \/ /\ p.ok
              /\ \E q \in setFullscreenState(p.s, TRUE) :
                   r \in IF q.ok
                         THEN Done(Tell([q.s EXCEPT !.to_window = FALSE, !.to_mode = TRUE], "create"))
                         ELSE {q}
    BY <2>3 DEF v
  <2>9. Keeps(s, p.s) /\ p.s.exclusive /\ (p.ok => p.s.chain)
    BY <2>7, <2>8, ChainStays DEF Alike, Keeps
  <2>10. CASE ~ p.ok
    BY <2>8, <2>9, <2>10
  <2>11. CASE p.ok
    <3>1. PICK q \in setFullscreenState(p.s, TRUE) :
            r \in IF q.ok
                  THEN Done(Tell([q.s EXCEPT !.to_window = FALSE, !.to_mode = TRUE], "create"))
                  ELSE {q}
      BY <2>8, <2>11
    <3>2. Keeps(s, q.s) /\ q.s.exclusive
      BY <2>9, <2>11, <3>1, StateStays DEF Alike, Keeps
    <3> DEFINE u == [q.s EXCEPT !.to_window = FALSE, !.to_mode = TRUE]
    <3>3. Keeps(s, u) /\ u.exclusive
      BY <3>2 DEF Keeps, Owned, Chains
    <3> HIDE DEF u
    <3>4. Keeps(s, Tell(u, "create")) /\ Tell(u, "create").exclusive
      BY <3>3, TellStays DEF Alike, Keeps
    <3>5. r.s = q.s \/ r.s = Tell(u, "create")
      BY <3>1, DoneIs DEF u
    <3> QED BY <3>2, <3>4, <3>5
  <2> QED BY <2>10, <2>11
<1> QED BY <1>1, <1>2

\* What leaveExclusiveFullscreen is made of.
LEMMA LeaveParts ==
  ASSUME NEW s, s.chain, NEW r \in leaveExclusiveFullscreen(s)
  PROVE  \E q \in setFullscreenState(s, FALSE) :
           \/ ~ q.s.exclusive /\ r \in Done(q.s)
           \/ /\ q.s.exclusive
              /\ \E d \in destroySwapChain(Tell(q.s, "destroy")) :
                 \E c \in createSwapChain([d.s EXCEPT !.exclusive = FALSE]) :
                   r \in IF c.ok THEN Done(Tell(c.s, "create")) ELSE {c}
<1>1. PICK q \in setFullscreenState(s, FALSE) :
        r \in IF q.s.exclusive
              THEN Always(destroySwapChain(Tell(q.s, "destroy")), LAMBDA u :
                     Then(createSwapChain([u EXCEPT !.exclusive = FALSE]),
                          LAMBDA v : Done(Tell(v, "create"))))
              ELSE Done(q.s)
  BY DEF leaveExclusiveFullscreen, Always
<1>2. CASE ~ q.s.exclusive
  BY <1>1, <1>2
<1>3. CASE q.s.exclusive
  <2>1. PICK d \in destroySwapChain(Tell(q.s, "destroy")) :
          r \in Then(createSwapChain([d.s EXCEPT !.exclusive = FALSE]),
                     LAMBDA v : Done(Tell(v, "create")))
    BY <1>1, <1>3 DEF Always
  <2>2. PICK c \in createSwapChain([d.s EXCEPT !.exclusive = FALSE]) :
          r \in IF c.ok THEN Done(Tell(c.s, "create")) ELSE {c}
    BY <2>1 DEF Then
  <2> QED BY <1>1, <1>3, <2>1, <2>2
<1> QED BY <1>2, <1>3

LEMMA LeaveKeeps ==
  ASSUME NEW s, Owned(s), NEW r \in leaveExclusiveFullscreen(s)
  PROVE  Keeps(s, r.s) /\ (s.chain => ~ r.s.exclusive) /\ (r.s.exclusive => s.exclusive)
<1>1. CASE ~ s.chain
  BY <1>1, FailedIs DEF leaveExclusiveFullscreen, Keeps
<1>2. CASE s.chain
  <2>1. PICK q \in setFullscreenState(s, FALSE) :
           \/ ~ q.s.exclusive /\ r \in Done(q.s)
           \/ /\ q.s.exclusive
              /\ \E d \in destroySwapChain(Tell(q.s, "destroy")) :
                 \E c \in createSwapChain([d.s EXCEPT !.exclusive = FALSE]) :
                   r \in IF c.ok THEN Done(Tell(c.s, "create")) ELSE {c}
    BY <1>2, LeaveParts
  <2>2. Keeps(s, q.s)
    BY <2>1, StateStays DEF Alike
  <2>3. CASE ~ q.s.exclusive /\ r \in Done(q.s)
    BY <2>2, <2>3, DoneIs
  <2>4. CASE ~ (~ q.s.exclusive /\ r \in Done(q.s))
    <3>1. PICK d \in destroySwapChain(Tell(q.s, "destroy")) :
            \E c \in createSwapChain([d.s EXCEPT !.exclusive = FALSE]) :
               r \in IF c.ok THEN Done(Tell(c.s, "create")) ELSE {c}
      BY <2>1, <2>4
    <3> DEFINE e == [d.s EXCEPT !.exclusive = FALSE]
    <3>2. Keeps(s, d.s) /\ ~ d.s.fullscreen
      BY <2>2, <3>1, TellStays, ChainGone DEF Alike, Keeps
    <3>3. Keeps(s, e) /\ ~ e.exclusive
      BY <3>2 DEF Keeps, Owned, Chains
    <3> HIDE DEF e
    <3>4. PICK c \in createSwapChain(e) : r \in IF c.ok THEN Done(Tell(c.s, "create")) ELSE {c}
      BY <3>1 DEF e
    <3>5. Keeps(s, c.s) /\ ~ c.s.exclusive
      BY <3>3, <3>4, ChainStays DEF Alike, Keeps
    <3>6. r.s = c.s \/ r.s = Tell(c.s, "create")
      BY <3>4, DoneIs
    <3> QED BY <3>5, <3>6, TellStays DEF Alike, Keeps
  <2> QED BY <2>3, <2>4
<1> QED BY <1>1, <1>2

------------------------------------------------------------------------------
(* The same functions when no call but SetFullscreenState fails.           *)

Stands(s) == Owned(s) /\ s.device /\ s.canvas /\ ~ s.null_use

Rests(s) == Stands(s) /\ s.chain /\ s.rtv

Settles(s) ==
  ~ s.stale => IF s.model = "composition"
               THEN s.info = s.canvas_size
               ELSE ~ s.to_window /\ ~ s.to_mode /\ s.client # Minimized =>
                      s.info = s.client \/ (s.exclusive /\ s.info = s.mode)

Holds(s) == Rests(s) /\ Settles(s)

\* The views a frame draws to, of a chain and a device that are there.
LEMMA ViewMade ==
  ASSUME ~ failing, NEW s, s.chain, s.device, NEW r \in createRenderTarget(s)
  PROVE  r.ok /\ r.s = [s EXCEPT !.rtv = TRUE]
<1> DEFINE t == [s EXCEPT !.rtv = TRUE]
<1>1. PICK q \in Call("view", s) : r \in IF q.ok THEN Done([q.s EXCEPT !.rtv = TRUE]) ELSE {q}
  BY DEF createRenderTarget, Then
<1>2. "view" # "fullscreen"
  OBVIOUS
<1>3. q.ok /\ q.s = s
  BY <1>1, <1>2, CallIs
<1>4. r \in Done(t)
  BY <1>1, <1>3
<1> HIDE DEF t
<1>5. r.ok /\ r.s = t
  BY <1>4, DoneIs
<1> QED BY <1>5 DEF t

\* Resizing gives the buffers the size and makes their view again.
LEMMA BuffersResized ==
  ASSUME ~ failing, NEW s, Stands(s), s.chain, NEW size \in Visible,
         NEW r \in resizeSwapChain(s, size)
  PROVE  r.ok /\ r.s = [s EXCEPT !.rtv = TRUE, !.info = size, !.stale = FALSE]
<1>1. size # 0
  BY DEF Visible, Minimized
<1> DEFINE t == [s EXCEPT !.rtv = FALSE, !.info = size, !.stale = FALSE]
           u == [t EXCEPT !.rtv = TRUE]
<1>2. t \in Chains /\ t.chain /\ t.device /\ t.canvas
  BY DEF Stands, Owned, Chains
<1>3. u.rtv /\ u.canvas
  BY <1>2 DEF Chains
<1>4. u = [s EXCEPT !.rtv = TRUE, !.info = size, !.stale = FALSE]
  BY DEF Stands, Owned, Chains
<1>5. PICK q \in Then(Call("buffers", t), createRenderTarget) :
         r \in IF q.ok THEN UseViews(q.s) ELSE {q}
  BY <1>1 DEF resizeSwapChain, Then
<1> HIDE DEF u, t
<1>6. PICK p \in Call("buffers", t) : q \in IF p.ok THEN createRenderTarget(p.s) ELSE {p}
  BY <1>5 DEF Then
<1>7. p.ok /\ p.s = t
  <2>1. "buffers" # "fullscreen"
    OBVIOUS
  <2> QED BY <1>6, <2>1, CallIs
<1>8. q.ok /\ q.s = u
  BY <1>2, <1>6, <1>7, ViewMade DEF u
<1>9. r \in Done(u)
  BY <1>3, <1>5, <1>8 DEF UseViews
<1>10. r.ok /\ r.s = u
  BY <1>9, DoneIs
<1> QED BY <1>4, <1>10

\* WM_SIZE leaves the buffers with the size of the window, if it can be seen.
LEMMA WindowSized ==
  ASSUME ~ failing, NEW s, Stands(s), NEW size \in Sizes, NEW r \in Resized(s, size)
  PROVE  /\ Stands(r.s) /\ Remains(s, r.s) /\ (s.rtv => r.s.rtv)
         /\ s.chain /\ Settles(s) => Settles(r.s)
<1>1. Remains(s, r.s)
  BY SizeStays DEF Stands
<1> DEFINE t == [s EXCEPT !.client = size]
           u == [t EXCEPT !.rtv = TRUE, !.info = size, !.stale = FALSE]
           v == [u EXCEPT !.to_window = FALSE, !.to_mode = FALSE]
<1>2. CASE size = s.client
  BY <1>1, <1>2, DoneIs DEF Resized
<1>3. /\ Stands(t) /\ t.chain = s.chain /\ t.model = s.model /\ t.rtv = s.rtv
      /\ t.model = "composition" \/ size = Minimized => (Settles(s) => Settles(t))
  BY DEF Stands, Owned, Chains, Settles
<1>4. CASE size # s.client /\ (size = Minimized \/ ~ s.chain \/ s.model = "composition")
  <2>1. r \in Done(t)
    BY <1>3, <1>4 DEF Resized, onWindowSize
  <2> HIDE DEF t
  <2> QED BY <1>1, <1>3, <1>4, <2>1, DoneIs
<1>5. CASE size # s.client /\ ~ (size = Minimized \/ ~ s.chain \/ s.model = "composition")
  <2>1. Stands(v) /\ v.rtv /\ Settles(v)
    BY <1>5 DEF Stands, Owned, Chains, Visible, Settles
  <2>2. PICK q \in resizeSwapChain(t, size) :
          r \in IF q.ok THEN Done([q.s EXCEPT !.to_window = FALSE, !.to_mode = FALSE]) ELSE {q}
    BY <1>3, <1>5 DEF Resized, onWindowSize, Then
  <2>3. q.ok /\ q.s = u
    BY <1>3, <1>5, <2>2, BuffersResized DEF Visible
  <2>4. r \in Done(v)
    BY <2>2, <2>3
  <2> HIDE DEF v
  <2> QED BY <1>1, <2>1, <2>4, DoneIs
<1> QED BY <1>2, <1>4, <1>5

\* Whether or not the system lets go of the screen or hands it over.
LEMMA StateSet ==
  ASSUME ~ failing, NEW s, Stands(s), NEW on \in BOOLEAN, on => s.chain /\ s.exclusive,
         NEW r \in setFullscreenState(s, on)
  PROVE  Stands(r.s) /\ (s.rtv => r.s.rtv) /\ (s.chain /\ Settles(s) => Settles(r.s))
<1>1. CASE s.fullscreen = on
  BY <1>1, DoneIs DEF setFullscreenState
<1>2. CASE s.fullscreen # on
  <2> DEFINE t == [s EXCEPT !.fullscreen = on]
             sizes == IF on THEN {s.mode} ELSE WindowSizes \cup {s.client}
  <2>1. PICK q \in Call("fullscreen", s) :
          r \in IF q.ok THEN UNION {Always(Resized([q.s EXCEPT !.fullscreen = on], size), Done) :
                    size \in IF on THEN {q.s.mode} ELSE WindowSizes \cup {q.s.client}}
                ELSE {q}
    BY <1>2 DEF setFullscreenState, Then
  <2>2. q.s = s
    BY <2>1, CallIs
  <2>3. CASE ~ q.ok
    BY <2>1, <2>2, <2>3
  <2>4. CASE q.ok
    <3>1. PICK size \in sizes : r \in Always(Resized(t, size), Done)
      BY <2>1, <2>2, <2>4
    <3>2. size \in Sizes
      BY SizeFacts DEF Stands, Owned, Chains
    <3>3. /\ Stands(t) /\ t.rtv = s.rtv /\ t.chain = s.chain /\ (Settles(s) => Settles(t))
      BY DEF Stands, Owned, Chains, Settles
    <3> HIDE DEF t
    <3>4. PICK p \in Resized(t, size) : r \in Done(p.s)
      BY <3>1 DEF Always
    <3>5. r.s = p.s
      BY <3>4, DoneIs
    <3> QED BY <3>2, <3>3, <3>4, <3>5, WindowSized
  <2> QED BY <2>3, <2>4
<1> QED BY <1>1, <1>2

LEMMA ChainDestroyed ==
  ASSUME ~ failing, NEW s, Stands(s), NEW r \in destroySwapChain(s) PROVE Stands(r.s)
<1> DEFINE v == [s EXCEPT !.rtv = FALSE]
<1>1. Stands(v)
  BY DEF Stands, Owned, Chains
<1>2. \A t : Stands(t) => Stands([t EXCEPT !.chain = FALSE, !.fullscreen = FALSE])
  BY DEF Stands, Owned, Chains
<1>3. CASE ~ s.chain
  <2> DEFINE d == [v EXCEPT !.chain = FALSE, !.fullscreen = FALSE]
  <2>1. r \in Done(d)
    BY <1>3 DEF destroySwapChain
  <2>2. Stands(d)
    BY <1>1, <1>2
  <2> HIDE DEF d
  <2> QED BY <2>1, <2>2, DoneIs
<1>4. CASE s.chain
  <2> HIDE DEF v
  <2>1. PICK q \in setFullscreenState(v, FALSE) :
          r \in Done([q.s EXCEPT !.chain = FALSE, !.fullscreen = FALSE])
    BY <1>4 DEF destroySwapChain, Always, v
  <2> DEFINE d == [q.s EXCEPT !.chain = FALSE, !.fullscreen = FALSE]
  <2>2. Stands(q.s)
    BY <1>1, <2>1, StateSet
  <2>3. Stands(d)
    BY <1>2, <2>2
  <2> HIDE DEF d
  <2> QED BY <2>1, <2>3, DoneIs DEF d
<1> QED BY <1>3, <1>4 DEF Stands, Owned, Chains

\* A chain has the size of what it is shown in.
LEMMA ChainMade ==
  ASSUME ~ failing, NEW s, Stands(s), NEW r \in createSwapChain(s)
  PROVE  r.ok /\ Holds(r.s)
<1> DEFINE f == [s EXCEPT !.info = BufferSize(s), !.stale = FALSE]
           t == [f EXCEPT !.chain = TRUE, !.fullscreen = FALSE]
           u == [t EXCEPT !.rtv = TRUE]
           waitable == s.model = "composition" \/ (s.model = "modern" /\ ~s.exclusive)
<1>1. BufferSize(s) \in Visible
  BY BufferSizeVisible DEF Stands, Owned
<1>2. BufferSize(s) = IF s.model = "composition" THEN s.canvas_size
                      ELSE IF s.exclusive THEN s.mode ELSE Clamp(s.client)
  BY DEF BufferSize, Stands, Owned, Chains
<1>3. s.client # Minimized => Clamp(s.client) = s.client
  BY SizeFacts DEF Stands, Owned, Chains
<1> HIDE DEF waitable
<1>4. t.chain /\ t.device /\ Rests(u) /\ u.canvas
  BY <1>1 DEF Stands, Owned, Chains, Rests
<1>5. Settles(u)
  BY <1>1, <1>2, <1>3 DEF Stands, Owned, Chains, Settles
<1>6. PICK q \in Then(Then(Call("chain", f),
            LAMBDA v : IF waitable THEN Call("latency", [v EXCEPT !.chain = TRUE, !.fullscreen = FALSE])
                       ELSE Done([v EXCEPT !.chain = TRUE, !.fullscreen = FALSE])),
            createRenderTarget) : r \in IF q.ok THEN UseViews(q.s) ELSE {q}
  BY DEF createSwapChain, Then, waitable
<1>7. PICK p \in Then(Call("chain", f),
            LAMBDA v : IF waitable THEN Call("latency", [v EXCEPT !.chain = TRUE, !.fullscreen = FALSE])
                       ELSE Done([v EXCEPT !.chain = TRUE, !.fullscreen = FALSE])) :
            q \in IF p.ok THEN createRenderTarget(p.s) ELSE {p}
  BY <1>6 DEF Then
<1>8. PICK c \in Call("chain", f) : p \in
          IF c.ok THEN IF waitable THEN Call("latency", [c.s EXCEPT !.chain = TRUE, !.fullscreen = FALSE])
                       ELSE Done([c.s EXCEPT !.chain = TRUE, !.fullscreen = FALSE])
          ELSE {c}
  BY <1>7 DEF Then
<1> HIDE DEF f, u
<1>9. "chain" # "fullscreen" /\ "latency" # "fullscreen"
  OBVIOUS
<1>10. c.ok /\ c.s = f
  BY <1>8, <1>9, CallIs
<1>11. p \in Call("latency", t) \/ p \in Done(t)
  BY <1>8, <1>10
<1> HIDE DEF t
<1>12. p.ok /\ p.s = t
  BY <1>9, <1>11, CallIs, DoneIs
<1>13. q.ok /\ q.s = u
  <2>1. q \in createRenderTarget(t)
    BY <1>7, <1>12
  <2> QED BY <1>4, <2>1, ViewMade DEF u
<1>14. r \in Done(u)
  BY <1>4, <1>6, <1>13 DEF UseViews, Rests
<1> QED BY <1>4, <1>5, <1>14, DoneIs DEF Holds

LEMMA CanvasMade ==
  ASSUME ~ failing, NEW s, s.device, NEW r \in createCanvas(s)
  PROVE  r.ok /\ r.s = [s EXCEPT !.canvas = TRUE]
<1> DEFINE t == [s EXCEPT !.canvas = TRUE]
<1>1. PICK q \in Call("canvas", s) :
        r \in IF q.ok THEN Call("canvas", [q.s EXCEPT !.canvas = TRUE]) ELSE {q}
  BY DEF createCanvas, Then
<1>2. "canvas" # "fullscreen"
  OBVIOUS
<1>3. q.ok /\ q.s = s
  BY <1>1, <1>2, CallIs
<1>4. r \in Call("canvas", t)
  BY <1>1, <1>3
<1> HIDE DEF t
<1>5. r.ok /\ r.s = t
  BY <1>2, <1>4, CallIs
<1> QED BY <1>5 DEF t

LEMMA TellHolds ==
  ASSUME NEW s
  PROVE  /\ Stands(s) => Stands(Tell(s, "destroy")) /\ Stands(Tell(s, "create"))
         /\ Holds(s) => Holds(Tell(s, "destroy")) /\ Holds(Tell(s, "create"))
<1>1. Owned(s) => /\ Owned(Tell(s, "create")) /\ Owned(Tell(s, "destroy"))
                  /\ \A e \in {"create", "destroy"} : LET t == Tell(s, e) IN
                      /\ t.device = s.device /\ t.exclusive = s.exclusive
                      /\ t.canvas_size = s.canvas_size
  BY TellStays DEF Alike, Keeps, Tell, Owned, Chains
<1> QED BY <1>1, TellStays DEF Stands, Holds, Rests, Settles

\* Entering or leaving the exclusive full screen leaves a chain that has settled.
LEMMA Enters ==
  ASSUME ~ failing, NEW s, Holds(s), NEW r \in enterExclusiveFullscreen(s) PROVE Holds(r.s)
<1>1. CASE r \in Failed(s)
  BY <1>1, FailedIs
<1>2. CASE r \notin Failed(s)
  <2>1. PICK mode \in Modes : \E d \in destroySwapChain(Tell(s, "destroy")) :
         \E w \in Resized(d.s, mode) :
         \E p \in createSwapChain([w.s EXCEPT !.mode = mode, !.exclusive = TRUE]) :
           \/ ~ p.ok /\ r = p
           \/ /\ p.ok
              /\ \E q \in setFullscreenState(p.s, TRUE) :
                   r \in IF q.ok
                         THEN Done(Tell([q.s EXCEPT !.to_window = FALSE, !.to_mode = TRUE], "create"))
                         ELSE {q}
    BY <1>2, EnterParts
  <2>2. PICK d \in destroySwapChain(Tell(s, "destroy")) :
         \E w \in Resized(d.s, mode) :
         \E p \in createSwapChain([w.s EXCEPT !.mode = mode, !.exclusive = TRUE]) :
           \/ ~ p.ok /\ r = p
           \/ /\ p.ok
              /\ \E q \in setFullscreenState(p.s, TRUE) :
                   r \in IF q.ok
                         THEN Done(Tell([q.s EXCEPT !.to_window = FALSE, !.to_mode = TRUE], "create"))
                         ELSE {q}
    BY <2>1
  <2>3. PICK w \in Resized(d.s, mode) :
         \E p \in createSwapChain([w.s EXCEPT !.mode = mode, !.exclusive = TRUE]) :
           \/ ~ p.ok /\ r = p
           \/ /\ p.ok
              /\ \E q \in setFullscreenState(p.s, TRUE) :
                   r \in IF q.ok
                         THEN Done(Tell([q.s EXCEPT !.to_window = FALSE, !.to_mode = TRUE], "create"))
                         ELSE {q}
    BY <2>2
  <2> DEFINE v == [w.s EXCEPT !.mode = mode, !.exclusive = TRUE]
  <2>4. mode \in Visible /\ mode \in Sizes
    BY SizeFacts
  <2>5. Stands(Tell(s, "destroy")) /\ Stands(d.s)
    BY <2>2, TellHolds, ChainDestroyed DEF Holds, Rests
  <2>6. Stands(w.s)
    BY <2>3, <2>4, <2>5, WindowSized
  <2>7. Stands(v) /\ v.exclusive
    BY <2>4, <2>6 DEF Stands, Owned, Chains
  <2> HIDE DEF v
  <2>8. PICK p \in createSwapChain(v) :
           \/ ~ p.ok /\ r = p
           \/ /\ p.ok
              /\ \E q \in setFullscreenState(p.s, TRUE) :
                   r \in IF q.ok
                         THEN Done(Tell([q.s EXCEPT !.to_window = FALSE, !.to_mode = TRUE], "create"))
                         ELSE {q}
    BY <2>3 DEF v
  <2>9. p.ok /\ Holds(p.s) /\ p.s.exclusive
    BY <2>7, <2>8, ChainMade, ChainStays DEF Stands, Alike
  <2>10. PICK q \in setFullscreenState(p.s, TRUE) :
            r \in IF q.ok
                  THEN Done(Tell([q.s EXCEPT !.to_window = FALSE, !.to_mode = TRUE], "create"))
                  ELSE {q}
    BY <2>8, <2>9
  <2>11. Holds(q.s)
    <3>1. Stands(q.s) /\ q.s.rtv /\ Settles(q.s)
      BY <2>9, <2>10, StateSet DEF Holds, Rests
    <3>2. q.s.chain
      BY <2>9, <2>10, StateStays DEF Holds, Rests, Stands
    <3> QED BY <3>1, <3>2 DEF Holds, Rests
  <2> DEFINE u == [q.s EXCEPT !.to_window = FALSE, !.to_mode = TRUE]
  <2>12. Holds(u)
    BY <2>11 DEF Holds, Rests, Stands, Owned, Chains, Settles
  <2> HIDE DEF u
  <2>13. r.s = q.s \/ r.s = Tell(u, "create")
    BY <2>10, DoneIs DEF u
  <2> QED BY <2>11, <2>12, <2>13, TellHolds
<1> QED BY <1>1, <1>2

LEMMA Leaves ==
  ASSUME ~ failing, NEW s, Holds(s), NEW r \in leaveExclusiveFullscreen(s) PROVE Holds(r.s)
<1>1. Owned(s) /\ s.chain
  BY DEF Holds, Rests, Stands
<1>2. PICK q \in setFullscreenState(s, FALSE) :
           \/ ~ q.s.exclusive /\ r \in Done(q.s)
           \/ /\ q.s.exclusive
              /\ \E d \in destroySwapChain(Tell(q.s, "destroy")) :
                 \E c \in createSwapChain([d.s EXCEPT !.exclusive = FALSE]) :
                   r \in IF c.ok THEN Done(Tell(c.s, "create")) ELSE {c}
  BY <1>1, LeaveParts
<1>3. Holds(q.s)
  <2>1. Stands(q.s) /\ q.s.rtv /\ Settles(q.s)
    BY <1>1, <1>2, StateSet DEF Holds, Rests
  <2>2. q.s.chain
    BY <1>1, <1>2, StateStays
  <2> QED BY <2>1, <2>2 DEF Holds, Rests
<1>4. CASE ~ q.s.exclusive /\ r \in Done(q.s)
  BY <1>3, <1>4, DoneIs
<1>5. CASE ~ (~ q.s.exclusive /\ r \in Done(q.s))
  <2>1. PICK d \in destroySwapChain(Tell(q.s, "destroy")) :
          \E c \in createSwapChain([d.s EXCEPT !.exclusive = FALSE]) :
             r \in IF c.ok THEN Done(Tell(c.s, "create")) ELSE {c}
    BY <1>2, <1>5
  <2> DEFINE e == [d.s EXCEPT !.exclusive = FALSE]
  <2>2. Stands(Tell(q.s, "destroy")) /\ Stands(d.s)
    BY <1>3, <2>1, TellHolds, ChainDestroyed DEF Holds, Rests
  <2>3. ~ d.s.fullscreen
    BY <2>1, <2>2, ChainGone DEF Stands
  <2>4. Stands(e)
    BY <2>2, <2>3 DEF Stands, Owned, Chains
  <2> HIDE DEF e
  <2>5. PICK c \in createSwapChain(e) : r \in IF c.ok THEN Done(Tell(c.s, "create")) ELSE {c}
    BY <2>1 DEF e
  <2>6. c.ok /\ Holds(c.s)
    BY <2>4, <2>5, ChainMade
  <2>7. r.s = Tell(c.s, "create")
    BY <2>5, <2>6, DoneIs
  <2> QED BY <2>6, <2>7, TellHolds
<1> QED BY <1>4, <1>5

------------------------------------------------------------------------------
(* What scripts, the user and the frame call.                              *)

\* What is kept whatever fails, and what if only SetFullscreenState does.
Serves(s, t) ==
  /\ Owned(t) /\ (s.null_use => t.null_use) /\ (~ failing /\ Holds(s) => Holds(t))

Framed(s) == s.exclusive => s.window_fullscreen

LEMMA EntersServing ==
  ASSUME NEW s, Owned(s), NEW r \in enterExclusiveFullscreen(s)
  PROVE  /\ Serves(s, r.s) /\ r.s.window_fullscreen = s.window_fullscreen
         /\ s.exclusive => r.s.exclusive
BY EnterKeeps, Enters DEF Serves, Keeps

LEMMA LeavesServing ==
  ASSUME NEW s, Owned(s), NEW r \in leaveExclusiveFullscreen(s)
  PROVE  /\ Serves(s, r.s) /\ r.s.window_fullscreen = s.window_fullscreen
         /\ (s.chain => ~ r.s.exclusive) /\ (r.s.exclusive => s.exclusive)
BY LeaveKeeps, Leaves DEF Serves, Keeps

\* WM_ACTIVATE: the monitor is given back for as long as the window is not used.
LEMMA Activated ==
  ASSUME NEW s, Owned(s), s.chain, NEW r \in enterExclusiveFullscreenTemporarily(s)
  PROVE  Serves(s, r.s) /\ r.s.exclusive = s.exclusive /\ r.s.window_fullscreen = s.window_fullscreen
<1>1. CASE ~ s.exclusive
  BY <1>1, DoneIs DEF enterExclusiveFullscreenTemporarily, Serves
<1>2. CASE s.exclusive
  <2>1. PICK q \in setFullscreenState(s, TRUE) :
          r \in IF q.ok THEN Done([q.s EXCEPT !.to_window = FALSE, !.to_mode = TRUE]) ELSE {q}
    BY <1>2 DEF enterExclusiveFullscreenTemporarily, Then
  <2> DEFINE u == [q.s EXCEPT !.to_window = FALSE, !.to_mode = TRUE]
  <2>2. Alike(s, q.s) /\ q.s.chain = s.chain
    BY <1>2, <2>1, StateStays
  <2>3. ~ failing /\ Holds(s) => Holds(q.s)
    BY <1>2, <2>1, <2>2, StateSet DEF Holds, Rests
  <2>4. /\ Owned(u) /\ u.null_use = q.s.null_use /\ u.exclusive = q.s.exclusive
        /\ u.window_fullscreen = q.s.window_fullscreen
    BY <2>2 DEF Alike, Keeps, Owned, Chains
  <2>5. Holds(q.s) => Holds(u)
    BY DEF Holds, Rests, Stands, Owned, Chains, Settles
  <2> HIDE DEF u
  <2>6. r.s = q.s \/ r.s = u
    BY <2>1, DoneIs DEF u
  <2> QED BY <2>2, <2>3, <2>4, <2>5, <2>6 DEF Serves, Alike, Keeps
<1> QED BY <1>1, <1>2

LEMMA Deactivated ==
  ASSUME NEW s, Owned(s), s.chain, NEW r \in leaveExclusiveFullscreenTemporarily(s)
  PROVE  Serves(s, r.s) /\ r.s.exclusive = s.exclusive /\ r.s.window_fullscreen = s.window_fullscreen
<1>1. CASE ~ s.exclusive
  BY <1>1, DoneIs DEF leaveExclusiveFullscreenTemporarily, Serves
<1>2. CASE s.exclusive
  <2>1. PICK q \in setFullscreenState(s, FALSE) :
          r \in Done([q.s EXCEPT !.to_window = TRUE, !.to_mode = FALSE])
    BY <1>2 DEF leaveExclusiveFullscreenTemporarily, Always
  <2> DEFINE u == [q.s EXCEPT !.to_window = TRUE, !.to_mode = FALSE]
  <2>2. Alike(s, q.s) /\ q.s.chain = s.chain
    BY <2>1, StateStays
  <2>3. ~ failing /\ Holds(s) => Holds(q.s)
    BY <2>1, <2>2, StateSet DEF Holds, Rests
  <2>4. /\ Owned(u) /\ u.null_use = q.s.null_use /\ u.exclusive = q.s.exclusive
        /\ u.window_fullscreen = q.s.window_fullscreen
    BY <2>2 DEF Alike, Keeps, Owned, Chains
  <2>5. Holds(q.s) => Holds(u)
    BY DEF Holds, Rests, Stands, Owned, Chains, Settles
  <2> HIDE DEF u
  <2>6. r.s = u
    BY <2>1, DoneIs DEF u
  <2> QED BY <2>2, <2>3, <2>4, <2>5, <2>6 DEF Serves, Alike, Keeps
<1> QED BY <1>1, <1>2

\* SwapChain::setCanvasSize.
LEMMA CanvasSet ==
  ASSUME NEW s, Owned(s), NEW size \in CanvasSizes, NEW r \in setCanvasSize(s, size)
  PROVE  /\ Serves(s, r.s) /\ r.s.window_fullscreen = s.window_fullscreen
         /\ Framed(s) => Framed(r.s)
<1> DEFINE a == Tell(s, "destroy")
           c == [destroyCanvas(a) EXCEPT !.canvas_size = size]
           d == [c EXCEPT !.canvas = TRUE]
           After(t) == IF t.exclusive
                       THEN Always(Always(leaveExclusiveFullscreen(t), enterExclusiveFullscreen), Done)
                       ELSE Done(t)
<1>1. /\ Owned(a) /\ a.told = "destroyed" /\ Keeps(s, a) /\ a.exclusive = s.exclusive
      /\ (Holds(s) => Holds(a))
  BY TellStays, TellHolds DEF Alike, Keeps
<1> HIDE DEF a
<1>2. Owned(c) /\ Keeps(s, c) /\ c.exclusive = s.exclusive /\ c.told = "destroyed"
  BY <1>1 DEF Keeps, Owned, Chains, destroyCanvas
<1>3. Holds(a) => /\ c.device /\ Rests(d)
                  /\ d.model # "composition" => Settles(d)
  BY <1>1 DEF Holds, Rests, Stands, Settles, Owned, Chains, destroyCanvas
<1>4. PICK q \in Then(Then(createCanvas(c), UseViews),
                      LAMBDA t : IF t.model = "composition" THEN resizeSwapChain(t, size) ELSE Done(t)) :
        r \in IF q.ok THEN After(Tell(q.s, "create")) ELSE {q}
  BY DEF setCanvasSize, Then, a, c
<1> HIDE DEF After
<1>5. PICK p \in Then(createCanvas(c), UseViews) :
        q \in IF p.ok
              THEN IF p.s.model = "composition" THEN resizeSwapChain(p.s, size) ELSE Done(p.s)
              ELSE {p}
  BY <1>4 DEF Then
<1>6. PICK v \in createCanvas(c) : p \in IF v.ok THEN UseViews(v.s) ELSE {v}
  BY <1>5 DEF Then
<1> HIDE DEF c
<1>7. size \in Sizes /\ size \in Visible
  BY SizeFacts
<1>8. Remains(c, v.s)
  BY <1>2, <1>6, CanvasStays
<1>9. Remains(c, p.s)
  BY <1>6, <1>8, UseStays DEF Remains, Alike, Keeps
<1>10. Remains(c, q.s)
  <2>1. q = p \/ q \in resizeSwapChain(p.s, size) \/ q \in Done(p.s)
    BY <1>5
  <2> QED BY <1>7, <1>9, <2>1, DoneIs, BuffersStay DEF Remains, Alike, Keeps
<1>11. ~ failing /\ Holds(a) => q.ok /\ Holds(q.s)
  <2> SUFFICES ASSUME ~ failing, Holds(a) PROVE q.ok /\ Holds(q.s)
    OBVIOUS
  <2>1. v.ok /\ v.s = d
    BY <1>3, <1>6, CanvasMade
  <2> HIDE DEF d
  <2>2. p \in Done(d)
    BY <1>3, <1>6, <2>1 DEF UseViews, Rests, Stands
  <2>3. p.ok /\ p.s = d
    BY <2>2, DoneIs
  <2>4. CASE d.model # "composition"
    BY <1>3, <1>5, <2>3, <2>4, DoneIs DEF Holds
  <2>5. CASE d.model = "composition"
    <3> DEFINE e == [d EXCEPT !.rtv = TRUE, !.info = size, !.stale = FALSE]
    <3>1. q \in resizeSwapChain(d, size)
      BY <1>5, <2>3, <2>5
    <3>2. d.canvas_size = size
      BY <1>1 DEF d, c, destroyCanvas, Owned, Chains
    <3>3. Holds(e)
      BY <1>3, <1>7, <2>5, <3>2 DEF Holds, Rests, Stands, Settles, Owned, Chains
    <3>4. q.ok /\ q.s = e
      BY <1>3, <1>7, <3>1, BuffersResized DEF Rests
    <3> HIDE DEF e
    <3> QED BY <3>3, <3>4
  <2> QED BY <2>4, <2>5
<1>12. Keeps(s, q.s) /\ q.s.exclusive = s.exclusive /\ Serves(s, q.s)
  BY <1>1, <1>2, <1>10, <1>11 DEF Remains, Alike, Keeps, Serves
<1>13. CASE ~ q.ok
  BY <1>4, <1>12, <1>13 DEF Keeps, Framed
<1>14. CASE q.ok
  <2> DEFINE e == Tell(q.s, "create")
  <2>1. Keeps(s, e) /\ e.exclusive = s.exclusive /\ Serves(s, e)
    BY <1>12, TellStays, TellHolds DEF Alike, Keeps, Serves
  <2> HIDE DEF e
  <2>2. r \in After(e)
    BY <1>4, <1>14 DEF e
  <2>3. CASE ~ e.exclusive
    BY <2>1, <2>2, <2>3, DoneIs DEF After, Keeps, Framed
  <2>4. CASE e.exclusive
    <3>1. PICK w \in Always(leaveExclusiveFullscreen(e), enterExclusiveFullscreen) : r \in Done(w.s)
      BY <2>2, <2>4 DEF After, Always
    <3>2. PICK l \in leaveExclusiveFullscreen(e) : w \in enterExclusiveFullscreen(l.s)
      BY <3>1 DEF Always
    <3>3. Serves(e, l.s) /\ l.s.window_fullscreen = e.window_fullscreen
      BY <2>1, <3>2, LeavesServing DEF Keeps
    <3>4. Serves(l.s, w.s) /\ w.s.window_fullscreen = l.s.window_fullscreen
      BY <3>2, <3>3, EntersServing DEF Serves
    <3>5. r.s = w.s
      BY <3>1, DoneIs
    <3> QED BY <2>1, <2>4, <3>3, <3>4, <3>5 DEF Serves, Keeps, Framed
  <2> QED BY <2>3, <2>4
<1> QED BY <1>13, <1>14

\* The window becomes a window again.
LEMMA WindowedSet ==
  ASSUME NEW s, Owned(s), NEW size \in Sizes, NEW r \in setWindowedMode(s, size)
  PROVE  Serves(s, r.s) /\ (s.chain => Framed(r.s))
<1>1. PICK q \in Resized(s, size) :
        r \in onWindowFullscreenStateChange([q.s EXCEPT !.window_fullscreen = FALSE], FALSE)
  BY DEF setWindowedMode, Always
<1> DEFINE u == [q.s EXCEPT !.window_fullscreen = FALSE]
<1>2. Remains(s, q.s) /\ (~ failing /\ Holds(s) => Holds(q.s))
  BY <1>1, SizeStays, WindowSized DEF Holds, Rests, Remains
<1>3. /\ Owned(u) /\ (s.null_use => u.null_use) /\ u.chain = s.chain
      /\ Holds(q.s) => Holds(u)
  BY <1>2 DEF Remains, Alike, Keeps, Holds, Rests, Stands, Settles, Owned, Chains
<1> HIDE DEF u
<1>4. r \in IF u.chain THEN leaveExclusiveFullscreen(u) ELSE Done(u)
  BY <1>1, <1>3 DEF onWindowFullscreenStateChange, u, Owned, Chains
<1>5. CASE ~ u.chain
  BY <1>2, <1>3, <1>4, <1>5, DoneIs DEF Serves
<1>6. CASE u.chain
  BY <1>2, <1>3, <1>4, <1>6, LeavesServing DEF Serves, Framed
<1> QED BY <1>5, <1>6

\* The window takes the monitor.
LEMMA FullScreenSet ==
  ASSUME NEW s, Owned(s), NEW r \in setFullScreenMode(s)
  PROVE  Serves(s, r.s) /\ r.s.window_fullscreen
<1> DEFINE o == [s EXCEPT !.placement = IF s.window_fullscreen THEN @ ELSE s.client]
<1>1. Owned(o) /\ o.null_use = s.null_use /\ (Holds(s) => Holds(o)) /\ Monitor \in Sizes
  BY SizeFacts DEF Holds, Rests, Stands, Settles, Owned, Chains
<1>2. PICK q \in Resized(o, Monitor) :
        r \in onWindowFullscreenStateChange([q.s EXCEPT !.window_fullscreen = TRUE], TRUE)
  BY DEF setFullScreenMode, Always
<1> HIDE DEF o
<1> DEFINE u == [q.s EXCEPT !.window_fullscreen = TRUE]
<1>3. Remains(o, q.s) /\ (~ failing /\ Holds(o) => Holds(q.s))
  BY <1>1, <1>2, SizeStays, WindowSized DEF Holds, Rests, Remains
<1>4. /\ Owned(u) /\ (q.s.null_use => u.null_use) /\ u.window_fullscreen
      /\ Holds(q.s) => Holds(u)
  BY <1>3 DEF Remains, Alike, Keeps, Holds, Rests, Stands, Settles, Owned, Chains
<1> HIDE DEF u
<1>5. r \in IF u.chain THEN enterExclusiveFullscreen(u) ELSE Done(u)
  BY <1>2, <1>4 DEF onWindowFullscreenStateChange, u, Owned, Chains
<1>6. Serves(s, u)
  BY <1>1, <1>3, <1>4 DEF Remains, Alike, Keeps, Serves
<1>7. CASE ~ u.chain
  BY <1>4, <1>5, <1>6, <1>7, DoneIs
<1>8. CASE u.chain
  BY <1>4, <1>5, <1>6, <1>8, EntersServing DEF Serves
<1> QED BY <1>7, <1>8

\* Alt+Enter, to the full screen or back to where the window was.
LEMMA Toggled ==
  ASSUME NEW s, Owned(s), NEW r \in toggleFullScreenMode(s)
  PROVE  Serves(s, r.s) /\ (s.chain => Framed(r.s))
<1>1. CASE ~ s.window_fullscreen
  BY <1>1, FullScreenSet DEF toggleFullScreenMode, Framed
<1>2. CASE s.window_fullscreen
  <2> DEFINE u == [s EXCEPT !.window_fullscreen = FALSE]
  <2>1. PICK q \in onWindowFullscreenStateChange(u, FALSE) : r \in Resized(q.s, q.s.placement)
    BY <1>2 DEF toggleFullScreenMode, Always
  <2>2. Serves(s, u) /\ u.chain = s.chain
    BY DEF Serves, Holds, Rests, Stands, Settles, Owned, Chains
  <2> HIDE DEF u
  <2>3. q \in IF u.chain THEN leaveExclusiveFullscreen(u) ELSE Done(u)
    BY <2>1, <2>2 DEF onWindowFullscreenStateChange, Serves, Owned, Chains
  <2>4. Serves(s, q.s) /\ (s.chain => ~ q.s.exclusive)
    <3>1. CASE ~ u.chain
      BY <2>2, <2>3, <3>1, DoneIs
    <3>2. CASE u.chain
      BY <2>2, <2>3, <3>2, LeavesServing DEF Serves
    <3> QED BY <3>1, <3>2
  <2>5. q.s.placement \in Sizes
    BY <2>4 DEF Serves, Owned, Chains
  <2>6. Remains(q.s, r.s) /\ (~ failing /\ Holds(q.s) => Holds(r.s))
    BY <2>1, <2>4, <2>5, SizeStays, WindowSized DEF Holds, Rests, Remains, Serves
  <2> QED BY <2>4, <2>6 DEF Serves, Remains, Alike, Keeps, Framed
<1> QED BY <1>1, <1>2

\* SwapChain::setWindowMode, for a device on which there is no chain yet.
LEMMA WindowModeSet ==
  ASSUME NEW s, Owned(s), ~ s.chain, s.device, NEW size \in CanvasSizes,
         NEW r \in setWindowMode(s, size)
  PROVE  /\ Keeps(s, r.s) /\ r.s.exclusive = s.exclusive
         /\ ~ failing /\ ~ s.null_use => r.ok /\ Holds(r.s)
<1> DEFINE v(m) == Tell([s EXCEPT !.model = m], "destroy")
           e(m) == [[v(m) EXCEPT !.rtv = FALSE] EXCEPT !.chain = FALSE, !.fullscreen = FALSE]
           k(m) == [destroyCanvas(e(m)) EXCEPT !.canvas_size = size]
           h(m) == [k(m) EXCEPT !.canvas = TRUE]
<1>1. PICK m \in Models :
         r \in Then(Then(Always(destroySwapChain(v(m)),
                    LAMBDA t : createCanvas([destroyCanvas(t) EXCEPT !.canvas_size = size])),
                  createSwapChain),
             LAMBDA t : Done(Tell(t, "create")))
  BY DEF setWindowMode
<1>2. PICK x \in Then(Always(destroySwapChain(v(m)),
                    LAMBDA t : createCanvas([destroyCanvas(t) EXCEPT !.canvas_size = size])),
                  createSwapChain) : r \in IF x.ok THEN Done(Tell(x.s, "create")) ELSE {x}
  BY <1>1 DEF Then
<1>3. PICK y \in Always(destroySwapChain(v(m)),
                    LAMBDA t : createCanvas([destroyCanvas(t) EXCEPT !.canvas_size = size])) :
         x \in IF y.ok THEN createSwapChain(y.s) ELSE {y}
  BY <1>2 DEF Then
<1>4. PICK z \in destroySwapChain(v(m)) :
         y \in createCanvas([destroyCanvas(z.s) EXCEPT !.canvas_size = size])
  BY <1>3 DEF Always
<1> HIDE <1>1
<1>5. /\ v(m) \in Chains /\ Owned(v(m)) /\ ~ v(m).chain /\ v(m).told = "destroyed" /\ Keeps(s, v(m))
      /\ v(m).exclusive = s.exclusive /\ v(m).null_use = s.null_use
  <2> DEFINE w == [s EXCEPT !.model = m]
  <2>1. Owned(w) /\ Keeps(s, w) /\ ~ w.chain /\ w.exclusive = s.exclusive /\ w.null_use = s.null_use
    BY DEF Keeps, Owned, Chains
  <2> HIDE DEF w
  <2> DEFINE wd == Tell(w, "destroy")
  <2>2. Alike(w, wd) /\ wd.told = "destroyed" /\ wd.chain = w.chain /\ wd.null_use = w.null_use
    BY <2>1, TellStays
  <2>3. v(m) = wd
    BY DEF w
  <2> HIDE DEF v, wd
  <2> QED BY <2>1, <2>2, <2>3 DEF Alike, Keeps, Owned
<1> HIDE DEF v
<1>6. /\ Owned(k(m)) /\ k(m).told = "destroyed" /\ Keeps(s, k(m)) /\ k(m).device
      /\ k(m).exclusive = s.exclusive /\ k(m).null_use = s.null_use
  BY <1>5 DEF Keeps, Owned, Chains, destroyCanvas
<1>7. ~ s.null_use => Stands(h(m))
  BY <1>6 DEF Stands, Owned, Chains
<1>8. z.s = e(m)
  <2>1. z \in Done(e(m))
    BY <1>4, <1>5 DEF destroySwapChain, Owned, Chains
  <2> HIDE DEF e
  <2> QED BY <2>1, DoneIs
<1>9. y \in createCanvas(k(m))
  BY <1>4, <1>8
<1> HIDE DEF k
<1>10. Remains(k(m), y.s) /\ (~ failing => y.ok /\ y.s = h(m))
  BY <1>6, <1>9, CanvasStays, CanvasMade
<1> HIDE DEF h
<1>11. Keeps(s, y.s) /\ y.s.exclusive = s.exclusive /\ y.s.told = "destroyed"
  BY <1>6, <1>10 DEF Remains, Alike, Keeps
<1>12. Keeps(s, x.s) /\ x.s.exclusive = s.exclusive
  <2>1. x = y \/ x \in createSwapChain(y.s)
    BY <1>3
  <2> QED BY <1>11, <2>1, ChainStays DEF Alike, Keeps
<1>13. ~ failing /\ ~ s.null_use => x.ok /\ Holds(x.s)
  BY <1>3, <1>7, <1>10, ChainMade
<1>14. (r.s = x.s /\ ~ x.ok) \/ (x.ok /\ r.ok /\ r.s = Tell(x.s, "create"))
  BY <1>2, DoneIs
<1> DEFINE u == Tell(x.s, "create")
<1>15. Keeps(s, u) /\ u.exclusive = s.exclusive /\ (Holds(x.s) => Holds(u))
  <2>1. Alike(x.s, u)
    BY <1>12, TellStays DEF Keeps
  <2> HIDE DEF u
  <2>2. Keeps(s, u) /\ u.exclusive = s.exclusive
    BY <1>12, <2>1 DEF Alike, Keeps
  <2> QED BY <2>2, TellHolds DEF u
<1> HIDE DEF u
<1>16. (r.s = x.s /\ ~ x.ok) \/ (x.ok /\ r.ok /\ r.s = u)
  BY <1>14 DEF u
<1> QED BY <1>12, <1>13, <1>15, <1>16

\* Once the device is there again everything is made again, whatever had failed
\* before, unless a view that is not there was used on the way.
LEMMA DeviceReplaced ==
  ASSUME NEW s, Owned(s), NEW r \in doDestroyAndCreate(s)
  PROVE  /\ Owned(r.s) /\ (s.null_use => r.s.null_use)
         /\ r.s.exclusive = s.exclusive /\ r.s.window_fullscreen = s.window_fullscreen
         /\ ~ failing /\ ~ r.s.null_use => Holds(r.s)
         /\ ~ failing /\ Stands(s) => ~ r.s.null_use
<1>1. PICK d \in destroySwapChain(s) :
        r \in Then(Call("device", [destroyCanvas(d.s) EXCEPT !.device = FALSE]),
                   LAMBDA u : Always(onGraphicsDeviceCreate([u EXCEPT !.device = TRUE]), Done))
  BY DEF doDestroyAndCreate, Always
<1>2. Alike(s, d.s) /\ ~ d.s.chain /\ ~ d.s.fullscreen
  BY <1>1, ChainGone
<1>3. ~ failing /\ Stands(s) => ~ d.s.null_use
  BY <1>1, ChainDestroyed DEF Stands
<1> DEFINE f == [destroyCanvas(d.s) EXCEPT !.device = FALSE]
           b == [f EXCEPT !.device = TRUE]
<1>4. PICK c \in Call("device", f) :
        r \in IF c.ok THEN Always(onGraphicsDeviceCreate([c.s EXCEPT !.device = TRUE]), Done) ELSE {c}
  BY <1>1 DEF Then
<1>5. /\ Owned(f) /\ Owned(b) /\ b.device /\ ~ b.chain /\ b.canvas_size \in CanvasSizes
      /\ f.null_use = d.s.null_use /\ b.null_use = d.s.null_use
      /\ f.exclusive = s.exclusive /\ b.exclusive = s.exclusive
      /\ f.window_fullscreen = s.window_fullscreen /\ b.window_fullscreen = s.window_fullscreen
  BY <1>2 DEF Alike, Keeps, Owned, Chains, destroyCanvas
<1>6. s.null_use => d.s.null_use
  BY <1>2 DEF Alike, Keeps
<1> HIDE DEF f
<1>7. c.s = f /\ (~ failing => c.ok)
  <2>1. "device" # "fullscreen"
    OBVIOUS
  <2> QED BY <1>4, <2>1, CallIs
<1>8. CASE ~ c.ok
  BY <1>4, <1>5, <1>6, <1>7, <1>8
<1>9. CASE c.ok
  <2>1. r \in Always(onGraphicsDeviceCreate(b), Done)
    BY <1>4, <1>7, <1>9
  <2> HIDE DEF b
  <2>2. PICK g \in onGraphicsDeviceCreate(b) : r \in Done(g.s)
    BY <2>1 DEF Always
  <2>3. PICK w \in setWindowMode(b, b.canvas_size) :
          g \in IF w.ok THEN IF w.s.exclusive THEN enterExclusiveFullscreen(w.s) ELSE Done(w.s)
                ELSE {w}
    BY <2>2 DEF onGraphicsDeviceCreate, Then
  <2>4. /\ Keeps(b, w.s) /\ w.s.exclusive = b.exclusive
        /\ ~ failing /\ ~ b.null_use => w.ok /\ Holds(w.s)
    BY <1>5, <2>3, WindowModeSet
  <2>5. /\ Serves(w.s, g.s) /\ g.s.exclusive = w.s.exclusive
        /\ g.s.window_fullscreen = w.s.window_fullscreen
    <3>1. CASE g \in enterExclusiveFullscreen(w.s) /\ w.s.exclusive
      <4>1. Owned(w.s) /\ w.s.exclusive = TRUE
        BY <2>4, <3>1 DEF Keeps, Owned, Chains
      <4>2. Serves(w.s, g.s) /\ g.s.window_fullscreen = w.s.window_fullscreen /\ g.s.exclusive
        BY <3>1, <4>1, EntersServing
      <4>3. g.s.exclusive = TRUE
        BY <4>2 DEF Serves, Owned, Chains
      <4> QED BY <4>1, <4>2, <4>3
    <3>2. CASE g.s = w.s
      BY <2>4, <3>2 DEF Serves, Keeps
    <3> QED BY <2>3, <3>1, <3>2, DoneIs
  <2>6. r.s = g.s
    BY <2>2, DoneIs
  <2>7. ~ failing /\ ~ b.null_use => Holds(g.s)
    BY <2>4, <2>5 DEF Serves
  <2>8. b.null_use => g.s.null_use
    BY <2>4, <2>5 DEF Serves, Keeps
  <2>9. Holds(g.s) => ~ g.s.null_use
    BY DEF Holds, Rests, Stands
  <2> QED BY <1>3, <1>5, <1>6, <2>4, <2>5, <2>6, <2>7, <2>8, <2>9 DEF Serves, Keeps
<1> QED BY <1>8, <1>9

\* A resize that waits is done before the next frame is shown.
LEMMA Presented ==
  ASSUME NEW s, Owned(s), NEW r \in present(s)
  PROVE  Serves(s, r.s) /\ r.s.exclusive = s.exclusive /\ r.s.window_fullscreen = s.window_fullscreen
<1>1. s.client \in Sizes /\ s.mode \in Visible /\ s.mode \in Sizes
  BY SizeFacts DEF Owned, Chains
<1>2. CASE s.to_window
  <2> DEFINE size == Clamp(s.client)
             t == [s EXCEPT !.rtv = TRUE, !.info = size, !.stale = FALSE]
             z == [t EXCEPT !.to_window = FALSE, !.stale = s.model = "composition"]
  <2>1. size \in Visible /\ size \in Sizes /\ (s.client # Minimized => size = s.client)
    BY <1>1, SizeFacts
  <2>2. PICK q \in resizeSwapChain(s, size) :
          r \in IF q.ok THEN Done([q.s EXCEPT !.to_window = FALSE, !.stale = s.model = "composition"])
                ELSE {q}
    BY <1>2 DEF present, Then
  <2>3. Holds(s) => Holds(z)
    BY <2>1 DEF Holds, Rests, Stands, Owned, Chains, Settles
  <2> HIDE DEF size
  <2>4. Remains(s, q.s) /\ (~ failing /\ Holds(s) => q.ok /\ q.s = t)
    BY <2>1, <2>2, BuffersStay, BuffersResized DEF Holds, Rests
  <2> DEFINE y == [q.s EXCEPT !.to_window = FALSE, !.stale = s.model = "composition"]
  <2>5. Remains(s, y)
    BY <2>4 DEF Remains, Alike, Keeps, Owned, Chains
  <2>6. q.s = t => y = z
    OBVIOUS
  <2> HIDE DEF y, z, t
  <2>7. (r = q /\ ~ q.ok) \/ (r.s = y /\ q.ok)
    BY <2>2, DoneIs DEF y
  <2> QED BY <2>3, <2>4, <2>5, <2>6, <2>7 DEF Serves, Remains, Alike, Keeps
<1>3. CASE ~ s.to_window /\ s.to_mode
  <2> DEFINE overtaken == s.model = "composition" \/ ~ s.exclusive
             t == [s EXCEPT !.rtv = TRUE, !.info = s.mode, !.stale = FALSE]
             z == [t EXCEPT !.to_mode = FALSE, !.stale = overtaken]
  <2>1. PICK q \in resizeSwapChain(s, s.mode) :
          r \in IF q.ok THEN Done([q.s EXCEPT !.to_mode = FALSE, !.stale = overtaken]) ELSE {q}
    BY <1>3 DEF present, Then
  <2>2. overtaken \in BOOLEAN
    OBVIOUS
  <2>3. Holds(s) => Holds(z)
    BY <1>1 DEF Holds, Rests, Stands, Owned, Chains, Settles
  <2> HIDE DEF overtaken
  <2>4. Remains(s, q.s) /\ (~ failing /\ Holds(s) => q.ok /\ q.s = t)
    BY <1>1, <2>1, BuffersStay, BuffersResized DEF Holds, Rests
  <2> DEFINE y == [q.s EXCEPT !.to_mode = FALSE, !.stale = overtaken]
  <2>5. Remains(s, y)
    BY <2>2, <2>4 DEF Remains, Alike, Keeps, Owned, Chains
  <2>6. q.s = t => y = z
    OBVIOUS
  <2> HIDE DEF y, z, t
  <2>7. (r = q /\ ~ q.ok) \/ (r.s = y /\ q.ok)
    BY <2>1, DoneIs DEF y
  <2> QED BY <2>3, <2>4, <2>5, <2>6, <2>7 DEF Serves, Remains, Alike, Keeps
<1>4. CASE ~ s.to_window /\ ~ s.to_mode
  <2>1. PICK q \in IF s.info # s.canvas_size /\ ~ (s.model = "composition") THEN UseViews(s) ELSE Done(s) :
          r \in IF q.ok
                THEN IF q.s.chain THEN Done(q.s) \cup doDestroyAndCreate(q.s)
                     ELSE Failed([q.s EXCEPT !.null_use = TRUE])
                ELSE {q}
    BY <1>4 DEF present, Then
  <2>2. Remains(s, q.s) /\ (Holds(s) => q.ok /\ q.s = s)
    <3>1. q \in UseViews(s) \/ q \in Done(s)
      BY <2>1
    <3>2. Remains(s, q.s)
      BY <3>1, UseStays, DoneIs DEF Remains, Alike, Keeps
    <3>3. Holds(s) => q \in Done(s)
      BY <3>1 DEF UseViews, Holds, Rests, Stands
    <3> QED BY <3>2, <3>3, DoneIs
  <2> DEFINE z == [q.s EXCEPT !.null_use = TRUE]
  <2>3. Remains(s, z)
    BY <2>2 DEF Remains, Alike, Keeps, Owned, Chains
  <2> HIDE DEF z
  <2>4. \/ r = q /\ ~ q.ok
        \/ q.ok /\ q.s.chain /\ (r \in Done(q.s) \/ r \in doDestroyAndCreate(q.s))
        \/ q.ok /\ ~ q.s.chain /\ r \in Failed(z)
    BY <2>1 DEF z
  <2>5. CASE r.s = q.s
    BY <2>2, <2>5 DEF Serves, Remains, Alike, Keeps
  <2>6. CASE r \in doDestroyAndCreate(q.s)
    <3>1. /\ Owned(r.s) /\ (q.s.null_use => r.s.null_use)
          /\ r.s.exclusive = q.s.exclusive /\ r.s.window_fullscreen = q.s.window_fullscreen
          /\ ~ failing /\ ~ r.s.null_use => Holds(r.s)
          /\ ~ failing /\ Stands(q.s) => ~ r.s.null_use
      BY <2>2, <2>6, DeviceReplaced DEF Remains, Alike, Keeps
    <3> QED BY <2>2, <3>1 DEF Serves, Remains, Alike, Keeps, Holds, Rests
  <2>7. CASE ~ q.s.chain /\ q.ok /\ r.s = z
    BY <2>2, <2>3, <2>7 DEF Serves, Remains, Alike, Keeps, Holds, Rests
  <2> QED BY <2>4, <2>5, <2>6, <2>7, DoneIs, FailedIs
<1>5. s.to_window \in BOOLEAN /\ s.to_mode \in BOOLEAN
  BY DEF Owned, Chains
<1> QED BY <1>2, <1>3, <1>4, <1>5

\* What holds in the loop: the half of it that failures cannot touch, that what
\* is framed for the full screen is, and that chain and views are right.
ChainInv ==
  /\ Owned(sc) /\ failing \in BOOLEAN /\ health \in {"whole", "failed", "mended"}
  /\ health # "failed" => Holds(sc)
  /\ health = "whole" => Framed(sc)

LEMMA ChainStarts == SwapChainInit => ChainInv
<1> SUFFICES ASSUME SwapChainInit PROVE ChainInv
  OBVIOUS
<1>1. PICK size \in CanvasSizes, window \in WindowSizes, m \in Models :
        sc = [device |-> TRUE, model |-> m, canvas |-> TRUE, canvas_size |-> size,
              chain |-> TRUE, rtv |-> TRUE,
              info |-> IF m = "composition" THEN size ELSE window,
              fullscreen |-> FALSE, exclusive |-> FALSE, mode |-> window,
              to_window |-> FALSE, to_mode |-> FALSE,
              client |-> window, window_fullscreen |-> FALSE, placement |-> window,
              told |-> "created", auto_size |-> size, stale |-> FALSE, null_use |-> FALSE]
  BY DEF SwapChainInit
<1>2. window \in Visible /\ window \in Sizes /\ size \in Visible
  BY SizeFacts
<1>3. Owned(sc) /\ Holds(sc) /\ Framed(sc)
  BY <1>1, <1>2 DEF Holds, Rests, Stands, Owned, Settles, Framed, Chains
<1> QED BY <1>3 DEF ChainInv, SwapChainInit

\* Whichever calls of the system fail, the render targets know the size of the
\* canvas and the monitor is taken only by a chain made for it; as long as only
\* SetFullscreenState fails, and again after the device was made anew, the buffers
\* settle to the size of what they are shown in and no view is used that is not
\* there, whatever WM_SIZE arrives inside which change.
THEOREM ChainSettles == SwapChainSpec => []SwapChainInv
<1>1. ChainInv /\ [SwapChainNext]_chainVars => ChainInv'
  <2> SUFFICES ASSUME ChainInv, [SwapChainNext]_chainVars PROVE ChainInv'
    OBVIOUS
  <2>1. CASE Stopped \/ UNCHANGED chainVars
    BY <2>1 DEF ChainInv, Stopped, chainVars, Owned, Holds, Rests, Stands, Settles, Framed
  <2>2. \A R : (\A r \in R : Serves(sc, r.s) /\ (~ failing /\ Holds(sc) /\ Framed(sc) => Framed(r.s)))
               /\ Performs(R) /\ Continues
               => ChainInv'
    <3> SUFFICES ASSUME NEW R, \A r \in R : Serves(sc, r.s) /\ (~ failing /\ Holds(sc) /\ Framed(sc) => Framed(r.s)),
                        Performs(R), Continues
                 PROVE  ChainInv'
      OBVIOUS
    <3>1. Serves(sc, sc') /\ (~ failing /\ Holds(sc) /\ Framed(sc) => Framed(sc'))
      BY DEF Performs
    <3>2. failing' \in BOOLEAN /\ health' = IF failing THEN "failed" ELSE health
      BY DEF Performs, Continues
    <3>3. Owned(sc)' = Owned(sc') /\ Holds(sc)' = Holds(sc') /\ Framed(sc)' = Framed(sc')
      BY DEF Owned, Holds, Rests, Stands, Settles, Framed
    <3> QED BY <3>1, <3>2, <3>3 DEF ChainInv, Serves, Holds, Rests
  <2> DEFINE GoodEnds(R) == \A r \in R : Serves(sc, r.s) /\ (~ failing /\ Holds(sc) /\ Framed(sc) => Framed(r.s))
  <2>3. Owned(sc)
    BY DEF ChainInv
  <2>4. GoodEnds(present(sc))
    BY <2>3, Presented DEF Framed
  <2>5. sc.chain => /\ GoodEnds(enterExclusiveFullscreenTemporarily(sc))
                    /\ GoodEnds(leaveExclusiveFullscreenTemporarily(sc))
    BY <2>3, Activated, Deactivated DEF Framed
  <2>6. \A size \in WindowSizes \cup {Minimized} : GoodEnds(Resized(sc, size))
    <3> SUFFICES ASSUME NEW size \in WindowSizes \cup {Minimized}, NEW r \in Resized(sc, size)
                 PROVE  Serves(sc, r.s) /\ (~ failing /\ Holds(sc) /\ Framed(sc) => Framed(r.s))
      OBVIOUS
    <3>1. size \in Sizes
      BY SizeFacts
    <3>2. Remains(sc, r.s) /\ (~ failing /\ Holds(sc) => Holds(r.s))
      BY <2>3, <3>1, SizeStays, WindowSized DEF Holds, Rests, Remains
    <3> QED BY <3>2 DEF Serves, Remains, Alike, Keeps, Framed
  <2>7. GoodEnds(toggleFullScreenMode(sc)) /\ GoodEnds(setFullScreenMode(sc))
    BY <2>3, Toggled, FullScreenSet DEF Framed, Holds, Rests
  <2>8. \A size \in WindowSizes : GoodEnds(setWindowedMode(sc, size))
    BY <2>3, WindowedSet, SizeFacts DEF Holds, Rests
  <2>9. \A size \in CanvasSizes :
          GoodEnds(Always(setCanvasSize(sc, size), LAMBDA t : setWindowedMode(t, size)))
    <3> SUFFICES ASSUME NEW size \in CanvasSizes,
                        NEW r \in Always(setCanvasSize(sc, size), LAMBDA t : setWindowedMode(t, size))
                 PROVE  Serves(sc, r.s) /\ (~ failing /\ Holds(sc) /\ Framed(sc) => Framed(r.s))
      OBVIOUS
    <3>1. PICK q \in setCanvasSize(sc, size) : r \in setWindowedMode(q.s, size)
      BY DEF Always
    <3>2. Serves(sc, q.s) /\ (Framed(sc) => Framed(q.s)) /\ size \in Sizes
      BY <2>3, <3>1, CanvasSet, SizeFacts
    <3>3. Serves(q.s, r.s) /\ (q.s.chain => Framed(r.s))
      BY <3>1, <3>2, WindowedSet DEF Serves
    <3> QED BY <3>2, <3>3 DEF Serves, Holds, Rests
  <2>10. \A size \in CanvasSizes :
           GoodEnds(Always(Always(setCanvasSize(sc, size), LAMBDA t : setWindowedMode(t, size)),
                       setFullScreenMode))
    <3> SUFFICES ASSUME NEW size \in CanvasSizes,
                        NEW r \in Always(Always(setCanvasSize(sc, size),
                                                LAMBDA t : setWindowedMode(t, size)),
                                         setFullScreenMode)
                 PROVE  Serves(sc, r.s) /\ Framed(r.s)
      OBVIOUS
    <3>1. PICK q \in Always(setCanvasSize(sc, size), LAMBDA t : setWindowedMode(t, size)) :
            r \in setFullScreenMode(q.s)
      BY DEF Always
    <3>2. Serves(sc, q.s)
      BY <2>9, <3>1
    <3>3. Serves(q.s, r.s) /\ r.s.window_fullscreen
      BY <3>1, <3>2, FullScreenSet DEF Serves
    <3> QED BY <3>2, <3>3 DEF Serves, Framed
  <2> HIDE DEF GoodEnds
  <2>11. \A R : GoodEnds(R) /\ Performs(R) /\ Continues => ChainInv'
    BY <2>2 DEF GoodEnds
  <2>12. CASE ChangeGPU
    <3>1. sc' \in {r.s : r \in doDestroyAndCreate(sc)} /\ failing' \in BOOLEAN
      BY <2>12 DEF ChangeGPU, Performs
    <3>2. /\ Owned(sc') /\ sc'.exclusive = sc.exclusive
          /\ sc'.window_fullscreen = sc.window_fullscreen
          /\ ~ failing /\ ~ sc'.null_use => Holds(sc')
      BY <2>3, <3>1, DeviceReplaced
    <3>3. /\ health' \in {"whole", "failed", "mended"}
          /\ health' # "failed" => ~ failing /\ ~ sc'.null_use
          /\ health' = "whole" => health = "whole"
      BY <2>12 DEF ChangeGPU, Mends, ChainInv
    <3>4. Owned(sc)' = Owned(sc') /\ Holds(sc)' = Holds(sc') /\ Framed(sc)' = Framed(sc')
      BY DEF Owned, Holds, Rests, Stands, Settles, Framed
    <3> QED BY <3>1, <3>2, <3>3, <3>4 DEF ChainInv, Framed
  <2>13. CASE (Present \/ Activate \/ Deactivate \/ UserSize \/ Toggle) /\ Continues
    BY <2>4, <2>5, <2>6, <2>7, <2>11, <2>13 DEF Present, Activate, Deactivate, UserSize, Toggle
  <2>14. CASE (SetWindowed \/ SetFullScreen) /\ Continues
    BY <2>7, <2>8, <2>11, <2>14 DEF SetWindowed, SetFullScreen
  <2>15. CASE (SetDisplayModeWindow \/ SetDisplayModeExclusiveFullscreen) /\ Continues
    BY <2>9, <2>10, <2>11, <2>15 DEF SetDisplayModeWindow, SetDisplayModeExclusiveFullscreen
  <2> QED BY <2>1, <2>12, <2>13, <2>14, <2>15 DEF SwapChainNext
<1>2. ChainInv => SwapChainInv
  BY DEF ChainInv, SwapChainInv, SwapChainTypeOK, NoNullUse, AllThere, SettledSize, FullscreenOwned,
         AutoSizeFollows, Owned, Holds, Rests, Stands, Settles, Framed, Chains, Visible
<1> QED BY <1>1, <1>2, ChainStarts, PTL DEF SwapChainSpec
------------------------------------------------------------------------------
(* The caches of a laser, of as many nodes as it may have.                 *)

\* What holds at first and is kept by each round holds after every round.
LEMMA RoundByRound ==
  ASSUME NEW n \in Nat, NEW B \in SUBSET (0 .. n), 0 \in B, \A k \in 1 .. n : k - 1 \in B => k \in B
  PROVE  B = 0 .. n
<1> DEFINE C == (0 .. n) \ B
<1> SUFFICES ASSUME C # {} PROVE FALSE
  OBVIOUS
<1>1. PICK c \in C : \A k \in C : c <= k
  <2>1. C \in SUBSET Nat
    OBVIOUS
  <2> HIDE DEF C
  <2> QED BY <2>1, LeastOf
<1>2. c \in 1 .. n /\ c - 1 \in B
  BY <1>1
<1> QED BY <1>1, <1>2

\* A loop of n rounds has a sequence of values.
Loops(g, step, a, n) == g[0] = a /\ \A k \in 1 .. n : g[k] = step[<<k, g[k - 1]>>]

LEMMA RoundsExist ==
  ASSUME NEW S, NEW n \in Nat, NEW step \in [(1 .. n) \X S -> S], NEW a \in S
  PROVE  \E g \in [0 .. n -> S] : Loops(g, step, a, n)
<1> USE DEF Loops
<1> DEFINE LoopsFor(m) == \E g \in [0 .. m -> S] : Loops(g, step, a, m)
           B == {m \in 0 .. n : LoopsFor(m)}
<1>1. LoopsFor(0)
  <2> DEFINE g == [k \in 0 .. 0 |-> a]
  <2>1. g \in [0 .. 0 -> S] /\ g[0] = a /\ \A k \in 1 .. 0 : g[k] = step[<<k, g[k - 1]>>]
    OBVIOUS
  <2> QED BY <2>1
<1>2. ASSUME NEW m \in 1 .. n, LoopsFor(m - 1) PROVE LoopsFor(m)
  <2>1. PICK g \in [0 .. m - 1 -> S] :
               g[0] = a /\ \A k \in 1 .. m - 1 : g[k] = step[<<k, g[k - 1]>>]
    BY <1>2
  <2> DEFINE h == [k \in 0 .. m |-> IF k = m THEN step[<<m, g[m - 1]>>] ELSE g[k]]
  <2>2. h \in [0 .. m -> S]
    <3>1. step[<<m, g[m - 1]>>] \in S
      BY <2>1
    <3>2. \A k \in 0 .. m : k # m => g[k] \in S
      BY <2>1
    <3> QED BY <3>1, <3>2
  <2>3. h[0] = a
    BY <2>1
  <2>4. ASSUME NEW k \in 1 .. m PROVE h[k] = step[<<k, h[k - 1]>>]
    <3>1. k - 1 \in 0 .. m /\ k - 1 # m
      OBVIOUS
    <3>2. h[k - 1] = g[k - 1]
      BY <3>1
    <3>3. CASE k = m
      <4>1. h[m] = step[<<m, g[m - 1]>>]
        OBVIOUS
      <4> HIDE DEF h
      <4> QED BY <3>2, <3>3, <4>1
    <3>4. CASE k # m
      BY <2>1, <3>2, <3>4
    <3> QED BY <3>3, <3>4
  <2> HIDE DEF h
  <2> QED BY <2>2, <2>3, <2>4
<1> HIDE DEF LoopsFor
<1>3. B = 0 .. n
  <2>1. B \in SUBSET (0 .. n) /\ 0 \in B /\ \A k \in 1 .. n : k - 1 \in B => k \in B
    BY <1>1, <1>2
  <2> HIDE DEF B
  <2> QED BY <2>1, RoundByRound
<1>4. LoopsFor(n)
  BY <1>3
<1> QED BY <1>4 DEF LoopsFor

Directions == UNION {[D -> Nat] : D \in SUBSET (-1 .. 1)}
Node       == [pos : Nat, dis : Nat, active : BOOLEAN, dir : Directions]
Laser      == [queue : Seq(Node), length : Int]

LEMMA NodeIs == ASSUME NEW x \in Nat, NEW d \in Nat, NEW b \in BOOLEAN
                PROVE  LaserNode(x, d, b) \in Node
<1>1. NoDirection \in Directions
  <2>1. NoDirection \in [{} -> Nat]
    BY DEF NoDirection
  <2> QED BY <2>1 DEF Directions
<1> QED BY <1>1 DEF LaserNode, Node

LEMMA DistanceIs == ASSUME NEW a \in Nat, NEW b \in Nat PROVE Distance(a, b) \in Nat
BY DEF Distance

LEMMA NodesOf ==
  ASSUME NEW q \in Seq(Node)
  PROVE  /\ Len(q) \in Nat /\ DOMAIN q = 1 .. Len(q)
         /\ \A j \in 1 .. Len(q) :
              /\ q[j] \in Node /\ q[j].pos \in Nat /\ q[j].dis \in Nat
              /\ q[j].active \in BOOLEAN /\ q[j].dir \in Directions
<1>1. \A j \in 1 .. Len(q) : q[j] \in Node
  BY ElementOfSeq
<1>2. \A x \in Node : /\ x.pos \in Nat /\ x.dis \in Nat
                      /\ x.active \in BOOLEAN /\ x.dir \in Directions
  BY DEF Node
<1> QED BY <1>1, <1>2, LenProperties

LEMMA DirectionIs ==
  ASSUME NEW q \in Seq(Node), NEW i \in 1 .. Len(q) PROVE Direction(q, i) \in Directions
<1>1. DOMAIN q = 1 .. Len(q) /\ Len(q) \in Nat /\ \A j \in 1 .. Len(q) : q[j].pos \in Nat
  BY NodesOf
<1>2. NoDirection \in Directions
  <2>1. NoDirection \in [{} -> Nat]
    BY DEF NoDirection
  <2> QED BY <2>1 DEF Directions
<1> DEFINE D == {d \in -1 .. 1 : i + d \in DOMAIN q}
           f == [k \in D |-> q[i + k].pos]
<1>3. f \in [D -> Nat] /\ D \in SUBSET (-1 .. 1)
  BY <1>1
<1>4. f \in Directions
  <2> HIDE DEF f, D
  <2> QED BY <1>3 DEF Directions
<1> QED BY <1>2, <1>4 DEF Direction

LEMMA BeforeIs ==
  ASSUME NEW q \in Seq(Node), NEW i \in 1 .. Len(q) PROVE DistanceBefore(q, i) \in Nat
<1>1. \A j \in 1 .. Len(q) : q[j].pos \in Nat
  BY NodesOf
<1>2. i # 1 => i - 1 \in 1 .. Len(q)
  BY LenProperties
<1> QED BY <1>1, <1>2, DistanceIs DEF DistanceBefore

------------------------------------------------------------------------------
\* The sum of the length, node by node.
Sums(g, q) ==
  /\ g[0] = 0
  /\ \A i \in 1 .. Len(q) : g[i] = IF i <= 1 THEN 0 ELSE g[i - 1] + Counted(q, i)

LEMMA CountedIs ==
  ASSUME NEW q \in Seq(Node), NEW i \in 2 .. Len(q) PROVE Counted(q, i) \in Nat
<1>1. i \in 1 .. Len(q)
  BY LenProperties
<1> QED BY <1>1, BeforeIs DEF Counted

LEMMA LengthIs ==
  ASSUME NEW q \in Seq(Node)
  PROVE  \E g \in [0 .. Len(q) -> Int] : Sums(g, q) /\ ActiveLength(q) = g[Len(q)]
<1> DEFINE n == Len(q)
           step == [ks \in (1 .. n) \X Int |-> IF ks[1] <= 1 THEN 0 ELSE ks[2] + Counted(q, ks[1])]
           Def(f) == f = [i \in 0 .. n |-> IF i <= 1 THEN 0 ELSE f[i - 1] + Counted(q, i)]
           h == CHOOSE f : Def(f)
<1>1. n \in Nat
  BY LenProperties
<1>2. step \in [(1 .. n) \X Int -> Int]
  <2> SUFFICES ASSUME NEW ks \in (1 .. n) \X Int
               PROVE  (IF ks[1] <= 1 THEN 0 ELSE ks[2] + Counted(q, ks[1])) \in Int
    OBVIOUS
  <2>1. ks[1] \in 1 .. n /\ ks[2] \in Int
    OBVIOUS
  <2>2. ks[1] > 1 => Counted(q, ks[1]) \in Nat
    BY <1>1, <2>1, CountedIs
  <2> QED BY <1>1, <2>1, <2>2
<1>3. \A k \in 1 .. n, x \in Int : step[<<k, x>>] = IF k <= 1 THEN 0 ELSE x + Counted(q, k)
  OBVIOUS
<1> HIDE DEF step
<1>4. PICK g \in [0 .. n -> Int] : g[0] = 0 /\ \A k \in 1 .. n : g[k] = step[<<k, g[k - 1]>>]
  <2> HIDE DEF n
  <2>1. 0 \in Int
    OBVIOUS
  <2>2. \E g \in [0 .. n -> Int] : Loops(g, step, 0, n)
    BY <1>1, <1>2, <2>1, RoundsExist
  <2> QED BY <2>2 DEF Loops
<1>5. \A i \in 0 .. n : g[i] = IF i <= 1 THEN 0 ELSE g[i - 1] + Counted(q, i)
  <2> SUFFICES ASSUME NEW i \in 0 .. n, i # 0
               PROVE  g[i] = IF i <= 1 THEN 0 ELSE g[i - 1] + Counted(q, i)
    BY <1>4
  <2>1. i \in 1 .. n /\ i - 1 \in 0 .. n
    BY <1>1
  <2> QED BY <1>3, <1>4, <2>1
<1>6. Def(g)
  BY <1>4, <1>5
<1>7. Def(h)
  <2> HIDE DEF Def
  <2> QED BY <1>6
<1>8. ActiveLength(q) = h[n]
  BY DEF ActiveLength
<1> HIDE DEF h
<1>9. \A i \in 0 .. n : h[i] = IF i <= 1 THEN 0 ELSE h[i - 1] + Counted(q, i)
  BY <1>7
<1>10. h \in [0 .. n -> Int]
  <2> DEFINE B == {i \in 0 .. n : h[i] \in Int}
  <2>1. 0 \in B
    BY <1>1, <1>9
  <2>2. ASSUME NEW k \in 1 .. n, k - 1 \in B PROVE k \in B
    <3>1. k > 1 => Counted(q, k) \in Nat
      BY <1>1, CountedIs
    <3> QED BY <1>1, <1>9, <2>2, <3>1
  <2>3. B = 0 .. n
    <3> HIDE DEF B, n
    <3>1. B \subseteq 0 .. n
      BY DEF B
    <3> QED BY <1>1, <2>1, <2>2, <3>1, RoundByRound
  <2>4. DOMAIN h = 0 .. n
    BY <1>7
  <2>5. \A i \in 0 .. n : h[i] \in Int
    BY <2>3
  <2>6. h = [i \in 0 .. n |-> h[i]]
    BY <1>7
  <2> QED BY <2>5, <2>6
<1>11. Sums(h, q)
  BY <1>1, <1>9 DEF Sums
<1> QED BY <1>8, <1>10, <1>11
LEMMA SumsAgree ==
  ASSUME NEW q, NEW r, NEW g, NEW h, NEW m \in Nat, m <= Len(q), m <= Len(r),
         Len(q) \in Nat, Len(r) \in Nat, Sums(g, q), Sums(h, r),
         \A i \in 2 .. m : Counted(q, i) = Counted(r, i)
  PROVE  g[m] = h[m]
<1> DEFINE B == {i \in 0 .. m : g[i] = h[i]}
<1>1. 0 \in B
  BY DEF Sums
<1>2. ASSUME NEW k \in 1 .. m, k - 1 \in B PROVE k \in B
  <2>1. k \in 1 .. Len(q) /\ k \in 1 .. Len(r)
    OBVIOUS
  <2>2. k > 1 => k \in 2 .. m
    OBVIOUS
  <2> QED BY <1>2, <2>1, <2>2 DEF Sums
<1>3. B = 0 .. m
  <2>1. B \in SUBSET (0 .. m)
    OBVIOUS
  <2> HIDE DEF B
  <2> QED BY <1>1, <1>2, <2>1, RoundByRound
<1> QED BY <1>3

\* Queues whose nodes are at the same places and active alike.
SamePlaces(q, r) ==
  /\ Len(q) = Len(r)
  /\ \A i \in 1 .. Len(q) : q[i].pos = r[i].pos /\ q[i].active = r[i].active

LEMMA PlacesDecide ==
  ASSUME NEW q \in Seq(Node), NEW r \in Seq(Node), SamePlaces(q, r)
  PROVE  /\ \A i \in 1 .. Len(q) : /\ Direction(q, i) = Direction(r, i)
                                   /\ DistanceBefore(q, i) = DistanceBefore(r, i)
         /\ ActiveLength(q) = ActiveLength(r)
<1>1. DOMAIN q = 1 .. Len(q) /\ DOMAIN r = 1 .. Len(q) /\ Len(q) \in Nat /\ Len(r) = Len(q)
  BY NodesOf DEF SamePlaces
<1>2. \A i \in 1 .. Len(q) : q[i].pos = r[i].pos /\ q[i].active = r[i].active
  BY DEF SamePlaces
<1>3. ASSUME NEW i \in 1 .. Len(q) PROVE Direction(q, i) = Direction(r, i)
  <2> DEFINE D == {d \in -1 .. 1 : i + d \in 1 .. Len(q)}
  <2>1. [k \in D |-> q[i + k].pos] = [k \in D |-> r[i + k].pos]
    BY <1>2
  <2> QED BY <1>1, <2>1 DEF Direction
<1>4. ASSUME NEW i \in 1 .. Len(q) PROVE DistanceBefore(q, i) = DistanceBefore(r, i)
  <2>1. i # 1 => i - 1 \in 1 .. Len(q)
    BY <1>1
  <2> QED BY <1>2, <2>1 DEF DistanceBefore
<1>5. \A i \in 2 .. Len(q) : Counted(q, i) = Counted(r, i)
  <2> SUFFICES ASSUME NEW i \in 2 .. Len(q) PROVE Counted(q, i) = Counted(r, i)
    OBVIOUS
  <2>1. i \in 1 .. Len(q) /\ i - 1 \in 1 .. Len(q)
    BY <1>1
  <2> QED BY <1>2, <1>4, <2>1 DEF Counted
<1>6. ActiveLength(q) = ActiveLength(r)
  <2>1. PICK g : Sums(g, q) /\ ActiveLength(q) = g[Len(q)]
    BY LengthIs
  <2>2. PICK h : Sums(h, r) /\ ActiveLength(r) = h[Len(r)]
    BY LengthIs
  <2>3. Len(q) <= Len(q) /\ Len(q) <= Len(r) /\ Len(r) \in Nat
    BY <1>1
  <2>4. g[Len(q)] = h[Len(q)]
    BY <1>1, <1>5, <2>1, <2>2, <2>3, SumsAgree
  <2> QED BY <1>1, <2>1, <2>2, <2>4
<1> QED BY <1>3, <1>4, <1>6

\* The length without its last part.
LEMMA LengthBut ==
  ASSUME NEW q \in Seq(Node), NEW r \in Seq(Node), Len(q) > 1, Len(r) = Len(q) \/ Len(r) = Len(q) - 1,
         \A i \in 2 .. Len(q) - 1 : Counted(q, i) = Counted(r, i)
  PROVE  IF Len(r) = Len(q)
         THEN ActiveLength(q) - Counted(q, Len(q)) = ActiveLength(r) - Counted(r, Len(q))
         ELSE ActiveLength(q) = ActiveLength(r) + Counted(q, Len(q))
<1> DEFINE n == Len(q)
<1>1. n \in Nat /\ Len(r) \in Nat /\ n - 1 \in Nat /\ n - 1 <= n /\ n - 1 <= Len(r)
  BY NodesOf
<1>2. PICK g \in [0 .. n -> Int] : Sums(g, q) /\ ActiveLength(q) = g[n]
  BY LengthIs
<1>3. PICK h \in [0 .. Len(r) -> Int] : Sums(h, r) /\ ActiveLength(r) = h[Len(r)]
  BY LengthIs
<1>4. g[n - 1] = h[n - 1]
  <2> DEFINE m == n - 1
  <2>1. m \in Nat /\ m <= Len(q) /\ m <= Len(r) /\ \A i \in 2 .. m : Counted(q, i) = Counted(r, i)
    BY <1>1
  <2> HIDE DEF m
  <2>2. g[m] = h[m]
    BY <1>1, <1>2, <1>3, <2>1, SumsAgree
  <2> QED BY <2>2 DEF m
<1>5. n \in 2 .. n /\ n \in 1 .. n /\ Counted(q, n) \in Nat
  BY <1>1, CountedIs
<1>6. g[n] = g[n - 1] + Counted(q, n) /\ g[n - 1] \in Int
  BY <1>1, <1>2, <1>5 DEF Sums
<1>7. CASE Len(r) = n
  <2>1. h[n] = h[n - 1] + Counted(r, n) /\ Counted(r, n) \in Nat
    BY <1>1, <1>3, <1>5, <1>7, CountedIs DEF Sums
  <2> QED BY <1>2, <1>3, <1>4, <1>5, <1>6, <1>7, <2>1
<1>8. CASE Len(r) = n - 1
  BY <1>1, <1>2, <1>3, <1>4, <1>5, <1>6, <1>8
<1> QED BY <1>7, <1>8

\* The oldest part goes with the oldest node.
LEMMA LengthOfTail ==
  ASSUME NEW q \in Seq(Node), NEW r \in Seq(Node), Len(q) > 1, Len(r) = Len(q) - 1,
         \A i \in 2 .. Len(r) : Counted(r, i) = Counted(q, i + 1)
  PROVE  ActiveLength(q) = ActiveLength(r) + Counted(q, 2)
<1> DEFINE n == Len(r)
<1>1. n \in Nat /\ n > 0 /\ Len(q) = n + 1
  BY NodesOf
<1>2. PICK g \in [0 .. n + 1 -> Int] : Sums(g, q) /\ ActiveLength(q) = g[n + 1]
  BY <1>1, LengthIs
<1>3. PICK h \in [0 .. n -> Int] : Sums(h, r) /\ ActiveLength(r) = h[n]
  BY LengthIs
<1>4. Counted(q, 2) \in Nat
  BY <1>1, CountedIs
<1> HIDE DEF n
<1> DEFINE B == {k \in 0 .. n : k > 0 => g[k + 1] = h[k] + Counted(q, 2)}
<1>5. \A i \in 1 .. n + 1 : g[i] = IF i <= 1 THEN 0 ELSE g[i - 1] + Counted(q, i)
  BY <1>1, <1>2 DEF Sums
<1>6. \A i \in 1 .. n : h[i] = IF i <= 1 THEN 0 ELSE h[i - 1] + Counted(r, i)
  BY <1>3 DEF Sums, n
<1>7. ASSUME NEW k \in 1 .. n, k - 1 \in B PROVE k \in B
  <2>1. k + 1 \in 1 .. n + 1 /\ k \in 1 .. n + 1 /\ (k + 1) - 1 = k
    BY <1>1
  <2>2. CASE k = 1
    <3>1. h[1] = 0 /\ g[1] = 0
      BY <1>5, <1>6, <2>1, <2>2
    <3>2. g[2] = g[1] + Counted(q, 2)
      BY <1>5, <2>1, <2>2
    <3> QED BY <1>4, <2>2, <3>1, <3>2
  <2>3. CASE k > 1
    <3>1. g[k] = h[k - 1] + Counted(q, 2)
      BY <1>7, <2>3
    <3>2. g[k + 1] = g[k] + Counted(q, k + 1) /\ h[k] = h[k - 1] + Counted(r, k)
      BY <1>5, <1>6, <2>1, <2>3
    <3>3. Counted(r, k) = Counted(q, k + 1)
      BY <2>3 DEF n
    <3>4. Counted(r, k) \in Nat
      BY <2>3, CountedIs DEF n
    <3>5. h[k - 1] \in Int
      <4>1. k - 1 \in 0 .. n
        BY <1>1
      <4> QED BY <1>3, <4>1 DEF n
    <3> QED BY <1>4, <3>1, <3>2, <3>3, <3>4, <3>5
  <2> QED BY <2>2, <2>3
<1>8. B = 0 .. n
  <2>1. B \in SUBSET (0 .. n) /\ 0 \in B
    BY <1>1
  <2> HIDE DEF B
  <2> QED BY <1>1, <1>7, <2>1, RoundByRound
<1>9. g[n + 1] = h[n] + Counted(q, 2)
  <2>1. n \in B /\ n > 0
    <3> HIDE DEF B
    <3> QED BY <1>1, <1>8
  <2> QED BY <2>1
<1> QED BY <1>2, <1>3, <1>9 DEF n

LEMMA LengthOfOne ==
  ASSUME NEW q \in Seq(Node), Len(q) <= 1 PROVE ActiveLength(q) = 0
<1>1. PICK g : Sums(g, q) /\ ActiveLength(q) = g[Len(q)]
  BY LengthIs
<1>2. Len(q) = 0 \/ Len(q) = 1
  <2>1. Len(q) \in Nat
    BY NodesOf
  <2>2. \A n \in Nat : n <= 1 => n = 0 \/ n = 1
    OBVIOUS
  <2> QED BY <2>1, <2>2
<1> QED BY <1>1, <1>2 DEF Sums

LEMMA LengthInt == ASSUME NEW q \in Seq(Node) PROVE ActiveLength(q) \in Int
<1>1. PICK g \in [0 .. Len(q) -> Int] : Sums(g, q) /\ ActiveLength(q) = g[Len(q)]
  BY LengthIs
<1>2. Len(q) \in 0 .. Len(q)
  BY NodesOf
<1> QED BY <1>1, <1>2

LEMMA ExtendedIs ==
  ASSUME NEW q \in Seq(Node), NEW S
  PROVE  /\ Extended(q, S) \in Seq(Node) /\ SamePlaces(q, Extended(q, S))
         /\ \A i \in 1 .. Len(q) :
              /\ Extended(q, S)[i].dis = q[i].dis
              /\ Extended(q, S)[i].dir = IF i \in S THEN Direction(q, i) ELSE q[i].dir
<1> DEFINE r == Extended(q, S)
           e(i) == IF i \in S THEN [q[i] EXCEPT !.dir = Direction(q, i)] ELSE q[i]
<1>1. DOMAIN q = 1 .. Len(q) /\ Len(q) \in Nat /\ \A i \in 1 .. Len(q) : q[i] \in Node
  BY NodesOf
<1>2. r = [i \in 1 .. Len(q) |-> e(i)]
  BY <1>1 DEF Extended
<1>3. ASSUME NEW i \in 1 .. Len(q)
      PROVE  /\ e(i) \in Node /\ e(i).pos = q[i].pos /\ e(i).active = q[i].active
             /\ e(i).dis = q[i].dis
             /\ e(i).dir = IF i \in S THEN Direction(q, i) ELSE q[i].dir
  <2>1. q[i] \in Node /\ Direction(q, i) \in Directions
    BY <1>1, DirectionIs
  <2> QED BY <2>1 DEF Node
<1> HIDE DEF e
<1>4. r \in Seq(Node) /\ Len(r) = Len(q) /\ \A i \in 1 .. Len(q) : r[i] = e(i)
  <2>1. [i \in 1 .. Len(q) |-> e(i)] \in Seq(Node) /\ Len([i \in 1 .. Len(q) |-> e(i)]) = Len(q)
    BY <1>1, <1>3
  <2> QED BY <1>2, <2>1
<1> HIDE DEF r
<1>5. SamePlaces(q, r)
  BY <1>3, <1>4 DEF SamePlaces
<1> QED BY <1>3, <1>4, <1>5 DEF r
LEMMA DirectionMoves ==
  ASSUME NEW q \in Seq(Node), NEW r \in Seq(Node), NEW i \in 1 .. Len(q), NEW j \in 1 .. Len(r),
         Len(q) > 1, Len(r) > 1,
         \A d \in -1 .. 1 : /\ i + d \in 1 .. Len(q) <=> j + d \in 1 .. Len(r)
                            /\ i + d \in 1 .. Len(q) => q[i + d].pos = r[j + d].pos
  PROVE  Direction(q, i) = Direction(r, j)
<1>1. DOMAIN q = 1 .. Len(q) /\ DOMAIN r = 1 .. Len(r) /\ Len(q) \in Nat /\ Len(r) \in Nat
  BY NodesOf
<1> DEFINE D == {d \in -1 .. 1 : i + d \in 1 .. Len(q)}
           E == {d \in -1 .. 1 : j + d \in 1 .. Len(r)}
<1>2. D = E
  OBVIOUS
<1>3. [k \in D |-> q[i + k].pos] = [k \in E |-> r[j + k].pos]
  BY <1>2
<1>4. Direction(q, i) = [k \in D |-> q[i + k].pos]
  BY <1>1 DEF Direction
<1>5. Direction(r, j) = [k \in E |-> r[j + k].pos]
  BY <1>1 DEF Direction
<1> QED BY <1>3, <1>4, <1>5

\* The length and the distances are those of the positions; so are the directions.
Cached(q, length) ==
  length = ActiveLength(q) /\ \A i \in 1 .. Len(q) : q[i].dis = DistanceBefore(q, i)
Aimed(q) == \A i \in 2 .. Len(q) : q[i].dir = Direction(q, i)

LEMMA PopIs ==
  ASSUME NEW l \in Laser, Len(l.queue) > 1
  PROVE  /\ PopHead(l) \in Laser /\ Len(PopHead(l).queue) = Len(l.queue) - 1
         /\ Aimed(l.queue) => Aimed(PopHead(l).queue)
         /\ Cached(l.queue, l.length) /\ Len(l.queue) > 2
            => Cached(PopHead(l).queue, PopHead(l).length)
<1> DEFINE q == l.queue
           t == Tail(q)
           r == PopHead(l).queue
<1>1. q \in Seq(Node) /\ l.length \in Int /\ Len(q) \in Nat /\ DOMAIN q = 1 .. Len(q)
  BY NodesOf DEF Laser
<1>2. t \in Seq(Node) /\ Len(t) = Len(q) - 1 /\ \A i \in 1 .. Len(t) : t[i] = q[i + 1]
  <2>1. q # << >>
    BY <1>1
  <2> QED BY <1>1, <2>1, HeadTailProperties
<1>3. \A i \in 1 .. Len(q) : /\ q[i] \in Node /\ q[i].pos \in Nat /\ q[i].dis \in Nat
                             /\ q[i].active \in BOOLEAN
  BY <1>1, NodesOf
<1> HIDE DEF q, t
<1>4. CASE Len(q) = 2
  <2>1. PopHead(l) = [l EXCEPT !.queue = t]
    BY <1>4 DEF PopHead, q, t
  <2>2. PopHead(l) \in Laser /\ r = t
    BY <1>2, <2>1 DEF Laser
  <2>3. Aimed(r)
    <3>1. Len(t) = 1
      BY <1>2, <1>4
    <3> QED BY <2>2, <3>1 DEF Aimed
  <2> QED BY <1>2, <1>4, <2>2, <2>3 DEF q
<1>5. CASE Len(q) > 2
  <2> DEFINE first == [t[1] EXCEPT !.dis = 0]
  <2>1. 1 \in 1 .. Len(t) /\ t[1] = q[2] /\ first \in Node
    <3>1. 1 \in 1 .. Len(t) /\ t[1] = q[2]
      BY <1>1, <1>2, <1>5
    <3>2. q[2] \in Node
      BY <1>1, <1>3, <1>5
    <3> QED BY <3>1, <3>2 DEF Node
  <2>2. PopHead(l) = [queue  |-> [t EXCEPT ![1] = first],
                      length |-> IF q[1].active /\ q[2].active THEN l.length - q[2].dis ELSE l.length]
    <3>1. ~ Len(l.queue) <= 1 /\ ~ Len(l.queue) = 2
      <4>1. \A n \in Nat : n > 2 => ~ n <= 1 /\ ~ n = 2
        OBVIOUS
      <4> QED BY <1>1, <1>5, <4>1 DEF q
    <3> QED BY <3>1 DEF PopHead, q, t
  <2> HIDE DEF first
  <2>3. r = [t EXCEPT ![1] = first]
    BY <2>2
  <2> HIDE DEF r
  <2>4. /\ r \in Seq(Node) /\ Len(r) = Len(q) - 1
        /\ \A i \in 1 .. Len(t) : r[i] = IF i = 1 THEN first ELSE t[i]
    BY <1>2, <2>1, <2>3, ExceptSeq
  <2>5. /\ \A i \in 1 .. Len(r) : /\ r[i].pos = q[i + 1].pos /\ r[i].active = q[i + 1].active
                                  /\ r[i].dir = q[i + 1].dir
        /\ r[1].dis = 0 /\ \A i \in 2 .. Len(r) : r[i].dis = q[i + 1].dis
    <3>1. first.dis = 0 /\ first.pos = q[2].pos /\ first.active = q[2].active /\ first.dir = q[2].dir
      BY <1>3, <1>1, <1>5, <2>1 DEF first, Node
    <3> QED BY <1>2, <2>1, <2>4, <3>1
  <2>6. q[2].dis \in Nat /\ PopHead(l).length \in Int /\ PopHead(l) \in Laser
    <3>1. q[2].dis \in Nat
      BY <1>1, <1>3, <1>5
    <3> QED BY <1>1, <2>2, <2>3, <2>4, <3>1 DEF Laser, r
  <2>7. \A i \in 2 .. Len(r) : i + 1 \in 1 .. Len(q) /\ i \in 1 .. Len(r) /\ i - 1 \in 1 .. Len(r)
                               /\ (i - 1) + 1 = i /\ (i + 1) - 1 = i
    BY <1>1, <2>4
  <2>8. ASSUME Aimed(q) PROVE Aimed(r)
    <3> SUFFICES ASSUME NEW i \in 2 .. Len(r) PROVE r[i].dir = Direction(r, i)
      BY DEF Aimed
    <3>1. Direction(q, i + 1) = Direction(r, i)
      <4>1. ASSUME NEW d \in -1 .. 1
            PROVE  /\ (i + 1) + d \in 1 .. Len(q) <=> i + d \in 1 .. Len(r)
                   /\ (i + 1) + d \in 1 .. Len(q) => q[(i + 1) + d].pos = r[i + d].pos
        <5>1. (i + 1) + d \in 1 .. Len(q) <=> i + d \in 1 .. Len(r)
          BY <1>1, <2>4
        <5>2. (i + d) + 1 = (i + 1) + d
          BY <1>1, <2>4
        <5> QED BY <2>5, <5>1, <5>2
      <4>2. Len(q) > 1 /\ Len(r) > 1
        BY <1>1, <1>5, <2>4
      <4> QED BY <1>1, <2>4, <2>7, <4>1, <4>2, DirectionMoves
    <3>2. i + 1 \in 2 .. Len(q)
      BY <1>1, <2>4
    <3> QED BY <2>5, <2>7, <2>8, <3>1, <3>2 DEF Aimed
  <2>9. \A i \in 2 .. Len(r) : DistanceBefore(r, i) = DistanceBefore(q, i + 1)
    BY <2>5, <2>7 DEF DistanceBefore
  <2>10. \A i \in 2 .. Len(r) : Counted(r, i) = Counted(q, i + 1)
    BY <2>5, <2>7, <2>9 DEF Counted
  <2>11. ASSUME Cached(q, l.length) PROVE Cached(r, PopHead(l).length)
    <3>1. ActiveLength(q) = ActiveLength(r) + Counted(q, 2)
      BY <1>1, <1>5, <2>4, <2>10, LengthOfTail
    <3>2. q[2].dis = DistanceBefore(q, 2) /\ l.length = ActiveLength(q)
      BY <1>1, <1>5, <2>11 DEF Cached
    <3>3. Counted(q, 2) = IF q[1].active /\ q[2].active THEN q[2].dis ELSE 0
      BY <3>2 DEF Counted
    <3>4. ActiveLength(r) \in Int
      BY <2>4, LengthInt
    <3>5. PopHead(l).length = ActiveLength(r)
      BY <1>1, <2>2, <2>6, <3>1, <3>2, <3>3, <3>4
    <3>6. ASSUME NEW i \in 1 .. Len(r) PROVE r[i].dis = DistanceBefore(r, i)
      <4>1. CASE i = 1
        BY <2>5, <4>1 DEF DistanceBefore
      <4>2. CASE i # 1
        <5>1. i \in 2 .. Len(r)
          BY <4>2, <2>4
        <5> QED BY <2>5, <2>7, <2>9, <2>11, <5>1 DEF Cached
      <4> QED BY <4>1, <4>2
    <3> QED BY <3>5, <3>6 DEF Cached
  <2> QED BY <2>4, <2>6, <2>8, <2>11 DEF q, r
<1>6. Len(q) = 2 \/ Len(q) > 2
  <2>1. \A n \in Nat : n > 1 => n = 2 \/ n > 2
    OBVIOUS
  <2>2. Len(q) > 1
    BY DEF q
  <2> QED BY <1>1, <2>1, <2>2
<1> QED BY <1>4, <1>5, <1>6
\* The laser m after nodes of l have gone.
Shortened(m, l) ==
  /\ m \in Laser /\ Len(m.queue) <= Len(l.queue)
  /\ Len(l.queue) >= 1 => Len(m.queue) >= 1
  /\ Aimed(l.queue) => Aimed(m.queue)
  /\ Cached(l.queue, l.length)
     => Cached(m.queue, m.length) \/ (Len(m.queue) = 1 /\ Len(l.queue) > 1)

LEMMA PoppedIs ==
  ASSUME NEW l \in Laser, NEW size \in Nat \ {0}
  PROVE  Shortened(PoppedTo(l, size), l) /\ Len(PoppedTo(l, size).queue) <= size
<1> DEFINE n == Len(l.queue)
           one(m) == IF Len(m.queue) <= size THEN m ELSE PopHead(m)
           step == [km \in (1 .. n) \X Laser |-> one(km[2])]
           Def(f) == f = [k \in 0 .. n |-> IF k = 0 THEN l
                            ELSE IF Len(f[k - 1].queue) <= size THEN f[k - 1] ELSE PopHead(f[k - 1])]
           h == CHOOSE f : Def(f)
<1>1. n \in Nat
  BY NodesOf DEF Laser
<1>2. ASSUME NEW m \in Laser
      PROVE  /\ Len(m.queue) \in Nat
             /\ Len(m.queue) > size => Len(m.queue) > 1
  <2>1. Len(m.queue) \in Nat
    BY NodesOf DEF Laser
  <2>2. \A a \in Nat : a > size => a > 1
    OBVIOUS
  <2> QED BY <2>1, <2>2
<1>3. ASSUME NEW m \in Laser PROVE one(m) \in Laser
  <2>1. CASE Len(m.queue) <= size
    BY <2>1
  <2>2. CASE ~ Len(m.queue) <= size
    <3>1. \A a \in Nat : ~ a <= size => a > size
      OBVIOUS
    <3>2. Len(m.queue) > 1
      BY <1>2, <2>2, <3>1
    <3> QED BY <2>2, <3>2, PopIs
  <2> QED BY <2>1, <2>2
<1>4. step \in [(1 .. n) \X Laser -> Laser]
      /\ \A k \in 1 .. n, m \in Laser : step[<<k, m>>] = one(m)
  <2> HIDE DEF one, n
  <2> QED BY <1>3
<1>5. PICK g \in [0 .. n -> Laser] : g[0] = l /\ \A k \in 1 .. n : g[k] = one(g[k - 1])
  <2> HIDE DEF n, step, one
  <2>1. PICK g \in [0 .. n -> Laser] : Loops(g, step, l, n)
    BY <1>1, <1>4, RoundsExist
  <2>2. \A k \in 1 .. n : g[k - 1] \in Laser
    BY <1>1, <2>1
  <2> QED BY <1>4, <2>1, <2>2 DEF Loops
<1>6. Def(g)
  <2>1. \A k \in 0 .. n : g[k] = IF k = 0 THEN l
                            ELSE IF Len(g[k - 1].queue) <= size THEN g[k - 1] ELSE PopHead(g[k - 1])
    <3> SUFFICES ASSUME NEW k \in 0 .. n, k # 0 PROVE g[k] = one(g[k - 1])
      BY <1>5
    <3>1. k \in 1 .. n
      BY <1>1
    <3> QED BY <1>5, <3>1
  <2> HIDE DEF n
  <2> QED BY <1>5, <2>1
<1>7. Def(h)
  <2> HIDE DEF Def
  <2> QED BY <1>6
<1>8. PoppedTo(l, size) = h[n]
  BY DEF PoppedTo
<1> HIDE DEF h
<1>9. h[0] = l /\ \A k \in 1 .. n : h[k] = one(h[k - 1])
  <2>1. \A k \in 0 .. n : h[k] = IF k = 0 THEN l
                            ELSE IF Len(h[k - 1].queue) <= size THEN h[k - 1] ELSE PopHead(h[k - 1])
    BY <1>7
  <2>2. 0 \in 0 .. n /\ \A k \in 1 .. n : k \in 0 .. n /\ k # 0
    BY <1>1
  <2> QED BY <2>1, <2>2
<1> DEFINE Fine(k) == /\ Shortened(h[k], l)
                      /\ Len(h[k].queue) <= size \/ Len(h[k].queue) = n - k
           B == {k \in 0 .. n : Fine(k)}
<1>10. Fine(0)
  <2>1. n - 0 = n /\ n <= n
    BY <1>1
  <2> QED BY <1>9, <2>1 DEF Shortened
<1>11. ASSUME NEW k \in 1 .. n, Fine(k - 1) PROVE Fine(k)
  <2> DEFINE m == h[k - 1]
             a == Len(m.queue)
  <2>1. m \in Laser /\ h[k] = one(m) /\ a \in Nat
    BY <1>2, <1>9, <1>11 DEF Shortened
  <2>2. CASE a <= size
    <3>1. h[k] = m
      BY <2>1, <2>2
    <3> QED BY <1>11, <2>2, <3>1
  <2>3. CASE ~ a <= size
    <3>1. a > 1 /\ h[k] = PopHead(m)
      <4>1. \A b \in Nat : ~ b <= size => b > size
        OBVIOUS
      <4> QED BY <1>2, <2>1, <2>3, <4>1
    <3>2. /\ h[k] \in Laser /\ Len(h[k].queue) = a - 1
          /\ Aimed(m.queue) => Aimed(h[k].queue)
          /\ Cached(m.queue, m.length) /\ a > 2 => Cached(h[k].queue, h[k].length)
      BY <2>1, <3>1, PopIs
    <3>3. a = n - (k - 1)
      BY <1>11, <2>3
    <3> HIDE DEF m, a
    <3>4. a - 1 = n - k /\ a - 1 <= n /\ a - 1 >= 1 /\ n > 1 /\ (a > 2 \/ a - 1 = 1) /\ a # 1
      BY <1>1, <2>1, <3>1, <3>3
    <3>5. Shortened(h[k], l)
      <4>1. Aimed(l.queue) => Aimed(m.queue)
        BY <1>11 DEF Shortened, m
      <4>2. Cached(l.queue, l.length) => Cached(m.queue, m.length) \/ a = 1
        BY <1>11 DEF Shortened, m, a
      <4> QED BY <3>2, <3>4, <4>1, <4>2 DEF Shortened
    <3> QED BY <3>2, <3>4, <3>5
  <2> QED BY <2>2, <2>3
<1> HIDE DEF Fine
<1>12. B = 0 .. n
  <2>1. B \in SUBSET (0 .. n) /\ 0 \in B /\ \A k \in 1 .. n : k - 1 \in B => k \in B
    BY <1>1, <1>10, <1>11
  <2> HIDE DEF B, n
  <2> QED BY <1>1, <2>1, RoundByRound
<1>13. Fine(n)
  BY <1>1, <1>12
<1>14. n - n = 0 /\ 0 <= size
  BY <1>1
<1> QED BY <1>8, <1>13, <1>14 DEF Fine
------------------------------------------------------------------------------
\* What the array has room for.
Nodes == {q \in Seq(Node) : Len(q) <= MaxNodes}

LEMMA Concrete == MaxNodes \in Nat /\ MaxNodes > 1 /\ Pos \subseteq Nat /\ 0 \in Pos
BY LaserAssumption

LEMMA PlacedIs ==
  ASSUME NEW q \in Nodes, NEW x \in Nat, NEW index \in Int, index + 1 <= MaxNodes
  PROVE  Placed(q, x, index) \in Nodes
<1> DEFINE p == index + 1 - Len(q)
           pad == Padding(p)
           r == pad \o q
           i == ((Len(r) - index - 1) % MaxNodes) + 1
<1>1. q \in Seq(Node) /\ Len(q) \in Nat /\ Len(q) <= MaxNodes
  BY NodesOf DEF Nodes
<1>2. pad \in Seq(Node) /\ (Len(pad) = p \/ Len(pad) = 0)
  <2>1. LaserNode(0, 0, FALSE) \in Node
    BY NodeIs
  <2>2. CASE p >= 0
    <3>1. p \in Nat
      BY <1>1, <2>2
    <3>2. \A n \in Nat, a \in Node : [k \in 1 .. n |-> a] \in Seq(Node) /\ Len([k \in 1 .. n |-> a]) = n
      OBVIOUS
    <3>3. pad = [k \in 1 .. p |-> LaserNode(0, 0, FALSE)]
      BY DEF Padding
    <3> HIDE DEF p, pad
    <3> QED BY <2>1, <3>1, <3>2, <3>3
  <2>3. CASE ~ p >= 0
    <3>1. 1 .. p = {}
      BY <1>1, <2>3
    <3>2. pad = [k \in 1 .. p |-> LaserNode(0, 0, FALSE)]
      BY DEF Padding
    <3>3. \A a : [k \in {} |-> a] = << >>
      OBVIOUS
    <3> HIDE DEF p, pad
    <3>4. pad = << >>
      BY <3>1, <3>2, <3>3
    <3> QED BY <3>4
  <2> QED BY <2>2, <2>3
<1>3. r \in Seq(Node) /\ Len(r) = Len(pad) + Len(q)
  <2> HIDE DEF pad
  <2> QED BY <1>1, <1>2, ConcatProperties
<1>4. Len(r) <= MaxNodes
  <2> HIDE DEF pad, r
  <2> QED BY <1>1, <1>2, <1>3
<1>5. Placed(q, x, index)
        = IF i \in DOMAIN r THEN [r EXCEPT ![i].pos = x, ![i].active = TRUE] ELSE r
  BY DEF Placed
<1> HIDE DEF r, i
<1>6. CASE i \in DOMAIN r
  <2> DEFINE node == [r[i] EXCEPT !.pos = x, !.active = TRUE]
  <2>1. i \in 1 .. Len(r) /\ r[i] \in Node
    BY <1>3, <1>6, NodesOf
  <2>2. node \in Node
    BY <2>1 DEF Node
  <2>3. [r EXCEPT ![i].pos = x, ![i].active = TRUE] = [r EXCEPT ![i] = node]
    <3>1. DOMAIN r = 1 .. Len(r)
      BY <1>3, NodesOf
    <3> QED BY <2>1, <3>1
  <2> HIDE DEF node
  <2>4. [r EXCEPT ![i] = node] \in Seq(Node) /\ Len([r EXCEPT ![i] = node]) = Len(r)
    BY <1>3, <2>1, <2>2, ExceptSeq
  <2> QED BY <1>4, <1>5, <1>6, <2>3, <2>4 DEF Nodes
<1>7. CASE i \notin DOMAIN r
  BY <1>3, <1>4, <1>5, <1>7 DEF Nodes
<1> QED BY <1>6, <1>7

LEMMA PlacedAllIs ==
  ASSUME NEW q \in Nodes, NEW xs \in Seq(Pos), NEW index \in Int, NEW step \in {-1, 1},
         \A k \in 1 .. Len(xs) : index + (k - 1) * step + 1 <= MaxNodes
  PROVE  PlacedAll(q, xs, index, step) \in Nodes
<1> DEFINE n == Len(xs)
           one(k, r) == Placed(r, xs[k], index + (k - 1) * step)
           round == [kr \in (1 .. n) \X Nodes |-> one(kr[1], kr[2])]
           Def(f) == f = [k \in 0 .. n |-> IF k = 0 THEN q
                            ELSE Placed(f[k - 1], xs[k], index + (k - 1) * step)]
           h == CHOOSE f : Def(f)
<1>1. n \in Nat /\ \A k \in 1 .. n : xs[k] \in Nat
  <2>1. \A k \in 1 .. n : xs[k] \in Pos
    BY ElementOfSeq
  <2> QED BY <2>1, Concrete, LenProperties
<1>2. ASSUME NEW k \in 1 .. n, NEW r \in Nodes PROVE one(k, r) \in Nodes
  <2>1. index + (k - 1) * step \in Int /\ (index + (k - 1) * step) + 1 <= MaxNodes
    BY <1>1
  <2> QED BY <1>1, <2>1, PlacedIs
<1>3. round \in [(1 .. n) \X Nodes -> Nodes]
      /\ \A k \in 1 .. n, r \in Nodes : round[<<k, r>>] = one(k, r)
  <2> HIDE DEF one, n
  <2> QED BY <1>2
<1>4. PICK g \in [0 .. n -> Nodes] : g[0] = q /\ \A k \in 1 .. n : g[k] = one(k, g[k - 1])
  <2> HIDE DEF n, round, one
  <2>1. PICK g \in [0 .. n -> Nodes] : Loops(g, round, q, n)
    BY <1>1, <1>3, RoundsExist
  <2>2. \A k \in 1 .. n : g[k - 1] \in Nodes
    BY <1>1, <2>1
  <2> QED BY <1>3, <2>1, <2>2 DEF Loops
<1>5. Def(g)
  <2>1. \A k \in 0 .. n : g[k] = IF k = 0 THEN q
                            ELSE Placed(g[k - 1], xs[k], index + (k - 1) * step)
    <3> SUFFICES ASSUME NEW k \in 0 .. n, k # 0 PROVE g[k] = one(k, g[k - 1])
      BY <1>4
    <3>1. k \in 1 .. n
      BY <1>1
    <3> HIDE DEF one
    <3> QED BY <1>4, <3>1
  <2> HIDE DEF n
  <2> QED BY <1>4, <2>1
<1>6. Def(h)
  <2> HIDE DEF Def
  <2> QED BY <1>5
<1>7. PlacedAll(q, xs, index, step) = h[n]
  BY DEF PlacedAll
<1> HIDE DEF h
<1>8. h[0] = q /\ \A k \in 1 .. n : h[k] = one(k, h[k - 1])
  <2>1. \A k \in 0 .. n : h[k] = IF k = 0 THEN q
                            ELSE Placed(h[k - 1], xs[k], index + (k - 1) * step)
    BY <1>6
  <2>2. 0 \in 0 .. n /\ \A k \in 1 .. n : k \in 0 .. n /\ k # 0
    BY <1>1
  <2> QED BY <2>1, <2>2
<1> DEFINE B == {k \in 0 .. n : h[k] \in Nodes}
<1> HIDE DEF one
<1>9. B = 0 .. n
  <2>1. B \in SUBSET (0 .. n) /\ 0 \in B /\ \A k \in 1 .. n : k - 1 \in B => k \in B
    BY <1>1, <1>2, <1>8
  <2> HIDE DEF B, n
  <2> QED BY <1>1, <2>1, RoundByRound
<1>10. n \in 0 .. n
  BY <1>1
<1> QED BY <1>7, <1>9, <1>10
------------------------------------------------------------------------------
\* The caches are right unless they were said not to be.
LasIInv ==
  /\ m_Queue \in Seq(Node) /\ m_fLength \in Int
  /\ behind \in BOOLEAN /\ drift \in BOOLEAN /\ torn \in BOOLEAN /\ overrun \in BOOLEAN
  /\ ~ overrun => /\ Len(m_Queue) <= MaxNodes
                  /\ ~ drift => Cached(m_Queue, m_fLength)
                  /\ ~ torn => Aimed(m_Queue)

LEMMA LaserStarts == ASSUME LaserInit PROVE LasIInv
<1>1. << >> \in Seq(Node) /\ Len(<< >>) = 0 /\ Len(<< >>) <= 1
  OBVIOUS
<1>2. ActiveLength(<< >>) = 0
  <2> DEFINE q == << >>
  <2>1. q \in Seq(Node) /\ Len(q) <= 1
    BY <1>1
  <2> HIDE DEF q
  <2>2. ActiveLength(q) = 0
    BY <2>1, LengthOfOne
  <2> QED BY <2>2 DEF q
<1>3. Cached(<< >>, 0) /\ Aimed(<< >>)
  BY <1>1, <1>2 DEF Cached, Aimed
<1>4. Cached(m_Queue, m_fLength) /\ Aimed(m_Queue)
  BY <1>3 DEF LaserInit
<1>5. m_Queue \in Seq(Node) /\ Len(m_Queue) <= MaxNodes
  BY <1>1, Concrete DEF LaserInit
<1>6. m_fLength \in Int
  <2>1. m_fLength = 0
    BY DEF LaserInit
  <2> QED BY <2>1
<1>7. behind \in BOOLEAN /\ drift \in BOOLEAN /\ torn \in BOOLEAN /\ overrun \in BOOLEAN
  BY Zenon DEF LaserInit
<1> QED BY <1>4, <1>5, <1>6, <1>7 DEF LasIInv

LEMMA AllNodesAnew ==
  ASSUME NEW q \in Seq(Node), UpdateAllNode(q)
  PROVE  /\ m_Queue' \in Seq(Node) /\ Len(m_Queue') = Len(q) /\ m_fLength' \in Int
         /\ drift' = FALSE /\ torn' = FALSE
         /\ Cached(m_Queue', m_fLength') /\ Aimed(m_Queue')
<1> DEFINE e(i) == [q[i] EXCEPT !.dis = DistanceBefore(q, i)]
           r == [i \in 1 .. Len(q) |-> e(i)]
           t == Extended(r, 1 .. Len(q))
<1>1. DOMAIN q = 1 .. Len(q) /\ Len(q) \in Nat /\ \A i \in 1 .. Len(q) : q[i] \in Node
  BY NodesOf
<1>2. ASSUME NEW i \in 1 .. Len(q)
      PROVE  /\ e(i) \in Node /\ e(i).pos = q[i].pos /\ e(i).active = q[i].active
             /\ e(i).dis = DistanceBefore(q, i)
  <2>1. q[i] \in Node /\ DistanceBefore(q, i) \in Nat
    BY <1>1, BeforeIs
  <2> QED BY <2>1 DEF Node
<1>3. /\ m_Queue' = t /\ m_fLength' = ActiveLength(q) /\ drift' = FALSE /\ torn' = FALSE
  BY <1>1 DEF UpdateAllNode
<1> HIDE DEF e
<1>4. r \in Seq(Node) /\ Len(r) = Len(q) /\ \A i \in 1 .. Len(q) : r[i] = e(i)
  BY <1>1, <1>2
<1> HIDE DEF r
<1>5. SamePlaces(q, r)
  BY <1>2, <1>4 DEF SamePlaces
<1>6. /\ t \in Seq(Node) /\ SamePlaces(r, t)
      /\ \A i \in 1 .. Len(r) : /\ t[i].dis = r[i].dis
                                /\ t[i].dir = IF i \in 1 .. Len(q) THEN Direction(r, i) ELSE r[i].dir
  BY <1>4, ExtendedIs
<1> HIDE DEF t
<1>7. Len(t) = Len(q) /\ ActiveLength(t) = ActiveLength(q) /\ ActiveLength(t) \in Int
  <2>1. ActiveLength(t) \in Int
    BY <1>6, LengthInt
  <2> QED BY <1>4, <1>5, <1>6, <2>1, PlacesDecide DEF SamePlaces
<1>8. ASSUME NEW i \in 1 .. Len(t) PROVE t[i].dis = DistanceBefore(t, i) /\ t[i].dir = Direction(t, i)
  <2>1. DistanceBefore(q, i) = DistanceBefore(r, i) /\ i \in 1 .. Len(r) /\ i \in 1 .. Len(q)
    BY <1>4, <1>5, <1>7, PlacesDecide
  <2>2. DistanceBefore(r, i) = DistanceBefore(t, i) /\ Direction(r, i) = Direction(t, i)
    BY <1>4, <1>6, <2>1, PlacesDecide
  <2> QED BY <1>2, <1>4, <1>6, <2>1, <2>2
<1>9. \A i \in 2 .. Len(t) : i \in 1 .. Len(t)
  BY <1>1, <1>7
<1> QED BY <1>3, <1>6, <1>7, <1>8, <1>9 DEF Cached, Aimed

LEMMA NewestWrittenAgain ==
  ASSUME LasIInv, NEW x \in Pos, NEW length \in 2 .. MaxNodes + 1, NEW on \in BOOLEAN,
         UpdateInPlace(x, length, on)
  PROVE  LasIInv'
<1> DEFINE l0 == [queue |-> m_Queue, length |-> m_fLength]
           l  == PoppedTo(l0, length - 1)
           q  == l.queue
           n  == Len(q)
           d  == DistanceBefore(q, n)
<1>1. /\ l0 \in Laser /\ length - 1 \in Nat \ {0} /\ ~ overrun
      /\ m_Queue \in Seq(Node) /\ Len(m_Queue) \in Nat /\ Len(m_Queue) <= MaxNodes /\ m_Queue # << >>
  BY Concrete, NodesOf DEF LasIInv, Laser, UpdateInPlace, Moved
<1>2. Shortened(l, l0)
  <2> HIDE DEF l0
  <2> QED BY <1>1, PoppedIs
<1>3. /\ IF n >= 2
         THEN /\ m_Queue' = Extended([q EXCEPT ![n].dis = d], {n - 1, n})
              /\ m_fLength' = l.length - q[n].dis + d
              /\ UNCHANGED <<drift, torn>>
         ELSE /\ m_Queue' = [q EXCEPT ![n].dis = 0, ![n].active = on]
              /\ m_fLength' = 0
              /\ drift' = FALSE /\ torn' = FALSE
      /\ UNCHANGED <<behind, overrun>>
  BY DEF UpdateInPlace
<1> HIDE DEF l
<1>4. /\ q \in Seq(Node) /\ l.length \in Int /\ n \in Nat /\ n <= MaxNodes /\ n >= 1
      /\ Aimed(m_Queue) => Aimed(q)
      /\ Cached(m_Queue, m_fLength) => Cached(q, l.length) \/ n = 1
  <2>1. l \in Laser /\ n <= Len(m_Queue) /\ (Len(m_Queue) >= 1 => n >= 1)
    BY <1>2 DEF Shortened
  <2>2. q \in Seq(Node) /\ n \in Nat
    BY <2>1, NodesOf DEF Laser
  <2>3. Len(m_Queue) >= 1
    BY <1>1
  <2>4. n >= 1 /\ n <= MaxNodes
    <3>1. Len(m_Queue) <= MaxNodes /\ MaxNodes \in Nat /\ Len(m_Queue) \in Nat
      BY <1>1, Concrete
    <3> HIDE DEF n
    <3> QED BY <2>1, <2>2, <2>3, <3>1
  <2> QED BY <1>2, <2>1, <2>2, <2>4 DEF Shortened, Laser
<1> HIDE DEF q
<1>5. n \in 1 .. n /\ q[n] \in Node /\ q[n].dis \in Nat /\ d \in Nat
  BY <1>4, NodesOf, BeforeIs
<1>6. CASE n >= 2
  <2> DEFINE node == [q[n] EXCEPT !.dis = d]
             r == [q EXCEPT ![n] = node]
             t == Extended(r, {n - 1, n})
  <2>1. node \in Node /\ node.pos = q[n].pos /\ node.active = q[n].active /\ node.dir = q[n].dir
        /\ node.dis = d
    BY <1>5 DEF Node
  <2>2. [q EXCEPT ![n].dis = d] = r
    BY <1>5
  <2>3. m_Queue' = t /\ m_fLength' = l.length - q[n].dis + d
        /\ UNCHANGED <<drift, torn, behind, overrun>>
    BY <1>3, <1>6, <2>2
  <2> HIDE DEF node, d
  <2>4. /\ r \in Seq(Node) /\ Len(r) = n
        /\ \A j \in 1 .. n : r[j] = IF j = n THEN node ELSE q[j]
    BY <1>4, <1>5, <2>1, ExceptSeq
  <2> HIDE DEF r
  <2>5. SamePlaces(q, r) /\ \A j \in 1 .. n : r[j].dir = q[j].dir
    BY <2>1, <2>4 DEF SamePlaces
  <2>6. /\ t \in Seq(Node) /\ SamePlaces(r, t)
        /\ \A i \in 1 .. n : /\ t[i].dis = r[i].dis
                             /\ t[i].dir = IF i \in {n - 1, n} THEN Direction(r, i) ELSE r[i].dir
    BY <2>4, ExtendedIs
  <2> HIDE DEF t
  <2>7. /\ ActiveLength(t) = ActiveLength(q) /\ Len(t) = n
        /\ \A i \in 1 .. n : /\ Direction(t, i) = Direction(q, i) /\ Direction(r, i) = Direction(q, i)
                             /\ DistanceBefore(t, i) = DistanceBefore(q, i)
    <3>1. /\ ActiveLength(r) = ActiveLength(q)
          /\ \A i \in 1 .. n : /\ Direction(r, i) = Direction(q, i)
                               /\ DistanceBefore(r, i) = DistanceBefore(q, i)
      BY <1>4, <2>4, <2>5, PlacesDecide
    <3>2. /\ ActiveLength(t) = ActiveLength(r)
          /\ \A i \in 1 .. n : /\ Direction(t, i) = Direction(r, i)
                               /\ DistanceBefore(t, i) = DistanceBefore(r, i)
      BY <2>4, <2>6, PlacesDecide
    <3>3. Len(t) = n
      BY <2>4, <2>6 DEF SamePlaces
    <3> QED BY <3>1, <3>2, <3>3
  <2>8. Aimed(q) => Aimed(t)
    <3>1. \A i \in 2 .. n : i \in 1 .. n
      BY <1>4
    <3> QED BY <2>5, <2>6, <2>7, <3>1 DEF Aimed
  <2>9. ASSUME Cached(q, l.length) PROVE Cached(t, m_fLength')
    <3>1. q[n].dis = d
      BY <1>5, <2>9 DEF Cached, d
    <3>2. m_fLength' = l.length
      BY <1>4, <1>5, <2>3, <3>1
    <3>3. \A i \in 1 .. n : t[i].dis = q[i].dis
      BY <2>1, <2>4, <2>6, <3>1
    <3> QED BY <2>7, <2>9, <3>2, <3>3 DEF Cached
  <2>10. m_fLength' \in Int
    BY <1>4, <1>5, <2>3
  <2>11. Cached(m_Queue, m_fLength) => Cached(q, l.length)
    <3>1. \A a \in Nat : a >= 2 => a # 1
      OBVIOUS
    <3> QED BY <1>4, <1>6, <3>1
  <2> QED BY <1>1, <1>4, <2>3, <2>6, <2>7, <2>8, <2>9, <2>10, <2>11 DEF LasIInv
<1>7. CASE ~ n >= 2
  <2> DEFINE node == [q[1] EXCEPT !.dis = 0, !.active = on]
             r == [q EXCEPT ![1] = node]
  <2>1. n = 1
    <3>1. \A a \in Nat : a >= 1 /\ ~ a >= 2 => a = 1
      OBVIOUS
    <3> QED BY <1>4, <1>7, <3>1
  <2>2. node \in Node /\ node.dis = 0
    BY <1>5, <2>1 DEF Node
  <2>3. [q EXCEPT ![1].dis = 0, ![1].active = on] = r
    BY <1>5, <2>1
  <2>4. m_Queue' = r /\ m_fLength' = 0 /\ drift' = FALSE /\ torn' = FALSE
        /\ UNCHANGED <<behind, overrun>>
    BY <1>3, <1>7, <2>1, <2>3
  <2> HIDE DEF node
  <2>5. r \in Seq(Node) /\ Len(r) = 1 /\ r[1] = node
    <3>1. 1 \in 1 .. n
      BY <2>1
    <3>2. /\ r \in Seq(Node) /\ Len(r) = n
          /\ \A j \in 1 .. n : r[j] = IF j = 1 THEN node ELSE q[j]
      BY <1>4, <2>2, <3>1, ExceptSeq
    <3> QED BY <2>1, <3>1, <3>2
  <2> HIDE DEF r
  <2>6. ActiveLength(r) = 0
    <3>1. Len(r) <= 1
      BY <2>5
    <3> QED BY <2>5, <3>1, LengthOfOne
  <2>7. Cached(r, 0)
    BY <2>2, <2>5, <2>6 DEF Cached, DistanceBefore
  <2>8. Aimed(r)
    BY <2>5 DEF Aimed
  <2>9. Len(r) <= MaxNodes
    BY <2>5, Concrete
  <2>10. Cached(m_Queue', m_fLength') /\ Aimed(m_Queue')
    BY <2>4, <2>7, <2>8
  <2>11. m_Queue' \in Seq(Node) /\ m_fLength' \in Int /\ Len(m_Queue') <= MaxNodes
    BY <2>4, <2>5, <2>9
  <2>12. behind' \in BOOLEAN /\ drift' \in BOOLEAN /\ torn' \in BOOLEAN /\ overrun' \in BOOLEAN
    BY <2>4 DEF LasIInv
  <2> QED BY <2>10, <2>11, <2>12 DEF LasIInv
<1> QED BY <1>6, <1>7
\* What is kept by writing in the caches: the parts of the invariant.
LEMMA LaserFrom ==
  ASSUME m_Queue' \in Seq(Node), m_fLength' \in Int,
         behind' \in BOOLEAN, drift' \in BOOLEAN, torn' \in BOOLEAN, overrun' \in BOOLEAN,
         ~ overrun' => /\ Len(m_Queue') <= MaxNodes
                       /\ ~ drift' => Cached(m_Queue', m_fLength')
                       /\ ~ torn' => Aimed(m_Queue')
  PROVE  LasIInv'
BY DEF LasIInv

\* A node after the newest one.
LEMMA OneMoreNode ==
  ASSUME NEW q \in Seq(Node), Len(q) > 0, NEW node \in Node
  PROVE  LET n == Len(q)
             r == Append(q, node) IN
         /\ r \in Seq(Node) /\ Len(r) = n + 1 /\ r[n + 1] = node /\ \A i \in 1 .. n : r[i] = q[i]
         /\ ActiveLength(r) = ActiveLength(q) + Counted(r, n + 1)
         /\ \A i \in 1 .. n : DistanceBefore(r, i) = DistanceBefore(q, i)
         /\ \A i \in 2 .. n - 1 : Direction(r, i) = Direction(q, i)
<1> DEFINE n == Len(q)
           r == Append(q, node)
<1>1. n \in Nat /\ n > 0
  BY NodesOf
<1>2. r \in Seq(Node) /\ Len(r) = n + 1 /\ r[n + 1] = node /\ \A i \in 1 .. n : r[i] = q[i]
  BY AppendProperties
<1> HIDE DEF r
<1>3. \A i \in 1 .. n : i # 1 => i - 1 \in 1 .. n
  BY <1>1
<1>4. \A i \in 1 .. n : DistanceBefore(r, i) = DistanceBefore(q, i)
  BY <1>2, <1>3 DEF DistanceBefore
<1>5. \A i \in 2 .. n : i \in 1 .. n /\ i # 1
  BY <1>1
<1>6. \A i \in 2 .. n : Counted(r, i) = Counted(q, i)
  BY <1>2, <1>3, <1>4, <1>5 DEF Counted
<1>7. ActiveLength(r) = ActiveLength(q) + Counted(r, n + 1)
  <2>1. Len(r) > 1 /\ Len(q) = Len(r) - 1 /\ Len(r) - 1 = n /\ Len(q) # Len(r)
    BY <1>1, <1>2
  <2>2. \A i \in 2 .. Len(r) - 1 : Counted(r, i) = Counted(q, i)
    BY <1>6, <2>1
  <2>3. IF Len(q) = Len(r)
        THEN ActiveLength(r) - Counted(r, Len(r)) = ActiveLength(q) - Counted(q, Len(r))
        ELSE ActiveLength(r) = ActiveLength(q) + Counted(r, Len(r))
    BY <1>2, <2>1, <2>2, LengthBut
  <2> QED BY <1>2, <2>1, <2>3
<1>8. ASSUME NEW i \in 2 .. n - 1 PROVE Direction(r, i) = Direction(q, i)
  <2>1. i \in 1 .. Len(r) /\ i \in 1 .. Len(q) /\ Len(r) > 1 /\ Len(q) > 1
    BY <1>1, <1>2
  <2>2. ASSUME NEW d \in -1 .. 1
        PROVE  /\ i + d \in 1 .. Len(r) <=> i + d \in 1 .. Len(q)
               /\ i + d \in 1 .. Len(r) => r[i + d].pos = q[i + d].pos
    <3>1. i + d \in 1 .. n /\ i + d \in 1 .. n + 1
      BY <1>1
    <3> QED BY <1>2, <3>1
  <2> QED BY <1>2, <2>1, <2>2, DirectionMoves
<1> QED BY <1>2, <1>4, <1>7, <1>8 DEF r

LEMMA NodeInserted ==
  ASSUME LasIInv, NEW x \in Pos, NEW length \in 2 .. MaxNodes + 1, NEW on \in BOOLEAN,
         UpdateInsert(x, length, on)
  PROVE  LasIInv'
<1> DEFINE l0 == [queue |-> m_Queue, length |-> m_fLength]
           size == Min({length - 1, MaxNodes - 1})
           l  == PoppedTo(l0, size)
           p  == l.queue
           n  == Len(p)
           d  == IF n = 0 THEN 0 ELSE Distance(p[n].pos, x)
           node == LaserNode(x, d, on)
           q  == Append(p, node)
           t  == Extended(q, {n, n + 1})
<1>1. /\ l0 \in Laser /\ ~ overrun /\ x \in Nat
      /\ m_Queue \in Seq(Node) /\ Len(m_Queue) \in Nat
  BY Concrete, NodesOf DEF LasIInv, Laser, UpdateInsert
<1>2. size \in Nat \ {0} /\ size <= MaxNodes - 1
  <2>1. \A a \in Int, b \in Int : Min({a, b}) = IF a <= b THEN a ELSE b
    BY DEF Min
  <2> QED BY <2>1, Concrete
<1>3. /\ m_Queue' = IF n = 0 THEN q ELSE t
      /\ m_fLength' = IF n = 0 THEN 0
                      ELSE IF on /\ p[n].active THEN l.length + d ELSE l.length
      /\ drift' = (n > 0 /\ (drift \/ (n = 1 /\ Len(m_Queue) > 1)))
      /\ torn' = (n > 1 /\ torn)
      /\ overrun' = behind /\ behind' = FALSE
  BY DEF UpdateInsert
<1>4. Shortened(l, l0) /\ n <= size
  <2> HIDE DEF l0, size
  <2> QED BY <1>1, <1>2, PoppedIs
<1> HIDE DEF l, size
<1>5. /\ l \in Laser /\ p \in Seq(Node) /\ n \in Nat /\ n + 1 <= MaxNodes
      /\ Aimed(m_Queue) => Aimed(p)
      /\ Cached(m_Queue, m_fLength) => Cached(p, l.length) \/ (n = 1 /\ Len(m_Queue) > 1)
  <2>1. p \in Seq(Node) /\ l \in Laser
    BY <1>4 DEF Shortened, Laser
  <2>2. n \in Nat
    BY <2>1, NodesOf
  <2>3. \A a \in Nat : a <= size => a + 1 <= MaxNodes
    BY <1>2, Concrete
  <2> QED BY <1>4, <2>1, <2>2, <2>3 DEF Shortened
<1> HIDE DEF p
<1>6. d \in Nat
  <2>1. n # 0 => n \in 1 .. n
    BY <1>5
  <2> QED BY <1>1, <1>5, <2>1, NodesOf, DistanceIs
<1>7. node \in Node /\ node.pos = x /\ node.dis = d /\ node.active = on
  BY <1>1, <1>6, NodeIs DEF LaserNode
<1>8. /\ behind' \in BOOLEAN /\ drift' \in BOOLEAN /\ torn' \in BOOLEAN /\ overrun' \in BOOLEAN
  BY <1>3 DEF LasIInv
<1> HIDE DEF node
<1>9. CASE n = 0
  <2>1. m_Queue' = q /\ m_fLength' = 0
    BY <1>3, <1>9
  <2>2. q \in Seq(Node) /\ Len(q) = n + 1 /\ q[n + 1] = node
    BY <1>5, <1>7, AppendProperties
  <2>3. Len(q) = 1 /\ q[1] = node /\ node.dis = 0 /\ Len(q) <= 1
    BY <1>7, <1>9, <2>2
  <2> HIDE DEF q
  <2>4. ActiveLength(q) = 0
    BY <2>2, <2>3, LengthOfOne
  <2>5. Cached(q, 0)
    BY <2>3, <2>4 DEF Cached, DistanceBefore
  <2>6. Aimed(q)
    BY <2>3 DEF Aimed
  <2>7. /\ m_Queue' \in Seq(Node) /\ m_fLength' \in Int /\ Len(m_Queue') <= MaxNodes
        /\ Cached(m_Queue', m_fLength') /\ Aimed(m_Queue')
    BY <2>1, <2>2, <2>3, <2>5, <2>6, Concrete
  <2> QED BY <1>8, <2>7, LaserFrom
<1>10. CASE n # 0
  <2>1. /\ q \in Seq(Node) /\ Len(q) = n + 1 /\ q[n + 1] = node /\ \A i \in 1 .. n : q[i] = p[i]
        /\ ActiveLength(q) = ActiveLength(p) + Counted(q, n + 1)
        /\ \A i \in 1 .. n : DistanceBefore(q, i) = DistanceBefore(p, i)
        /\ \A i \in 2 .. n - 1 : Direction(q, i) = Direction(p, i)
    <3>1. Len(p) > 0
      <4>1. \A a \in Nat : a # 0 => a > 0
        OBVIOUS
      <4> QED BY <1>5, <1>10, <4>1
    <3> QED BY <1>5, <1>7, <3>1, OneMoreNode
  <2> HIDE DEF q
  <2>2. /\ t \in Seq(Node) /\ SamePlaces(q, t)
        /\ \A i \in 1 .. n + 1 : /\ t[i].dis = q[i].dis
                                 /\ t[i].dir = IF i \in {n, n + 1} THEN Direction(q, i) ELSE q[i].dir
    BY <2>1, ExtendedIs
  <2> HIDE DEF t
  <2>3. /\ ActiveLength(t) = ActiveLength(q)
        /\ \A i \in 1 .. n + 1 : /\ Direction(t, i) = Direction(q, i)
                                 /\ DistanceBefore(t, i) = DistanceBefore(q, i)
    BY <2>1, <2>2, PlacesDecide
  <2>4. Len(t) = n + 1
    BY <2>1, <2>2 DEF SamePlaces
  <2>5. m_Queue' = t /\ m_fLength' = IF on /\ p[n].active THEN l.length + d ELSE l.length
    BY <1>3, <1>10
  <2>6. n \in 1 .. n /\ n + 1 # 1 /\ (n + 1) - 1 = n /\ l.length \in Int
    BY <1>5, <1>10 DEF Laser
  <2>7. d = DistanceBefore(q, n + 1)
    BY <1>7, <1>10, <2>1, <2>6 DEF DistanceBefore
  <2>8. Counted(q, n + 1) = IF on /\ p[n].active THEN d ELSE 0
    BY <1>7, <2>1, <2>6, <2>7 DEF Counted
  <2> HIDE DEF d
  <2>9. m_fLength' \in Int
    BY <1>6, <2>5, <2>6
  <2>10. ASSUME ~ drift', ~ overrun' PROVE Cached(t, m_fLength')
    <3>1. ~ drift /\ ~ (n = 1 /\ Len(m_Queue) > 1)
      <4>1. \A a \in Nat : a # 0 => a > 0
        OBVIOUS
      <4> QED BY <1>3, <1>5, <1>10, <2>10, <4>1
    <3>2. Cached(p, l.length)
      BY <1>1, <1>5, <3>1 DEF LasIInv
    <3>3. ActiveLength(p) = l.length
      BY <3>2 DEF Cached
    <3>4. m_fLength' = ActiveLength(t)
      BY <1>6, <2>1, <2>3, <2>5, <2>6, <2>8, <3>3
    <3>5. ASSUME NEW i \in 1 .. n + 1 PROVE t[i].dis = DistanceBefore(t, i)
      <4>1. CASE i = n + 1
        BY <1>7, <2>1, <2>2, <2>3, <2>7, <4>1
      <4>2. CASE i # n + 1
        <5>1. i \in 1 .. n
          BY <1>5, <4>2
        <5> QED BY <2>1, <2>2, <2>3, <3>2, <5>1 DEF Cached
      <4> QED BY <4>1, <4>2
    <3> QED BY <2>4, <3>4, <3>5 DEF Cached
  <2>11. ASSUME ~ torn', ~ overrun' PROVE Aimed(t)
    <3> SUFFICES ASSUME NEW i \in 2 .. n + 1 PROVE t[i].dir = Direction(t, i)
      BY <2>4 DEF Aimed
    <3>1. i \in 1 .. n + 1
      BY <1>5
    <3>2. CASE i \in {n, n + 1}
      BY <2>2, <2>3, <3>1, <3>2
    <3>3. CASE i \notin {n, n + 1}
      <4>1. i \in 2 .. n - 1 /\ i \in 1 .. n /\ i \in 2 .. n /\ n > 1
        BY <1>5, <3>3
      <4>2. Aimed(p)
        BY <1>1, <1>3, <1>5, <2>11, <4>1 DEF LasIInv
      <4>3. q[i].dir = Direction(q, i)
        BY <2>1, <4>1, <4>2 DEF Aimed
      <4> QED BY <2>2, <2>3, <3>1, <3>3, <4>3
    <3> QED BY <3>2, <3>3
  <2>12. Len(t) <= MaxNodes
    BY <1>5, <2>4
  <2> QED BY <1>8, <2>2, <2>5, <2>9, <2>10, <2>11, <2>12, LaserFrom
<1> QED BY <1>9, <1>10
LEMMA OneNodeMoved ==
  ASSUME LasIInv, NEW i \in 1 .. MaxNodes, NEW x \in Pos, UpdateSingleNode(i, x)
  PROVE  LasIInv'
<1> DEFINE n == Len(m_Queue)
           d == IF i = 1 THEN 0 ELSE Distance(m_Queue[i - 1].pos, x)
           node == [m_Queue[i] EXCEPT !.pos = x, !.dis = d, !.active = TRUE]
           r == [m_Queue EXCEPT ![i] = node]
           t == Extended(r, {i - 1, i, i + 1})
<1>1. /\ m_Queue \in Seq(Node) /\ m_fLength \in Int /\ n \in Nat /\ DOMAIN m_Queue = 1 .. n
      /\ i \in 1 .. n /\ ~ overrun /\ x \in Nat /\ n <= MaxNodes
      /\ \A j \in 1 .. n : /\ m_Queue[j] \in Node /\ m_Queue[j].pos \in Nat /\ m_Queue[j].dis \in Nat
  <2>1. m_Queue \in Seq(Node) /\ x \in Nat /\ ~ overrun /\ m_fLength \in Int /\ n <= MaxNodes
    BY Concrete DEF LasIInv, UpdateSingleNode
  <2>2. i \in DOMAIN m_Queue
    BY DEF UpdateSingleNode
  <2> QED BY <2>1, <2>2, NodesOf
<1>2. /\ m_Queue' = t /\ m_fLength' = m_fLength - m_Queue[i].dis + d
      /\ drift' = (drift \/ i < n \/ (i > 1 /\ ~ (m_Queue[i].active /\ m_Queue[i - 1].active)))
      /\ UNCHANGED <<behind, torn, overrun>>
  BY DEF UpdateSingleNode
<1>3. d \in Nat
  <2>1. i # 1 => i - 1 \in 1 .. n
    BY <1>1
  <2> QED BY <1>1, <2>1, DistanceIs
<1>4. node \in Node /\ node.pos = x /\ node.dis = d /\ node.active = TRUE /\ node.dir = m_Queue[i].dir
  <2> HIDE DEF d
  <2>1. m_Queue[i] \in Node
    BY <1>1
  <2> QED BY <1>1, <1>3, <2>1 DEF Node
<1> HIDE DEF node
<1>5. /\ r \in Seq(Node) /\ Len(r) = n
      /\ \A j \in 1 .. n : r[j] = IF j = i THEN node ELSE m_Queue[j]
  BY <1>1, <1>4, ExceptSeq
<1> HIDE DEF r
<1>6. /\ t \in Seq(Node) /\ SamePlaces(r, t)
      /\ \A j \in 1 .. n : /\ t[j].dis = r[j].dis
                           /\ t[j].dir = IF j \in {i - 1, i, i + 1} THEN Direction(r, j) ELSE r[j].dir
  BY <1>5, ExtendedIs
<1> HIDE DEF t
<1>7. /\ ActiveLength(t) = ActiveLength(r) /\ Len(t) = n
      /\ \A j \in 1 .. n : /\ Direction(t, j) = Direction(r, j)
                           /\ DistanceBefore(t, j) = DistanceBefore(r, j)
  <2>1. Len(t) = n
    BY <1>5, <1>6 DEF SamePlaces
  <2> QED BY <1>5, <1>6, <2>1, PlacesDecide
<1>8. d = DistanceBefore(r, i)
  <2>1. i # 1 => i - 1 \in 1 .. n /\ i - 1 # i
    BY <1>1
  <2> QED BY <1>1, <1>4, <1>5, <2>1 DEF DistanceBefore
<1> HIDE DEF d
<1>9. m_fLength' \in Int
  <2>1. m_Queue[i].dis \in Nat
    BY <1>1
  <2> QED BY <1>1, <1>2, <1>3, <2>1
<1>10. /\ behind' \in BOOLEAN /\ drift' \in BOOLEAN /\ torn' \in BOOLEAN /\ overrun' \in BOOLEAN
  BY <1>2 DEF LasIInv
<1>11. ASSUME ~ drift' PROVE Cached(t, m_fLength')
  <2>1. ~ drift /\ ~ i < n /\ (i > 1 => m_Queue[i].active /\ m_Queue[i - 1].active)
    BY <1>2, <1>11
  <2>2. i = n /\ n \in 1 .. n
    <3> HIDE DEF n
    <3> QED BY <1>1, <2>1
  <2>3. m_fLength = ActiveLength(m_Queue) /\ \A j \in 1 .. n : m_Queue[j].dis = DistanceBefore(m_Queue, j)
    BY <1>1, <2>1 DEF LasIInv, Cached
  <2>4. ASSUME NEW j \in 1 .. n, j # n
        PROVE  r[j] = m_Queue[j] /\ DistanceBefore(r, j) = DistanceBefore(m_Queue, j)
    <3>1. j # 1 => j - 1 \in 1 .. n /\ j - 1 # n
      <4> HIDE DEF n
      <4> QED BY <1>1
    <3> QED BY <1>5, <2>2, <2>4, <3>1 DEF DistanceBefore
  <2>5. m_fLength' = ActiveLength(t)
    <3>1. CASE n = 1
      <4>1. m_fLength = 0 /\ ActiveLength(r) = 0
        <5>1. Len(m_Queue) <= 1 /\ Len(r) <= 1
          BY <1>5, <3>1
        <5> QED BY <1>1, <1>5, <2>3, <5>1, LengthOfOne
      <4>2. m_Queue[i].dis = 0 /\ d = 0
        BY <1>8, <2>2, <2>3, <3>1 DEF DistanceBefore
      <4> QED BY <1>2, <1>7, <4>1, <4>2
    <3>2. CASE n # 1
      <4>1. n > 1 /\ n \in 2 .. n /\ n - 1 \in 1 .. n /\ n - 1 # n /\ i > 1
        <5>1. \A a \in Nat : a \in 1 .. a /\ a # 1
                => a > 1 /\ a \in 2 .. a /\ a - 1 \in 1 .. a /\ a - 1 # a
          OBVIOUS
        <5>2. n > 1 /\ n \in 2 .. n /\ n - 1 \in 1 .. n /\ n - 1 # n
          BY <1>1, <2>2, <3>2, <5>1
        <5> QED BY <2>2, <5>2
      <4>2. \A j \in 2 .. n - 1 : Counted(m_Queue, j) = Counted(r, j)
        <5> SUFFICES ASSUME NEW j \in 2 .. n - 1 PROVE Counted(m_Queue, j) = Counted(r, j)
          OBVIOUS
        <5> HIDE DEF n
        <5>1. j \in 1 .. n /\ j # n /\ j - 1 \in 1 .. n /\ j - 1 # n
          BY <1>1
        <5> QED BY <2>4, <5>1 DEF Counted
      <4>3. ActiveLength(m_Queue) - Counted(m_Queue, n) = ActiveLength(r) - Counted(r, n)
        <5>1. IF Len(r) = Len(m_Queue)
              THEN ActiveLength(m_Queue) - Counted(m_Queue, Len(m_Queue))
                     = ActiveLength(r) - Counted(r, Len(m_Queue))
              ELSE ActiveLength(m_Queue) = ActiveLength(r) + Counted(m_Queue, Len(m_Queue))
          BY <1>1, <1>5, <4>1, <4>2, LengthBut
        <5> QED BY <1>5, <5>1
      <4>4. Counted(m_Queue, n) = m_Queue[i].dis
        BY <2>1, <2>2, <2>3, <4>1 DEF Counted
      <4>5. Counted(r, n) = d
        <5>1. r[n].active = TRUE /\ r[n - 1].active = m_Queue[n - 1].active
          BY <1>4, <1>5, <2>2, <4>1
        <5> QED BY <1>8, <2>1, <2>2, <4>1, <5>1 DEF Counted
      <4>6. ActiveLength(r) \in Int /\ ActiveLength(m_Queue) \in Int /\ m_Queue[i].dis \in Nat
        BY <1>1, <1>5, LengthInt
      <4> QED BY <1>2, <1>3, <1>7, <2>3, <4>3, <4>4, <4>5, <4>6
    <3> QED BY <3>1, <3>2
  <2>6. ASSUME NEW j \in 1 .. n PROVE t[j].dis = DistanceBefore(t, j)
    <3>1. CASE j = n
      BY <1>4, <1>5, <1>6, <1>7, <1>8, <2>2, <3>1
    <3>2. CASE j # n
      BY <1>6, <1>7, <2>3, <2>4, <3>2
    <3> QED BY <3>1, <3>2
  <2> QED BY <1>7, <2>5, <2>6 DEF Cached
<1>12. ASSUME ~ torn' PROVE Aimed(t)
  <2> SUFFICES ASSUME NEW j \in 2 .. n PROVE t[j].dir = Direction(t, j)
    BY <1>7 DEF Aimed
  <2>1. j \in 1 .. n
    BY <1>1
  <2>2. CASE j \in {i - 1, i, i + 1}
    BY <1>6, <1>7, <2>1, <2>2
  <2>3. CASE j \notin {i - 1, i, i + 1}
    <3>1. t[j].dir = m_Queue[j].dir
      BY <1>5, <1>6, <2>1, <2>3
    <3>2. m_Queue[j].dir = Direction(m_Queue, j)
      BY <1>1, <1>2, <1>12 DEF LasIInv, Aimed
    <3>3. Direction(m_Queue, j) = Direction(r, j)
      <4>1. ASSUME NEW k \in -1 .. 1
            PROVE  /\ j + k \in 1 .. Len(m_Queue) <=> j + k \in 1 .. Len(r)
                   /\ j + k \in 1 .. Len(m_Queue) => m_Queue[j + k].pos = r[j + k].pos
        <5>1. j + k # i
          BY <1>1, <2>1, <2>3
        <5> QED BY <1>5, <5>1
      <4>2. j \in 1 .. Len(r) /\ n > 1 /\ Len(r) > 1
        BY <1>1, <1>5, <2>1
      <4> QED BY <1>1, <1>5, <2>1, <4>1, <4>2, DirectionMoves
    <3> QED BY <1>7, <2>1, <3>1, <3>2, <3>3
  <2> QED BY <2>2, <2>3
<1> QED BY <1>1, <1>2, <1>6, <1>7, <1>9, <1>10, <1>11, <1>12, LaserFrom

LEMMA NodesFromList ==
  ASSUME LasIInv, NEW size \in 0 .. MaxNodes, NEW xs \in Seq(Pos), Len(xs) <= size,
         UpdateAllNodeByList(size, xs)
  PROVE  LasIInv'
<1> DEFINE given == [i \in DOMAIN xs |-> LaserNode(xs[i], 0, TRUE)]
<1>1. /\ DOMAIN xs = 1 .. Len(xs) /\ Len(xs) \in Nat /\ size \in Nat /\ size <= MaxNodes
      /\ \A i \in 1 .. Len(xs) : xs[i] \in Nat
  <2>1. \A i \in 1 .. Len(xs) : xs[i] \in Nat
    BY ElementOfSeq, Concrete
  <2>2. DOMAIN xs = 1 .. Len(xs) /\ Len(xs) \in Nat
    BY LenProperties
  <2>3. size \in Nat /\ size <= MaxNodes
    BY Concrete
  <2> QED BY <2>1, <2>2, <2>3
<1>2. given \in Seq(Node) /\ Len(given) = Len(xs)
  <2> DEFINE m == Len(xs)
             e(i) == LaserNode(xs[i], 0, TRUE)
  <2>1. given = [i \in 1 .. m |-> e(i)]
    BY <1>1
  <2>2. m \in Nat /\ \A i \in 1 .. m : e(i) \in Node
    BY <1>1, NodeIs
  <2> HIDE DEF m, e, given
  <2>3. given \in Seq(Node) /\ Len(given) = m
    BY <2>1, <2>2
  <2> QED BY <2>3 DEF m
<1> HIDE DEF given
<1>3. behind' \in BOOLEAN /\ overrun' = overrun /\ overrun' \in BOOLEAN
  BY DEF UpdateAllNodeByList, LasIInv
<1>4. CASE Len(xs) = size /\ UpdateAllNode(given)
  <2>1. /\ m_Queue' \in Seq(Node) /\ Len(m_Queue') = Len(given) /\ m_fLength' \in Int
        /\ drift' = FALSE /\ torn' = FALSE
        /\ Cached(m_Queue', m_fLength') /\ Aimed(m_Queue')
    BY <1>2, <1>4, AllNodesAnew
  <2>2. Len(m_Queue') <= MaxNodes
    BY <1>1, <1>2, <1>4, <2>1
  <2> QED BY <1>3, <2>1, <2>2, LaserFrom
<1>5. ASSUME NEW pos \in Pos, NEW on \in BOOLEAN,
             m_Queue' = given \o [i \in 1 .. size - Len(xs) |-> LaserNode(pos, 0, on)],
             drift' = TRUE, torn' = TRUE, UNCHANGED m_fLength
      PROVE  LasIInv'
  <2> DEFINE n == size - Len(xs)
             rest == [i \in 1 .. n |-> LaserNode(pos, 0, on)]
  <2>1. n \in Nat /\ LaserNode(pos, 0, on) \in Node
    BY <1>1, NodeIs, Concrete
  <2>2. rest \in Seq(Node) /\ Len(rest) = n
    <3> HIDE DEF n
    <3> QED BY <2>1
  <2>3. m_Queue' = given \o rest
    BY <1>5
  <2> HIDE DEF rest
  <2>4. m_Queue' \in Seq(Node) /\ Len(m_Queue') = Len(given) + Len(rest)
    BY <1>2, <2>2, <2>3, ConcatProperties
  <2>5. Len(m_Queue') <= MaxNodes
    BY <1>1, <1>2, <2>2, <2>4
  <2>6. m_fLength' \in Int
    BY <1>5 DEF LasIInv
  <2> QED BY <1>3, <1>5, <2>4, <2>5, <2>6, LaserFrom
<1>6. \/ Len(xs) = size /\ UpdateAllNode(given)
      \/ \E pos \in Pos, on \in BOOLEAN :
           /\ m_Queue' = given \o [i \in 1 .. size - Len(xs) |-> LaserNode(pos, 0, on)]
           /\ drift' = TRUE /\ torn' = TRUE /\ UNCHANGED m_fLength
  BY DEF UpdateAllNodeByList, given
<1> QED BY <1>4, <1>5, <1>6

LEMMA ListIs ==
  ASSUME NEW m \in Nat, NEW xs \in Lists(m) PROVE xs \in Seq(Pos) /\ Len(xs) <= m
<1>1. PICK k \in 0 .. m : xs \in [1 .. k -> Pos]
  BY DEF Lists
<1> QED BY <1>1

LEMMA LaserStep == ASSUME LasIInv, [LaserNext]_laserVars PROVE LasIInv'
<1>1. ASSUME NEW x \in Pos, NEW length \in 2 .. MaxNodes + 1, NEW on \in BOOLEAN,
             Update(x, length, on)
      PROVE  LasIInv'
  BY <1>1, NewestWrittenAgain, NodeInserted DEF Update
<1>2. ASSUME NEW i \in 1 .. MaxNodes, NEW x \in Pos, UpdateSingleNode(i, x) PROVE LasIInv'
  BY <1>2, OneNodeMoved
\* Where everything is computed anew, only the number of nodes matters.
<1>3. ASSUME NEW q \in Nodes, UpdateAllNode(q), UNCHANGED <<behind, overrun>> PROVE LasIInv'
  <2>1. q \in Seq(Node) /\ Len(q) <= MaxNodes
    BY DEF Nodes
  <2>2. /\ m_Queue' \in Seq(Node) /\ Len(m_Queue') = Len(q) /\ m_fLength' \in Int
        /\ drift' = FALSE /\ torn' = FALSE
        /\ Cached(m_Queue', m_fLength') /\ Aimed(m_Queue')
    BY <1>3, <2>1, AllNodesAnew
  <2>3. behind' \in BOOLEAN /\ overrun' \in BOOLEAN /\ drift' \in BOOLEAN /\ torn' \in BOOLEAN
    BY <1>3, <2>2 DEF LasIInv
  <2> QED BY <2>1, <2>2, <2>3, LaserFrom
<1>4. ASSUME NEW i \in 1 .. MaxNodes, NEW on \in BOOLEAN, UpdateByNode(i, on) PROVE LasIInv'
  <2> DEFINE node == [m_Queue[i] EXCEPT !.active = on]
             q == [m_Queue EXCEPT ![i] = node]
  <2>1. /\ m_Queue \in Seq(Node) /\ Len(m_Queue) <= MaxNodes /\ i \in 1 .. Len(m_Queue)
        /\ m_Queue[i] \in Node
    BY <1>4, NodesOf DEF LasIInv, UpdateByNode
  <2>2. node \in Node
    BY <2>1 DEF Node
  <2>3. UpdateAllNode(q) /\ UNCHANGED <<behind, overrun>>
    BY <1>4, <2>1 DEF UpdateByNode
  <2> HIDE DEF node
  <2>4. q \in Seq(Node) /\ Len(q) = Len(m_Queue)
    BY <2>1, <2>2, ExceptSeq
  <2> HIDE DEF q
  <2>5. q \in Nodes
    BY <2>1, <2>4 DEF Nodes
  <2> QED BY <1>3, <2>3, <2>5
<1>5. ASSUME NEW xs \in Lists(2), NEW index \in Indices, NEW revert \in BOOLEAN,
             UpdatePositionByList(xs, index, revert)
      PROVE  LasIInv'
  <2> DEFINE step == IF revert THEN -1 ELSE 1
             q == PlacedAll(m_Queue, xs, index - 1, step)
  <2>1. xs \in Seq(Pos) /\ Len(xs) \in Nat /\ DOMAIN xs = 1 .. Len(xs)
    BY ListIs, LenProperties
  <2>2. m_Queue \in Nodes /\ index - 1 \in Int /\ step \in {-1, 1}
    BY <1>5, Concrete, LaserAssumption DEF LasIInv, UpdatePositionByList, Nodes
  <2>3. \/ /\ \A k \in DOMAIN xs : index - 1 + (k - 1) * step < MaxNodes
           /\ UpdateAllNode(q) /\ UNCHANGED <<behind, overrun>>
        \/ overrun' = TRUE /\ UNCHANGED <<m_Queue, m_fLength, drift, torn, behind>>
    BY <1>5 DEF UpdatePositionByList
  <2>4. CASE overrun' = TRUE /\ UNCHANGED <<m_Queue, m_fLength, drift, torn, behind>>
    BY <2>4 DEF LasIInv
  <2>5. CASE /\ \A k \in DOMAIN xs : index - 1 + (k - 1) * step < MaxNodes
             /\ UpdateAllNode(q) /\ UNCHANGED <<behind, overrun>>
    <3> HIDE DEF step
    <3>1. ASSUME NEW k \in 1 .. Len(xs) PROVE (index - 1) + (k - 1) * step + 1 <= MaxNodes
      <4>1. index - 1 + (k - 1) * step < MaxNodes
        BY <2>1, <2>5
      <4> DEFINE y == index - 1 + (k - 1) * step
      <4>2. y \in Int /\ y < MaxNodes
        BY <2>2, <4>1, <2>1
      <4> HIDE DEF y
      <4>3. y + 1 <= MaxNodes
        BY <4>2, Concrete
      <4> QED BY <4>3 DEF y
    <3>2. q \in Nodes
      BY <2>1, <2>2, <3>1, PlacedAllIs
    <3> HIDE DEF q
    <3> QED BY <1>3, <2>5, <3>2
  <2> QED BY <2>3, <2>4, <2>5
<1>6. ASSUME NEW size \in 0 .. MaxNodes, NEW xs \in Lists(size), UpdateAllNodeByList(size, xs)
      PROVE  LasIInv'
  <2>1. xs \in Seq(Pos) /\ Len(xs) <= size
    BY ListIs, Concrete
  <2> QED BY <1>6, <2>1, NodesFromList
<1>7. CASE Meta_GC
  <2>1. LaserInit'
    BY <1>7 DEF Meta_GC, LaserInit
  <2> QED BY <2>1, LaserStarts, PTL
<1>8. CASE UNCHANGED laserVars
  BY <1>8 DEF laserVars, LasIInv, Cached, Aimed
<1> QED BY <1>1, <1>2, <1>4, <1>5, <1>6, <1>7, <1>8 DEF LaserNext

\* For lasers of any number of nodes and whatever scripts do to them: as long as no
\* node was written behind the array or pushed when it was full, the cached distances, the length and the
\* directions are those of the positions, unless one of the functions that
\* get them wrong was called since the last time all were computed.
THEOREM LaserCachesAgree == LaserSpec => []LaserInv
<1>1. LasIInv /\ [LaserNext]_laserVars => LasIInv'
  BY LaserStep
<1>2. LasIInv => LaserInv
  <2>1. LasIInv => DOMAIN m_Queue = 1 .. Len(m_Queue)
    BY NodesOf DEF LasIInv
  <2> QED BY <2>1 DEF LasIInv, LaserInv, LengthAgrees, DirectionsAgree, Cached, Aimed
<1>3. LaserInit => LasIInv
  BY LaserStarts
<1> QED BY <1>1, <1>2, <1>3, PTL DEF LaserSpec
==============================================================================
