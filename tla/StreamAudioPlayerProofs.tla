------------------------ MODULE StreamAudioPlayerProofs ------------------------
(***************************************************************************)
(* What three threads around a queue of any size keep, for any number of   *)
(* buffers, while one thread at a time is inside sendAction.               *)
(***************************************************************************)
EXTENDS StreamAudioPlayer, FiniteSetTheorems, SequenceTheorems, TLAPS

\* One thread is between the two steps of sendAction, or none is.
Taken(t) == slot[t] # Size
NoneTaken == \A t \in Thread : ~ Taken(t)

\* The slot i places behind the reader.
Behind(i) == (m_reader_index + i) % Size

\* The counts of the semaphores and the indices describe the same ring: the
\* messages to read, then the slot that is being written, then free ones.
RingInv ==
  \/ /\ NoneTaken
     /\ m_semaphore_data + m_semaphore_space = Size
     /\ m_writer_index = Behind(m_semaphore_data)
  \/ \E t \in Thread :
       /\ Taken(t) /\ \A u \in Thread \ {t} : ~ Taken(u)
       /\ m_semaphore_data + m_semaphore_space + 1 = Size
       /\ slot[t] = Behind(m_semaphore_data)
       /\ m_writer_index = Behind(m_semaphore_data + 1)
       /\ Sends(t)

\* What each thread posts.  Only the engine posts commands, one at a time and
\* behind the buffers it may have to post.
IsCommand(a) == a.type \in Command
SendInv ==
  /\ \A t \in Thread : \A i \in 1 .. Len(sending[t]) : sending[t][i].type # "exit"
  /\ \A t \in {"voice", "worker"} : \A i \in 1 .. Len(sending[t]) : ~ IsCommand(sending[t][i])
  /\ \A i \in 1 .. Len(sending["engine"]) - 1 : ~ IsCommand(sending["engine"][i])
  /\ worker # "check" => ~ Sends("worker")

\* The worker sees an exit message only behind the exit event.
ExitInv ==
  /\ engine = "running" <=> ~ m_event_exit
  /\ \A i \in 1 .. m_semaphore_data : Queue[i].type # "exit"
  /\ worker = "done" \/ Handles("exit") => m_event_exit
  /\ worker = "start" => action.type = "play"
  /\ worker = "submit" => action.type = "buffer_available"
  /\ ~ m_voice => ~ started

\* The commands on their way, the last one first: a message of the engine, one
\* in the queue, one the worker handles.  The last of them says what the state
\* of the player is; when there is none, the voice does.
EngineHolds == \E i \in 1 .. Len(sending["engine"]) : IsCommand(sending["engine"][i])
LastIn(i) ==
  /\ i \in 1 .. m_semaphore_data /\ IsCommand(Queue[i])
  /\ \A j \in i + 1 .. m_semaphore_data : ~ IsCommand(Queue[j])
QueueHolds == \E i \in 1 .. m_semaphore_data : IsCommand(Queue[i])
WorkerHolds == worker \in {"handle", "start"} /\ IsCommand(action)

AsksFor(a) == a.type \in {"play", "resume"} <=> m_state = "playing"

StateInv ==
  engine = "running" /\ ~ failed =>
    /\ \A i \in 1 .. Len(sending["engine"]) :
         IsCommand(sending["engine"][i]) => AsksFor(sending["engine"][i])
    /\ ~ EngineHolds => \A i \in 1 .. m_semaphore_data : LastIn(i) => AsksFor(Queue[i])
    /\ ~ EngineHolds /\ ~ QueueHolds /\ WorkerHolds => AsksFor(action)
    /\ ~ EngineHolds /\ ~ QueueHolds /\ ~ WorkerHolds /\ m_voice =>
         (started <=> m_state = "playing")

IInv == TypeOK /\ RingInv /\ SendInv /\ ExitInv /\ StateInv

------------------------------------------------------------------------------
(* How often an element is in a sequence.                                  *)

Positions(b, s) == {i \in DOMAIN s : s[i] = b}

LEMMA PositionsFinite ==
  ASSUME NEW b, NEW S, NEW s \in Seq(S)
  PROVE  /\ Positions(b, s) = {i \in 1 .. Len(s) : s[i] = b}
         /\ IsFiniteSet(Positions(b, s))
         /\ Count(b, s) = Cardinality(Positions(b, s))
<1>1. DOMAIN s = 1 .. Len(s) /\ Len(s) \in Nat
  BY LenProperties
<1>2. IsFiniteSet(1 .. Len(s))
  BY <1>1, FS_Interval
<1>3. IsFiniteSet(Positions(b, s))
  BY <1>1, <1>2, FS_Subset DEF Positions
<1> QED BY <1>1, <1>3 DEF Positions, Count

LEMMA CountIs ==
  ASSUME NEW b, NEW S, NEW s \in Seq(S)
  PROVE  /\ Count(b, s) \in Nat
         /\ Count(b, s) = 0 <=> \A i \in 1 .. Len(s) : s[i] # b
<1>1. /\ Positions(b, s) = {i \in 1 .. Len(s) : s[i] = b}
      /\ IsFiniteSet(Positions(b, s)) /\ Count(b, s) = Cardinality(Positions(b, s))
  BY PositionsFinite
<1>2. Count(b, s) \in Nat /\ (Count(b, s) = 0 <=> Positions(b, s) = {})
  BY <1>1, FS_CardinalityType, FS_EmptySet
<1> QED BY <1>1, <1>2

LEMMA CountAppend ==
  ASSUME NEW b, NEW S, NEW s \in Seq(S), NEW e \in S
  PROVE  Count(b, Append(s, e)) = Count(b, s) + IF e = b THEN 1 ELSE 0
<1> DEFINE t == Append(s, e)
<1>1. /\ t \in Seq(S) /\ Len(t) = Len(s) + 1 /\ Len(s) \in Nat
      /\ \A i \in 1 .. Len(s) : t[i] = s[i]
      /\ t[Len(s) + 1] = e
  BY AppendProperties, LenProperties
<1> HIDE DEF t
<1>2. /\ Positions(b, s) = {i \in 1 .. Len(s) : s[i] = b}
      /\ IsFiniteSet(Positions(b, s)) /\ Count(b, s) = Cardinality(Positions(b, s))
  BY PositionsFinite
<1>3. /\ Positions(b, t) = {i \in 1 .. Len(t) : t[i] = b}
      /\ Count(b, t) = Cardinality(Positions(b, t))
  BY <1>1, PositionsFinite
<1>4. CASE e = b
  <2>1. Positions(b, t) = Positions(b, s) \cup {Len(s) + 1} /\ Len(s) + 1 \notin Positions(b, s)
    BY <1>1, <1>2, <1>3, <1>4
  <2>2. Cardinality(Positions(b, t)) = Cardinality(Positions(b, s)) + 1
    BY <1>2, <2>1, FS_AddElement
  <2> QED BY <1>2, <1>3, <1>4, <2>2 DEF t
<1>5. CASE e # b
  <2>1. Positions(b, t) = Positions(b, s)
    BY <1>1, <1>2, <1>3, <1>5
  <2>2. Count(b, s) \in Nat
    BY CountIs
  <2>3. Count(b, t) = Count(b, s)
    BY <1>2, <1>3, <2>1
  <2>4. Count(b, s) = Count(b, s) + 0
    BY <2>2
  <2> QED BY <1>5, <2>3, <2>4 DEF t
<1> QED BY <1>4, <1>5

LEMMA CountTail ==
  ASSUME NEW b, NEW S, NEW s \in Seq(S), s # << >>
  PROVE  Count(b, s) = Count(b, Tail(s)) + IF Head(s) = b THEN 1 ELSE 0
<1> DEFINE t == Tail(s)
<1>1. /\ t \in Seq(S) /\ Len(t) = Len(s) - 1 /\ Len(s) \in Nat \ {0} /\ Head(s) = s[1]
      /\ \A i \in 1 .. Len(t) : t[i] = s[i + 1]
  BY HeadTailProperties, EmptySeq
<1> HIDE DEF t
<1>2. /\ Positions(b, s) = {i \in 1 .. Len(s) : s[i] = b}
      /\ IsFiniteSet(Positions(b, s)) /\ Count(b, s) = Cardinality(Positions(b, s))
  BY PositionsFinite
<1>3. /\ Positions(b, t) = {i \in 1 .. Len(t) : t[i] = b}
      /\ IsFiniteSet(Positions(b, t)) /\ Count(b, t) = Cardinality(Positions(b, t))
  BY <1>1, PositionsFinite
<1>4. Cardinality(Positions(b, s) \ {1}) = Cardinality(Positions(b, t))
  <2> DEFINE f == [i \in Positions(b, t) |-> i + 1]
  <2>1. f \in Injection(Positions(b, t), Positions(b, s) \ {1})
    BY <1>1, <1>2, <1>3 DEF Injection, IsInjective
  <2>2. f \in Surjection(Positions(b, t), Positions(b, s) \ {1})
    <3>1. ASSUME NEW i \in Positions(b, s) \ {1} PROVE i - 1 \in Positions(b, t) /\ f[i - 1] = i
      <4>1. i \in 2 .. Len(s) /\ s[i] = b
        BY <1>1, <1>2
      <4>2. i - 1 \in 1 .. Len(t) /\ t[i - 1] = s[(i - 1) + 1] /\ (i - 1) + 1 = i
        BY <1>1, <4>1
      <4>3. i - 1 \in Positions(b, t)
        BY <1>3, <4>1, <4>2
      <4>4. f[i - 1] = (i - 1) + 1
        BY <4>3
      <4> QED BY <4>2, <4>3, <4>4
    <3>2. f \in [Positions(b, t) -> Positions(b, s) \ {1}]
      BY <2>1 DEF Injection
    <3> HIDE DEF f
    <3> QED BY <3>1, <3>2 DEF Surjection
  <2>3. ExistsBijection(Positions(b, t), Positions(b, s) \ {1})
    BY <2>1, <2>2 DEF ExistsBijection, Bijection
  <2> QED BY <1>3, <2>3, FS_Bijection
<1>5. Cardinality(Positions(b, s) \ {1}) =
        IF 1 \in Positions(b, s) THEN Cardinality(Positions(b, s)) - 1
                                 ELSE Cardinality(Positions(b, s))
  BY <1>2, FS_RemoveElement
<1>6. 1 \in Positions(b, s) <=> Head(s) = b
  BY <1>1, <1>2
<1>7. Count(b, s) \in Nat /\ Count(b, t) \in Nat
  BY <1>1, CountIs
<1> QED BY <1>2, <1>3, <1>4, <1>5, <1>6, <1>7 DEF t

\* A sequence of one element, and none.
LEMMA CountShort ==
  ASSUME NEW b, NEW e
  PROVE  Count(b, << >>) = 0 /\ Count(b, <<e>>) = IF e = b THEN 1 ELSE 0
<1> DEFINE S == {e}
           none == << >>
<1>1. none \in Seq(S) /\ e \in S /\ Len(none) = 0 /\ <<e>> = Append(none, e)
  BY EmptySeq
<1> HIDE DEF S, none
<1>2. Count(b, none) = 0
  <2>1. \A i \in 1 .. Len(none) : none[i] # b
    BY <1>1
  <2> QED BY <1>1, <2>1, CountIs
<1>3. Count(b, <<e>>) = 0 + IF e = b THEN 1 ELSE 0
  <2>1. \A s \in Seq(S), x \in S :
          Count(b, Append(s, x)) = Count(b, s) + IF x = b THEN 1 ELSE 0
    BY CountAppend
  <2>2. Count(b, Append(none, e)) = Count(b, none) + IF e = b THEN 1 ELSE 0
    BY <1>1, <2>1, Zenon
  <2> QED BY <1>1, <1>2, <2>2, Zenon
<1> QED BY <1>2, <1>3 DEF none

\* A finite set as a sequence has each of its elements once.
LEMMA SetAsSequence ==
  ASSUME NEW S, IsFiniteSet(S)
  PROVE  /\ SetToSeq(S) \in Seq(S)
         /\ \A b \in S : Count(b, SetToSeq(S)) = 1
<1> DEFINE n == Cardinality(S)
           s == SetToSeq(S)
<1>1. n \in Nat /\ ExistsBijection(1 .. n, S)
  BY FS_CardinalityType
<1>2. \E f \in [1 .. n -> S] : IsInjective(f)
  BY <1>1 DEF ExistsBijection, Bijection, Injection
<1>3. s \in [1 .. n -> S] /\ IsInjective(s)
  BY <1>2 DEF SetToSeq
<1>4. s \in Seq(S) /\ Len(s) = n
  BY <1>1, <1>3
<1>5. s \in Surjection(1 .. n, S)
  <2>1. s \in Injection(1 .. n, S)
    BY <1>3 DEF Injection
  <2>2. Cardinality(1 .. n) = n
    BY <1>1, FS_Interval
  <2> QED BY <2>1, <2>2, FS_Injection
<1>6. ASSUME NEW b \in S PROVE Count(b, s) = 1
  <2>1. PICK i \in 1 .. n : s[i] = b
    BY <1>5 DEF Surjection
  <2>2. Positions(b, s) = {i}
    BY <1>3, <2>1 DEF Positions, IsInjective
  <2>3. Count(b, s) = Cardinality({i})
    BY <1>4, <2>2, PositionsFinite
  <2> QED BY <2>3, FS_Singleton
<1> QED BY <1>4, <1>6

------------------------------------------------------------------------------
(* The ring.                                                               *)

LEMMA Round ==
  ASSUME NEW r \in 0 .. Size - 1, NEW k \in 0 .. Size
  PROVE  /\ (r + k) % Size = IF r + k < Size THEN r + k ELSE r + k - Size
         /\ (r + k) % Size \in 0 .. Size - 1
<1> DEFINE x == r + k
<1>1. x \in Nat /\ x < 2 * Size /\ Size \in Nat \ {0}
  BY PlayerAssumption, SMT
<1> HIDE DEF x
<1>2. CASE x < Size
  BY <1>1, <1>2, SMT DEF x
<1>3. CASE x >= Size
  <2>1. x % Size = x - Size
    BY <1>1, <1>3, SMT
  <2> QED BY <1>1, <1>3, <2>1, SMT DEF x
<1> QED BY <1>1, <1>2, <1>3, SMT

\* What TypeOK says of the queue.
QueueType ==
  /\ m_data \in [0 .. Size - 1 -> Action]
  /\ m_reader_index \in 0 .. Size - 1
  /\ m_semaphore_data \in 0 .. Size

LEMMA QueueIs ==
  ASSUME QueueType
  PROVE  /\ Queue \in Seq(Action) /\ Len(Queue) = m_semaphore_data
         /\ \A i \in 1 .. m_semaphore_data :
              Queue[i] = m_data[Behind(i - 1)] /\ Queue[i] \in Action
<1>1. m_semaphore_data \in Nat
  BY PlayerAssumption DEF QueueType
<1>2. ASSUME NEW i \in 1 .. m_semaphore_data
      PROVE  Queue[i] = m_data[Behind(i - 1)] /\ Queue[i] \in Action
  <2>1. i - 1 \in 0 .. Size /\ m_reader_index + i - 1 = m_reader_index + (i - 1)
    BY <1>1, PlayerAssumption DEF QueueType
  <2>2. (m_reader_index + (i - 1)) % Size \in 0 .. Size - 1
    BY <2>1, Round DEF QueueType
  <2>3. Queue[i] = m_data[(m_reader_index + i - 1) % Size]
    BY DEF Queue
  <2> QED BY <2>1, <2>2, <2>3 DEF QueueType, Behind
<1>3. Queue \in [1 .. m_semaphore_data -> Action]
  BY <1>2 DEF Queue
<1> QED BY <1>1, <1>2, <1>3

LEMMA QueueIsNext ==
  ASSUME QueueType'
  PROVE  /\ Queue' \in Seq(Action) /\ Len(Queue') = m_semaphore_data'
         /\ \A i \in 1 .. m_semaphore_data' :
              Queue'[i] = m_data'[Behind(i - 1)'] /\ Queue'[i] \in Action
<1>1. m_semaphore_data' \in Nat
  BY PlayerAssumption DEF QueueType
<1>2. ASSUME NEW i \in 1 .. m_semaphore_data'
      PROVE  Queue'[i] = m_data'[Behind(i - 1)'] /\ Queue'[i] \in Action
  <2>1. i - 1 \in 0 .. Size /\ m_reader_index' + i - 1 = m_reader_index' + (i - 1)
    BY <1>1, PlayerAssumption DEF QueueType
  <2>2. (m_reader_index' + (i - 1)) % Size \in 0 .. Size - 1
    BY <2>1, Round DEF QueueType
  <2>3. Queue'[i] = m_data'[(m_reader_index' + i - 1) % Size]
    BY DEF Queue
  <2> QED BY <2>1, <2>2, <2>3 DEF QueueType, Behind
<1>3. Queue' \in [1 .. m_semaphore_data' -> Action]
  BY <1>2 DEF Queue
<1> QED BY <1>1, <1>2, <1>3

\* The ring while t writes its slot.
Writing(t) ==
  /\ Taken(t) /\ \A u \in Thread \ {t} : ~ Taken(u)
  /\ m_semaphore_data + m_semaphore_space + 1 = Size
  /\ slot[t] = Behind(m_semaphore_data)
  /\ m_writer_index = Behind(m_semaphore_data + 1)
  /\ Sends(t)

LEMMA WriterIs ==
  ASSUME RingInv, NEW t \in Thread, Taken(t) PROVE Writing(t)
BY DEF RingInv, NoneTaken, Writing

\* sendAction puts a message behind the others.
LEMMA QueueAppends ==
  ASSUME TypeOK, QueueType', RingInv, NEW t \in Thread, WriteSlot(t)
  PROVE  Sends(t) /\ Queue' = Append(Queue, Head(sending[t]))
<1>1. Writing(t)
  BY WriterIs DEF WriteSlot, Taken
<1>2. QueueType /\ slot[t] \in 0 .. Size - 1
  BY <1>1, PlayerAssumption DEF TypeOK, QueueType, Writing, Taken
<1>3. /\ m_semaphore_data \in Nat /\ m_semaphore_space \in Nat /\ Size \in Nat
      /\ m_semaphore_data < Size /\ m_semaphore_data' = m_semaphore_data + 1
  BY <1>1, PlayerAssumption DEF TypeOK, Writing, WriteSlot
<1> DEFINE m == Head(sending[t])
           a == Append(Queue, m)
<1>4. m \in Action
  BY <1>1 DEF Writing, Sends, TypeOK
<1>5. /\ a \in Seq(Action) /\ Len(a) = m_semaphore_data + 1
      /\ \A i \in 1 .. m_semaphore_data : a[i] = Queue[i]
      /\ a[m_semaphore_data + 1] = m
  BY <1>2, <1>4, QueueIs, AppendProperties
<1> HIDE DEF a
<1>6. /\ Queue' \in Seq(Action) /\ Len(Queue') = m_semaphore_data + 1
      /\ \A i \in 1 .. m_semaphore_data + 1 : Queue'[i] = m_data'[Behind(i - 1)]
  BY <1>3, QueueIsNext DEF WriteSlot, Behind
<1>7. m_data' = [m_data EXCEPT ![slot[t]] = m] /\ slot[t] = Behind(m_semaphore_data)
  BY <1>1 DEF Writing, WriteSlot
<1>8. ASSUME NEW i \in 1 .. m_semaphore_data + 1 PROVE Queue'[i] = a[i]
  <2>1. CASE i = m_semaphore_data + 1
    <3>1. i - 1 = m_semaphore_data
      BY <1>3, <2>1
    <3>2. m_data'[slot[t]] = m
      BY <1>2, <1>7 DEF QueueType
    <3> QED BY <1>5, <1>6, <1>7, <2>1, <3>1, <3>2
  <2>2. CASE i \in 1 .. m_semaphore_data
    <3>1. Behind(i - 1) # Behind(m_semaphore_data) /\ Behind(i - 1) \in 0 .. Size - 1
      <4>1. i - 1 \in 0 .. Size /\ m_semaphore_data \in 0 .. Size
        BY <1>3, <2>2
      <4>2. m_reader_index \in 0 .. Size - 1 /\ i - 1 < m_semaphore_data
        BY <1>2, <1>3, <2>2 DEF QueueType
      <4>3. /\ Behind(i - 1) = IF m_reader_index + (i - 1) < Size
                              THEN m_reader_index + (i - 1)
                              ELSE m_reader_index + (i - 1) - Size
            /\ Behind(i - 1) \in 0 .. Size - 1
        BY <4>1, <4>2, Round DEF Behind
      <4>4. Behind(m_semaphore_data) = IF m_reader_index + m_semaphore_data < Size
                                       THEN m_reader_index + m_semaphore_data
                                       ELSE m_reader_index + m_semaphore_data - Size
        BY <4>1, <4>2, Round DEF Behind
      <4> QED BY <1>3, <4>1, <4>2, <4>3, <4>4
    <3>2. Queue'[i] = m_data[Behind(i - 1)]
      BY <1>2, <1>6, <1>7, <3>1 DEF QueueType
    <3> QED BY <1>2, <1>5, <2>2, <3>2, QueueIs
  <2> QED BY <1>3, <2>1, <2>2
<1>9. Queue' = a
  BY <1>3, <1>5, <1>6, <1>8, SeqEqual
<1> QED BY <1>1, <1>9 DEF a, Writing

\* The worker takes the oldest message.
LEMMA QueueShifts ==
  ASSUME TypeOK, QueueType', receiveData
  PROVE  Queue # << >> /\ action' = Head(Queue) /\ Queue' = Tail(Queue)
<1>1. QueueType
  BY DEF TypeOK, QueueType
<1>2. /\ m_semaphore_data \in Nat \ {0} /\ m_semaphore_data' = m_semaphore_data - 1
      /\ m_semaphore_data <= Size /\ Size \in Nat
  BY PlayerAssumption DEF TypeOK, receiveData
<1>3. Queue \in Seq(Action) /\ Len(Queue) = m_semaphore_data /\ Queue # << >>
  BY <1>1, <1>2, QueueIs
<1> DEFINE t == Tail(Queue)
<1>4. /\ t \in Seq(Action) /\ Len(t) = m_semaphore_data - 1
      /\ Head(Queue) = Queue[1]
      /\ \A i \in 1 .. m_semaphore_data - 1 : t[i] = Queue[i + 1]
  BY <1>3, HeadTailProperties
<1>5. /\ Queue' \in Seq(Action) /\ Len(Queue') = m_semaphore_data - 1
      /\ \A i \in 1 .. m_semaphore_data - 1 : Queue'[i] = m_data[Behind(i - 1)']
  BY <1>2, QueueIsNext DEF receiveData
<1>6. ASSUME NEW i \in 1 .. m_semaphore_data - 1 PROVE Behind(i - 1)' = Behind(i)
  <2>1. /\ i - 1 \in 0 .. Size /\ i \in 0 .. Size /\ 1 \in 0 .. Size
        /\ m_reader_index' = (m_reader_index + 1) % Size
    BY <1>2 DEF receiveData
  <2>2. m_reader_index' \in 0 .. Size - 1
    BY <1>1, <2>1, Round DEF QueueType
  <2>3. /\ (m_reader_index + i) % Size
             = IF m_reader_index + i < Size THEN m_reader_index + i ELSE m_reader_index + i - Size
        /\ m_reader_index'
             = IF m_reader_index + 1 < Size THEN m_reader_index + 1 ELSE m_reader_index + 1 - Size
        /\ (m_reader_index' + (i - 1)) % Size
             = IF m_reader_index' + (i - 1) < Size THEN m_reader_index' + (i - 1)
                                                   ELSE m_reader_index' + (i - 1) - Size
    BY <1>1, <2>1, <2>2, Round DEF QueueType
  <2> QED BY <1>1, <1>2, <2>2, <2>3 DEF QueueType, Behind
<1>7. ASSUME NEW i \in 1 .. m_semaphore_data - 1 PROVE Queue'[i] = t[i]
  <2>1. i + 1 \in 1 .. m_semaphore_data /\ (i + 1) - 1 = i
    BY <1>2
  <2> QED BY <1>1, <1>4, <1>5, <1>6, <2>1, QueueIs
<1>8. action' = Head(Queue)
  <2>1. Queue[1] = m_data[Behind(0)] /\ Behind(0) = m_reader_index
    <3>1. 0 \in 0 .. Size /\ 1 \in 1 .. m_semaphore_data /\ 1 - 1 = 0
      BY <1>2
    <3>2. Queue[1] = m_data[Behind(1 - 1)]
      BY <1>1, <3>1, QueueIs
    <3>3. m_reader_index + 0 = m_reader_index /\ m_reader_index + 0 < Size
      BY <1>1, <1>2 DEF QueueType
    <3>4. (m_reader_index + 0) % Size = m_reader_index
      BY <1>1, <3>1, <3>3, Round DEF QueueType
    <3> QED BY <3>1, <3>2, <3>4 DEF Behind
  <2> QED BY <1>4, <2>1 DEF receiveData
<1> HIDE DEF t
<1>9. Queue' = t
  BY <1>2, <1>4, <1>5, <1>7, SeqEqual
<1> QED BY <1>3, <1>8, <1>9 DEF t

LEMMA RingStep ==
  ASSUME TypeOK, RingInv, SendInv, Overlap = FALSE, Next
  PROVE  RingInv'
<1> DEFINE r == m_reader_index
           d == m_semaphore_data
<1>1. /\ Size \in Nat \ {0} /\ r \in 0 .. Size - 1 /\ d \in 0 .. Size
      /\ m_semaphore_space \in 0 .. Size
  BY PlayerAssumption DEF TypeOK
<1>2. ASSUME NEW t \in Thread, TakeSlot(t) PROVE RingInv'
  <2>1. NoneTaken /\ d + m_semaphore_space = Size /\ m_writer_index = (r + d) % Size
    BY <1>2 DEF TakeSlot, RingInv, NoneTaken, Taken, Behind
  <2>2. /\ d' = d /\ m_semaphore_space' = m_semaphore_space - 1 /\ m_semaphore_space > 0
        /\ r' = r /\ m_writer_index' = (m_writer_index + 1) % Size
        /\ slot' = [slot EXCEPT ![t] = m_writer_index] /\ sending' = sending /\ Sends(t)
    BY <1>2 DEF TakeSlot, WithSpace
  <2>3. d + 1 \in 0 .. Size /\ 1 \in 0 .. Size
    BY <1>1, <2>1, <2>2
  <2>4. m_writer_index \in 0 .. Size - 1 /\ m_writer_index' = (r + (d + 1)) % Size
    <3>1. /\ (r + d) % Size = IF r + d < Size THEN r + d ELSE r + d - Size
          /\ (r + d) % Size \in 0 .. Size - 1
      BY <1>1, Round
    <3>2. (r + (d + 1)) % Size = IF r + (d + 1) < Size THEN r + (d + 1) ELSE r + (d + 1) - Size
      BY <1>1, <2>3, Round
    <3>3. (m_writer_index + 1) % Size =
            IF m_writer_index + 1 < Size THEN m_writer_index + 1 ELSE m_writer_index + 1 - Size
      BY <2>1, <2>3, <3>1, Round
    <3> QED BY <1>1, <2>1, <2>2, <3>1, <3>2, <3>3
  <2>5. slot'[t] = m_writer_index /\ \A u \in Thread \ {t} : slot'[u] = Size
    BY <2>1, <2>2 DEF NoneTaken, Taken, TypeOK
  <2>6. Taken(t)' /\ \A u \in Thread \ {t} : ~ Taken(u)'
    BY <1>1, <2>4, <2>5 DEF Taken
  <2>7. d' + m_semaphore_space' + 1 = Size /\ slot'[t] = Behind(d)' /\ m_writer_index' = Behind(d + 1)'
    BY <1>1, <2>1, <2>2, <2>4, <2>5 DEF Behind
  <2> QED BY <2>2, <2>6, <2>7 DEF RingInv, Sends
<1>3. ASSUME NEW t \in Thread, WriteSlot(t) PROVE RingInv'
  <2>1. Writing(t)
    BY <1>3, WriterIs DEF WriteSlot, Taken
  <2>2. NoneTaken'
    BY <1>3, <2>1 DEF WriteSlot, Writing, NoneTaken, Taken, TypeOK
  <2>3. /\ d' + m_semaphore_space' = Size /\ m_writer_index' = Behind(d + 1)
        /\ d' = d + 1 /\ r' = r
    BY <1>1, <1>3, <2>1 DEF WriteSlot, Writing
  <2> QED BY <2>2, <2>3 DEF RingInv, Behind
<1>4. CASE receiveData
  <2>1. /\ d' = d - 1 /\ m_semaphore_space' = m_semaphore_space + 1 /\ r' = (r + 1) % Size
        /\ slot' = slot /\ m_writer_index' = m_writer_index /\ d > 0 /\ sending' = sending
    BY <1>4 DEF receiveData
  <2>2. r' \in 0 .. Size - 1 /\ r' = IF r + 1 < Size THEN r + 1 ELSE r + 1 - Size
    <3>1. 1 \in 0 .. Size
      BY <1>1
    <3> QED BY <1>1, <2>1, <3>1, Round
  <2>3. ASSUME NEW k \in 1 .. Size PROVE (r' + (k - 1)) % Size = (r + k) % Size
    <3>1. k \in 0 .. Size /\ k - 1 \in 0 .. Size
      BY <1>1
    <3>2. (r + k) % Size = IF r + k < Size THEN r + k ELSE r + k - Size
      BY <1>1, <3>1, Round
    <3>3. (r' + (k - 1)) % Size = IF r' + (k - 1) < Size THEN r' + (k - 1) ELSE r' + (k - 1) - Size
      BY <1>1, <2>2, <3>1, Round
    <3> QED BY <1>1, <2>2, <3>1, <3>2, <3>3
  <2>4. CASE NoneTaken /\ d + m_semaphore_space = Size /\ m_writer_index = Behind(d)
    <3>1. d \in 1 .. Size /\ d' + m_semaphore_space' = Size
      BY <1>1, <2>1, <2>4
    <3>2. m_writer_index' = Behind(d)'
      BY <2>1, <2>3, <2>4, <3>1 DEF Behind
    <3> QED BY <2>1, <2>4, <3>1, <3>2 DEF RingInv, NoneTaken, Taken
  <2>5. ASSUME NEW t \in Thread, Writing(t) PROVE RingInv'
    <3>1. d \in 1 .. Size /\ d + 1 \in 1 .. Size /\ d' + m_semaphore_space' + 1 = Size
      BY <1>1, <2>1, <2>5 DEF Writing
    <3>2. (r' + d') % Size = (r + d) % Size
      BY <2>1, <2>3, <3>1
    <3>3. (r' + (d' + 1)) % Size = (r + (d + 1)) % Size
      <4>1. d' + 1 = (d + 1) - 1
        BY <1>1, <2>1
      <4> QED BY <2>3, <3>1, <4>1
    <3>4. slot'[t] = Behind(d)' /\ m_writer_index' = Behind(d + 1)'
      BY <2>1, <2>5, <3>2, <3>3 DEF Behind, Writing
    <3>5. Taken(t)' /\ (\A u \in Thread \ {t} : ~ Taken(u)') /\ Sends(t)'
      BY <2>1, <2>5 DEF Taken, Sends, Writing
    <3> QED BY <3>1, <3>4, <3>5 DEF RingInv
  <2> QED BY <2>4, <2>5 DEF RingInv, Writing
<1>5. ASSUME UNCHANGED <<m_writer_index, r, d, m_semaphore_space, slot>>,
             \A t \in Thread : Taken(t) => sending'[t] = sending[t]
      PROVE  RingInv'
  BY <1>5 DEF RingInv, NoneTaken, Taken, Behind, Sends
<1>6. ASSUME NEW t \in Thread, DropAction(t) PROVE RingInv'
  BY <1>5, <1>6 DEF DropAction, Posted, Taken, TypeOK
<1>7. \A t \in Thread : Taken(t) => Sends(t)
  BY DEF RingInv, NoneTaken
<1>8. CASE Engine \/ join
  BY <1>5, <1>7, <1>8 DEF Engine, join, play, pause, resume, stop, Request, Calls, notifyExit,
     onAudioEngineDestroy, onAudioEngineCreate, Created, onAudioEngineCreateFails, queueVars,
     Taken, TypeOK, Thread
<1>9. CASE OnBufferEnd
  BY <1>5, <1>7, <1>9 DEF OnBufferEnd, TypeOK, Thread
<1>10. CASE Worker /\ ~ receiveData
  BY <1>5, <1>7, <1>10 DEF Worker, receiveCheck, receiveTimeout, on_exit, decode, decodeFails,
     decodeEnd, SubmitSourceBuffer, on_play, on_play_start, on_pause_resume_stop, queueVars,
     Handles, TypeOK, Thread, SendInv
<1> QED BY <1>2, <1>3, <1>4, <1>6, <1>8, <1>9, <1>10 DEF Next, sendAction

------------------------------------------------------------------------------
(* Messages, and what a thread still has to post.                          *)

LEMMA Messages ==
  /\ \A b \in Buffer : available(b) \in Action /\ available(b).type = "buffer_available"
                       /\ available(b).buffer_available_index = b
  /\ \A type \in Command \cup {"exit"} : Message(type, 0) \in Action /\ Message(type, 0).type = type
  /\ NoAction \in Action /\ NoAction.type = "exit"
  /\ \A a \in Action : a.type \in Command \cup {"exit", "buffer_available"}
  /\ \A a \in Action : a.type = "buffer_available" =>
       a.buffer_available_index \in Buffer /\ a = available(a.buffer_available_index)
BY DEF Action, Message, available, NoAction, Command

LEMMA SomethingToPost ==
  ASSUME TypeOK, NEW t \in Thread, Sends(t)
  PROVE  /\ sending[t] \in Seq(Action) /\ Len(sending[t]) \in Nat \ {0}
         /\ Head(sending[t]) = sending[t][1] /\ Head(sending[t]) \in Action
         /\ Tail(sending[t]) \in Seq(Action)
         /\ Len(Tail(sending[t])) = Len(sending[t]) - 1
         /\ \A i \in 1 .. Len(sending[t]) - 1 : Tail(sending[t])[i] = sending[t][i + 1]
<1>1. sending[t] \in Seq(Action) /\ sending[t] # << >>
  BY DEF TypeOK, Sends
<1> QED BY <1>1, HeadTailProperties, EmptySeq

LEMMA OneToPost ==
  ASSUME NEW a \in Action
  PROVE  <<a>> \in Seq(Action) /\ Len(<<a>>) = 1 /\ <<a>>[1] = a
OBVIOUS

\* What create() posts.
LEMMA BuffersToPost ==
  /\ SetToSeq({available(b) : b \in Buffer}) \in Seq(Action)
  /\ \A i \in 1 .. Len(SetToSeq({available(b) : b \in Buffer})) :
       SetToSeq({available(b) : b \in Buffer})[i].type = "buffer_available"
  /\ \A b \in Buffer : Count(available(b), SetToSeq({available(c) : c \in Buffer})) = 1
<1> DEFINE S == {available(b) : b \in Buffer}
           q == SetToSeq(S)
<1>1. IsFiniteSet(S)
  <2> DEFINE f == [b \in Buffer |-> available(b)]
  <2>1. f \in Surjection(Buffer, S)
    BY DEF Surjection
  <2> QED BY <2>1, FS_Surjection, PlayerAssumption
<1>2. q \in Seq(S) /\ \A e \in S : Count(e, q) = 1
  BY <1>1, SetAsSequence
<1>3. S \subseteq Action /\ \A e \in S : e.type = "buffer_available"
  BY Messages
<1> HIDE DEF q
<1>4. q \in Seq(Action) /\ \A i \in 1 .. Len(q) : q[i] \in S
  BY <1>2, <1>3
<1> QED BY <1>2, <1>3, <1>4 DEF q

LEMMA CreateToPost ==
  LET q == SetToSeq({available(b) : b \in Buffer}) \o Resumed IN
  /\ q \in Seq(Action)
  /\ \A i \in 1 .. Len(q) - 1 : q[i].type = "buffer_available"
  /\ \A i \in 1 .. Len(q) : \/ q[i].type = "buffer_available"
                            \/ m_state = "playing" /\ q[i].type = "resume"
  /\ m_state = "playing" => Len(q) > 0 /\ q[Len(q)].type = "resume"
  /\ \A b \in Buffer : Count(available(b), q) = 1
<1> DEFINE p == SetToSeq({available(b) : b \in Buffer})
           m == Message("resume", 0)
<1>1. /\ p \in Seq(Action) /\ \A i \in 1 .. Len(p) : p[i].type = "buffer_available"
      /\ \A b \in Buffer : Count(available(b), p) = 1
  BY BuffersToPost
<1>2. m \in Action /\ m.type = "resume"
  BY Messages DEF Command
<1> HIDE DEF p, m
<1>3. CASE m_state = "playing"
  <2>1. p \o Resumed = Append(p, m)
    BY <1>1, <1>2, <1>3 DEF Resumed, m
  <2> DEFINE q == Append(p, m)
  <2>2. /\ q \in Seq(Action) /\ Len(q) = Len(p) + 1 /\ Len(p) \in Nat
        /\ \A i \in 1 .. Len(p) : q[i] = p[i]
        /\ q[Len(p) + 1] = m
    BY <1>1, <1>2, AppendProperties, LenProperties
  <2>3. ASSUME NEW b \in Buffer PROVE Count(available(b), q) = 1
    <3>1. m # available(b)
      BY <1>2, Messages
    <3>2. Count(available(b), p) = 1 /\ available(b) \in Action
      BY <1>1, Messages
    <3>3. Count(available(b), q) = Count(available(b), p) + IF m = available(b) THEN 1 ELSE 0
      BY <1>1, <1>2, CountAppend
    <3> QED BY <3>1, <3>2, <3>3
  <2> HIDE DEF q
  <2>4. \A i \in 1 .. Len(q) : i \in 1 .. Len(p) \/ i = Len(p) + 1
    BY <2>2
  <2>5. Len(q) - 1 = Len(p) /\ Len(q) > 0
    BY <2>2
  <2>6. /\ \A i \in 1 .. Len(q) - 1 : q[i].type = "buffer_available"
        /\ \A i \in 1 .. Len(q) : \/ q[i].type = "buffer_available"
                                  \/ m_state = "playing" /\ q[i].type = "resume"
        /\ q[Len(q)].type = "resume"
    BY <1>1, <1>2, <1>3, <2>2, <2>4, <2>5
  <2> QED BY <2>1, <2>2, <2>3, <2>5, <2>6 DEF q, p
<1>4. CASE m_state # "playing"
  <2>1. p \o Resumed = p
    BY <1>1, <1>4, ConcatEmptySeq DEF Resumed
  <2>2. Len(p) \in Nat
    BY <1>1, LenProperties
  <2>3. /\ \A i \in 1 .. Len(p) - 1 : p[i].type = "buffer_available"
        /\ \A i \in 1 .. Len(p) : \/ p[i].type = "buffer_available"
                                  \/ m_state = "playing" /\ p[i].type = "resume"
    BY <1>1, <2>2
  <2> QED BY <1>1, <1>4, <2>1, <2>3 DEF p
<1> QED BY <1>3, <1>4

------------------------------------------------------------------------------
(* The types.                                                              *)

LEMMA InitIInv == Init => IInv
<1> SUFFICES ASSUME Init PROVE IInv
  OBVIOUS
<1>1. Size \in Nat \ {0} /\ Buffer \subseteq Nat
  BY PlayerAssumption
<1>2. /\ SetToSeq({available(b) : b \in Buffer}) \in Seq(Action)
      /\ \A i \in 1 .. Len(SetToSeq({available(b) : b \in Buffer})) :
           SetToSeq({available(b) : b \in Buffer})[i].type = "buffer_available"
  BY BuffersToPost
<1> DEFINE q == SetToSeq({available(b) : b \in Buffer})
<1> HIDE DEF q
<1>3. /\ sending \in [Thread -> Seq(Action)]
      /\ sending["engine"] = q \/ sending["engine"] = << >>
      /\ \A t \in {"voice", "worker"} : sending[t] = << >>
  <2>1. << >> \in Seq(Action)
    BY EmptySeq
  <2> QED BY <1>2, <2>1 DEF Init, Thread, q
<1>4. TypeOK
  <2>1. << >> \in Seq(Buffer) /\ 0 \in 0 .. Len(<< >>)
    BY EmptySeq
  <2>2. NoAction \in Action
    BY Messages
  <2>3. m_data \in [0 .. Size - 1 -> Action] /\ slot \in [Thread -> 0 .. Size]
    BY <1>1, <2>2 DEF Init
  <2>4. submitted \in Seq(Buffer) /\ flushed \in 0 .. Len(submitted) /\ lost \subseteq Buffer
    BY <2>1 DEF Init
  <2>5. /\ m_writer_index \in 0 .. Size - 1 /\ m_reader_index \in 0 .. Size - 1
        /\ m_semaphore_space \in 0 .. Size /\ m_semaphore_data \in 0 .. Size
    BY <1>1 DEF Init
  <2> QED BY <1>3, <2>2, <2>3, <2>4, <2>5 DEF Init, TypeOK
<1>5. RingInv
  BY <1>1, Round DEF Init, RingInv, NoneTaken, Taken, Behind
<1>6. SendInv
  <2>1. \A i \in 1 .. Len(sending["engine"]) : sending["engine"][i].type = "buffer_available"
    BY <1>2, <1>3 DEF q
  <2>2. \A t \in {"voice", "worker"} : Len(sending[t]) = 0
    BY <1>3, EmptySeq
  <2>3. Len(sending["engine"]) \in Nat
    BY <1>3, LenProperties DEF Thread
  <2> QED BY <1>3, <2>1, <2>2, <2>3 DEF Init, SendInv, IsCommand, Command, Thread, Sends
<1>7. ExitInv
  BY DEF Init, ExitInv, Handles
<1>8. StateInv
  <2>1. ~ EngineHolds /\ ~ QueueHolds /\ \A i : ~ LastIn(i)
    <3>1. m_semaphore_data = 0
      BY DEF Init
    <3>2. \A i \in 1 .. Len(sending["engine"]) : ~ IsCommand(sending["engine"][i])
      BY <1>2, <1>3 DEF IsCommand, Command, q
    <3> QED BY <3>1, <3>2 DEF EngineHolds, QueueHolds, LastIn
  <2>2. \A i \in 1 .. Len(sending["engine"]) : ~ IsCommand(sending["engine"][i])
    BY <2>1 DEF EngineHolds
  <2> QED BY <2>1, <2>2 DEF Init, StateInv, WorkerHolds, IsCommand
<1> QED BY <1>4, <1>5, <1>6, <1>7, <1>8 DEF IInv

LEMMA TypeStep ==
  ASSUME TypeOK, RingInv, ExitInv, Next
  PROVE  TypeOK'
<1>1. Size \in Nat \ {0} /\ Buffer \subseteq Nat
  BY PlayerAssumption
<1>2. ASSUME NEW t \in Thread, TakeSlot(t) PROVE TypeOK'
  <2>1. (m_writer_index + 1) % Size \in 0 .. Size - 1
    BY <1>1, Round DEF TypeOK
  <2> QED BY <1>1, <1>2, <2>1 DEF TakeSlot, TypeOK, WithSpace, queueVars, voiceVars, history
<1>3. ASSUME NEW t \in Thread, WriteSlot(t) PROVE TypeOK'
  <2>1. Writing(t)
    BY <1>3, WriterIs DEF WriteSlot, Taken
  <2>2. Head(sending[t]) \in Action /\ Tail(sending[t]) \in Seq(Action)
    BY <2>1, SomethingToPost DEF Writing
  <2>3. m_semaphore_data' \in 0 .. Size
    BY <1>1, <1>3, <2>1 DEF WriteSlot, Writing, TypeOK
  <2> QED BY <1>1, <1>3, <2>2, <2>3 DEF WriteSlot, TypeOK, Posted, voiceVars, history
<1>4. ASSUME NEW t \in Thread, DropAction(t) PROVE TypeOK'
  <2>1. Head(sending[t]) \in Action /\ Tail(sending[t]) \in Seq(Action)
    BY <1>4, SomethingToPost DEF DropAction
  <2>2. lost' \subseteq Buffer /\ failed' \in BOOLEAN
    <3>1. CASE Head(sending[t]).type = "buffer_available"
      <4>1. Head(sending[t]).buffer_available_index \in Buffer
        BY <2>1, <3>1, Messages
      <4> QED BY <1>4, <3>1, <4>1 DEF DropAction, TypeOK
    <3>2. CASE Head(sending[t]).type # "buffer_available"
      BY <1>4, <3>2 DEF DropAction, TypeOK
    <3> QED BY <3>1, <3>2
  <2> QED BY <1>1, <1>4, <2>1, <2>2 DEF DropAction, TypeOK, Posted, voiceVars
<1>5. CASE play \/ pause \/ resume \/ stop
  <2>1. \A type \in Command : <<Message(type, 0)>> \in Seq(Action)
    BY Messages, OneToPost
  <2> QED BY <1>5, <2>1 DEF play, pause, resume, stop, Request, TypeOK, Thread, Command,
     voiceVars, history
<1>6. CASE onAudioEngineDestroy \/ join
  <2>1. << >> \in Seq(Buffer) /\ 0 \in 0 .. Len(<< >>)
    BY EmptySeq
  <2> QED BY <1>6, <2>1 DEF onAudioEngineDestroy, join, DestroyVoice, TypeOK, queueVars, history
<1>7. CASE onAudioEngineCreate \/ onAudioEngineCreateFails
  <2>1. CASE onAudioEngineCreate
    BY <2>1, CreateToPost DEF onAudioEngineCreate, Created, TypeOK, Thread
  <2>2. CASE onAudioEngineCreateFails
    BY <2>2 DEF onAudioEngineCreateFails, TypeOK, queueVars
  <2> QED BY <1>7, <2>1, <2>2
<1>8. CASE notifyExit
  BY <1>8 DEF notifyExit, TypeOK, queueVars, voiceVars, history
<1>9. CASE OnBufferEnd
  <2>1. /\ submitted' \in Seq(Buffer) /\ Len(submitted') = Len(submitted) - 1
        /\ Head(submitted) \in Buffer /\ Len(submitted) \in Nat \ {0}
    BY <1>9, HeadTailProperties, EmptySeq DEF OnBufferEnd, TypeOK
  <2>2. <<available(Head(submitted))>> \in Seq(Action)
    BY <2>1, Messages, OneToPost
  <2> QED BY <1>9, <2>1, <2>2 DEF OnBufferEnd, TypeOK, Thread, history
<1>10. CASE receiveCheck \/ receiveTimeout \/ on_exit \/ decode \/ on_play \/ on_play_start
            \/ on_pause_resume_stop
  <2>1. Len(submitted) \in Nat
    BY LenProperties DEF TypeOK
  <2>2. flushed' \in 0 .. Len(submitted)
    BY <1>10, <2>1 DEF receiveCheck, receiveTimeout, on_exit, decode, on_play, on_play_start,
       on_pause_resume_stop, voiceVars, Flush, TypeOK
  <2> QED BY <1>10, <2>2, Messages DEF receiveCheck, receiveTimeout, on_exit, decode, on_play,
     on_play_start, on_pause_resume_stop, queueVars, voiceVars, history, Idle, TypeOK
<1>11. CASE receiveData
  <2>1. (m_reader_index + 1) % Size \in 0 .. Size - 1
    BY <1>1, Round DEF TypeOK
  <2>2. m_semaphore_data' \in 0 .. Size /\ m_semaphore_space' \in 0 .. Size
    BY <1>1, <1>11 DEF receiveData, TypeOK, RingInv
  <2> QED BY <1>1, <1>11, <2>1, <2>2 DEF receiveData, TypeOK, voiceVars, history
<1>12. CASE decodeFails
  BY <1>12, Messages DEF decodeFails, Handles, Idle, TypeOK, queueVars, voiceVars
<1>13. CASE decodeEnd
  BY <1>13, Messages, OneToPost DEF decodeEnd, Idle, TypeOK, Thread, voiceVars, history
<1>14. CASE SubmitSourceBuffer
  <2>1. action.buffer_available_index \in Buffer
    BY <1>14, Messages DEF TypeOK, ExitInv, SubmitSourceBuffer
  <2>2. /\ Append(submitted, action.buffer_available_index) \in Seq(Buffer)
        /\ Len(Append(submitted, action.buffer_available_index)) = Len(submitted) + 1
        /\ Len(submitted) \in Nat
    BY <2>1, AppendProperties, LenProperties DEF TypeOK
  <2> QED BY <1>14, <2>2, Messages DEF SubmitSourceBuffer, Idle, TypeOK, queueVars, history
<1> QED BY <1>2, <1>3, <1>4, <1>5, <1>6, <1>7, <1>8, <1>9, <1>10, <1>11, <1>12, <1>13, <1>14
    DEF Next, sendAction, Engine, Worker

------------------------------------------------------------------------------
(* The messages on their way.                                              *)

\* The steps that leave the queue alone.
Quiet ==
  \/ \E t \in Thread : TakeSlot(t) \/ DropAction(t)
  \/ Engine \/ join \/ OnBufferEnd
  \/ Worker /\ ~ receiveData

LEMMA StepKinds ==
  ASSUME Next
  PROVE  Quiet \/ receiveData \/ \E t \in Thread : WriteSlot(t)
BY DEF Next, sendAction, Quiet, Worker

LEMMA QueueStays ==
  ASSUME Quiet
  PROVE  Queue' = Queue /\ m_semaphore_data' = m_semaphore_data
<1>1. UNCHANGED <<m_data, m_reader_index, m_semaphore_data>>
  <2>1. CASE \E t \in Thread : TakeSlot(t) \/ DropAction(t)
    BY <2>1 DEF TakeSlot, DropAction
  <2>2. CASE Engine \/ join
    BY <2>2 DEF Engine, join, play, pause, resume, stop, Request, onAudioEngineDestroy,
       onAudioEngineCreate, Created, onAudioEngineCreateFails, notifyExit, queueVars
  <2>3. CASE OnBufferEnd
    BY <2>3 DEF OnBufferEnd
  <2>4. CASE Worker /\ ~ receiveData
    BY <2>4 DEF Worker, receiveCheck, receiveTimeout, on_exit, decode, decodeFails, decodeEnd,
       SubmitSourceBuffer, on_play, on_play_start, on_pause_resume_stop, queueVars
  <2> QED BY <2>1, <2>2, <2>3, <2>4 DEF Quiet
<1> QED BY <1>1 DEF Queue

LEMMA SendStep ==
  ASSUME TypeOK, RingInv, SendInv, ExitInv, Next
  PROVE  SendInv'
<1>1. ASSUME UNCHANGED sending, worker' # "check" => worker # "check" \/ ~ Sends("worker")
      PROVE  SendInv'
  BY <1>1 DEF SendInv, Sends
<1>2. ASSUME NEW t \in Thread, Sends(t), t = "worker" => worker = "check",
             sending' = [sending EXCEPT ![t] = Tail(@)], worker' = worker
      PROVE  SendInv'
  <2>1. /\ sending'[t] = Tail(sending[t]) /\ \A u \in Thread \ {t} : sending'[u] = sending[u]
        /\ Len(sending'[t]) = Len(sending[t]) - 1
        /\ \A i \in 1 .. Len(sending[t]) - 1 : sending'[t][i] = sending[t][i + 1]
        /\ Len(sending[t]) \in Nat
    BY <1>2, SomethingToPost DEF TypeOK
  <2>2. ASSUME NEW i \in 1 .. Len(sending'[t]) PROVE i + 1 \in 1 .. Len(sending[t])
    BY <2>1
  <2>3. ASSUME NEW i \in 1 .. Len(sending'[t]) - 1 PROVE i + 1 \in 1 .. Len(sending[t]) - 1
    BY <2>1
  <2>4. \A u \in Thread : \A i \in 1 .. Len(sending'[u]) : sending'[u][i].type # "exit"
    <3>1. \A i \in 1 .. Len(sending'[t]) : sending'[t][i] = sending[t][i + 1]
      BY <2>1
    <3>2. \A i \in 1 .. Len(sending'[t]) : sending'[t][i].type # "exit"
      BY <2>2, <3>1 DEF SendInv
    <3> QED BY <2>1, <3>2 DEF SendInv
  <2>5. \A u \in {"voice", "worker"} : \A i \in 1 .. Len(sending'[u]) : ~ IsCommand(sending'[u][i])
    BY <2>1, <2>2 DEF SendInv, Thread
  <2>6. \A i \in 1 .. Len(sending'["engine"]) - 1 : ~ IsCommand(sending'["engine"][i])
    <3>1. CASE t = "engine"
      <4>1. ASSUME NEW i \in 1 .. Len(sending'["engine"]) - 1
            PROVE  ~ IsCommand(sending'["engine"][i])
        <5>1. i + 1 \in 1 .. Len(sending["engine"]) - 1 /\ i \in 1 .. Len(sending["engine"]) - 1
          <6>1. /\ Len(sending'["engine"]) = Len(sending["engine"]) - 1
                /\ Len(sending["engine"]) \in Nat
            BY <2>1, <3>1
          <6> QED BY <6>1
        <5>2. sending'["engine"][i] = sending["engine"][i + 1]
          BY <2>1, <3>1, <5>1
        <5> QED BY <5>1, <5>2 DEF SendInv
      <4> QED BY <4>1
    <3>2. CASE t # "engine"
      BY <2>1, <3>2 DEF SendInv, Thread
    <3> QED BY <3>1, <3>2
  <2>7. worker' # "check" => ~ Sends("worker")'
    BY <1>2, <2>1 DEF SendInv, Sends, Thread
  <2> QED BY <2>4, <2>5, <2>6, <2>7 DEF SendInv, IsCommand
<1>3. ASSUME NEW t \in Thread, NEW a \in Action, sending' = [sending EXCEPT ![t] = <<a>>],
             a.type # "exit", t # "engine" => ~ IsCommand(a),
             worker' = IF t = "worker" THEN "check" ELSE worker
      PROVE  SendInv'
  <2>1. /\ sending'[t] = <<a>> /\ Len(sending'[t]) = 1 /\ sending'[t][1] = a
        /\ \A u \in Thread \ {t} : sending'[u] = sending[u]
    BY <1>3, OneToPost DEF TypeOK
  <2>2. \A u \in Thread : \A i \in 1 .. Len(sending'[u]) : sending'[u][i].type # "exit"
    BY <1>3, <2>1 DEF SendInv
  <2>3. \A u \in {"voice", "worker"} : \A i \in 1 .. Len(sending'[u]) : ~ IsCommand(sending'[u][i])
    BY <1>3, <2>1 DEF SendInv, Thread
  <2>4. \A i \in 1 .. Len(sending'["engine"]) - 1 : ~ IsCommand(sending'["engine"][i])
    <3>1. CASE t = "engine"
      <4>1. Len(sending'["engine"]) = 1 /\ 1 .. 1 - 1 = {}
        BY <2>1, <3>1
      <4> QED BY <4>1
    <3>2. CASE t # "engine"
      BY <2>1, <3>2 DEF SendInv, Thread
    <3> QED BY <3>1, <3>2
  <2>5. worker' # "check" => ~ Sends("worker")'
    BY <1>3, <2>1 DEF SendInv, Sends, Thread
  <2> QED BY <2>2, <2>3, <2>4, <2>5 DEF SendInv, IsCommand
<1>4. CASE \E t \in Thread : TakeSlot(t)
  BY <1>1, <1>4 DEF TakeSlot
<1>5. ASSUME NEW t \in Thread, WriteSlot(t) PROVE SendInv'
  <2>1. Sends(t)
    BY <1>5, WriterIs DEF WriteSlot, Taken, Writing
  <2> QED BY <1>2, <1>5, <2>1 DEF WriteSlot, Posted, SendInv
<1>6. ASSUME NEW t \in Thread, DropAction(t) PROVE SendInv'
  BY <1>2, <1>6 DEF DropAction, Posted, SendInv
<1>7. CASE play \/ pause \/ resume \/ stop
  <2>1. \A type \in Command : Message(type, 0) \in Action /\ Message(type, 0).type = type
    BY Messages
  <2>2. PICK type \in Command : sending' = [sending EXCEPT !["engine"] = <<Message(type, 0)>>]
    BY <1>7 DEF play, pause, resume, stop, Request, Command
  <2>3. worker' = worker
    BY <1>7 DEF play, pause, resume, stop, Request
  <2> QED BY <1>3, <2>1, <2>2, <2>3 DEF Thread, Command
<1>8. CASE onAudioEngineDestroy \/ onAudioEngineCreateFails \/ notifyExit \/ join
  BY <1>1, <1>8 DEF onAudioEngineDestroy, onAudioEngineCreateFails, notifyExit, join, queueVars
<1>9. CASE onAudioEngineCreate
  <2> DEFINE q == SetToSeq({available(b) : b \in Buffer}) \o Resumed
  <2>1. /\ \A i \in 1 .. Len(q) - 1 : q[i].type = "buffer_available"
        /\ \A i \in 1 .. Len(q) : q[i].type \in {"buffer_available", "resume"}
    BY CreateToPost
  <2>2. sending' = [sending EXCEPT !["engine"] = q] /\ worker' = worker
    BY <1>9 DEF onAudioEngineCreate, Created
  <2> HIDE DEF q
  <2>3. sending'["engine"] = q /\ \A u \in {"voice", "worker"} : sending'[u] = sending[u]
    BY <2>2 DEF TypeOK, Thread
  <2> QED BY <2>1, <2>2, <2>3 DEF SendInv, Sends, IsCommand, Command, Thread
<1>10. CASE OnBufferEnd
  <2>1. submitted \in Seq(Buffer) /\ submitted # << >>
    BY <1>10 DEF OnBufferEnd, TypeOK
  <2>2. Head(submitted) \in Buffer
    BY <2>1, HeadTailProperties
  <2>3. /\ available(Head(submitted)) \in Action
        /\ available(Head(submitted)).type = "buffer_available"
    BY <2>2, Messages
  <2> QED BY <1>3, <1>10, <2>3 DEF OnBufferEnd, Thread, IsCommand, Command
<1>11. CASE Worker /\ ~ decodeEnd
  <2>1. UNCHANGED sending
    BY <1>11 DEF Worker, receiveCheck, receiveTimeout, receiveData, on_exit, decode, decodeFails,
       SubmitSourceBuffer, on_play, on_play_start, on_pause_resume_stop, queueVars
  <2>2. worker' # "check" => worker # "check" \/ ~ Sends("worker")
    BY <1>11 DEF Worker, receiveCheck, receiveTimeout, receiveData, on_exit, decode, decodeFails,
       SubmitSourceBuffer, on_play, on_play_start, on_pause_resume_stop, Idle, Handles
  <2> QED BY <1>1, <2>1, <2>2
<1>12. CASE decodeEnd
  BY <1>3, <1>12 DEF decodeEnd, Handles, Idle, IsCommand, Command, Thread, TypeOK
<1> QED BY <1>4, <1>5, <1>6, <1>7, <1>8, <1>9, <1>10, <1>11, <1>12 DEF Next, sendAction, Engine

LEMMA ExitStep ==
  ASSUME TypeOK, TypeOK', RingInv, SendInv, ExitInv, Next
  PROVE  ExitInv'
<1>1. QueueType /\ QueueType'
  BY DEF TypeOK, QueueType
<1>2. \A i \in 1 .. m_semaphore_data' : Queue'[i].type # "exit"
  <2>1. ASSUME NEW t \in Thread, WriteSlot(t)
        PROVE  \A i \in 1 .. m_semaphore_data' : Queue'[i].type # "exit"
    <3>1. Sends(t) /\ Queue' = Append(Queue, Head(sending[t]))
      BY <1>1, <2>1, QueueAppends
    <3>2. /\ Head(sending[t]) = sending[t][1] /\ Len(sending[t]) \in Nat \ {0}
          /\ Head(sending[t]) \in Action
      BY <3>1, SomethingToPost
    <3>3. Queue \in Seq(Action) /\ Len(Queue) = m_semaphore_data /\ m_semaphore_data \in Nat
      BY <1>1, QueueIs, LenProperties
    <3>4. /\ \A i \in 1 .. m_semaphore_data : Queue'[i] = Queue[i]
          /\ Queue'[m_semaphore_data + 1] = Head(sending[t])
      BY <3>1, <3>2, <3>3, AppendProperties
    <3>5. Head(sending[t]).type # "exit"
      BY <3>2 DEF SendInv
    <3> QED BY <2>1, <3>3, <3>4, <3>5 DEF WriteSlot, ExitInv
  <2>2. CASE receiveData
    <3>1. Queue # << >> /\ Queue' = Tail(Queue)
      BY <1>1, <2>2, QueueShifts
    <3>2. Queue \in Seq(Action) /\ Len(Queue) = m_semaphore_data /\ m_semaphore_data \in Nat
      BY <1>1, QueueIs, LenProperties
    <3>3. /\ \A i \in 1 .. m_semaphore_data - 1 : Queue'[i] = Queue[i + 1]
          /\ m_semaphore_data' = m_semaphore_data - 1
      BY <2>2, <3>1, <3>2, HeadTailProperties DEF receiveData
    <3> QED BY <3>2, <3>3 DEF ExitInv
  <2>3. CASE Quiet
    BY <2>3, QueueStays DEF ExitInv
  <2> QED BY <2>1, <2>2, <2>3, StepKinds
<1>3. /\ engine' = "running" <=> ~ m_event_exit'
      /\ worker' = "done" \/ Handles("exit")' => m_event_exit'
      /\ worker' = "start" => action'.type = "play"
      /\ worker' = "submit" => action'.type = "buffer_available"
      /\ ~ m_voice' => ~ started'
  <2>1. CASE \E t \in Thread : sendAction(t)
    BY <2>1 DEF sendAction, TakeSlot, WriteSlot, DropAction, ExitInv, Handles, voiceVars
  <2>2. CASE \/ play \/ pause \/ resume \/ stop
             \/ onAudioEngineDestroy \/ onAudioEngineCreate \/ onAudioEngineCreateFails
    BY <2>2 DEF play, pause, resume, stop, Request, onAudioEngineDestroy, DestroyVoice,
       onAudioEngineCreate, Created, onAudioEngineCreateFails, voiceVars, ExitInv, Handles
  <2>3. CASE notifyExit \/ join \/ OnBufferEnd
    BY <2>3 DEF notifyExit, join, DestroyVoice, Calls, OnBufferEnd, voiceVars, ExitInv, Handles
  <2>4. CASE receiveData
    <3>1. Queue # << >> /\ action' = Head(Queue)
      BY <1>1, <2>4, QueueShifts
    <3>2. Queue \in Seq(Action) /\ Len(Queue) = m_semaphore_data
      BY <1>1, QueueIs
    <3>3. Len(Queue) \in Nat \ {0} /\ Head(Queue) = Queue[1]
      BY <3>1, <3>2, HeadTailProperties, EmptySeq
    <3>4. action'.type # "exit"
      BY <3>1, <3>2, <3>3 DEF ExitInv
    <3> QED BY <2>4, <3>4 DEF receiveData, ExitInv, Handles, voiceVars
  <2>5. CASE receiveCheck \/ receiveTimeout \/ on_exit \/ decode \/ decodeFails \/ decodeEnd
    BY <2>5 DEF receiveCheck, receiveTimeout, on_exit, decode, decodeFails, decodeEnd, Idle,
       ExitInv, Handles, voiceVars
  <2>6. CASE SubmitSourceBuffer \/ on_play \/ on_play_start \/ on_pause_resume_stop
    BY <2>6 DEF SubmitSourceBuffer, on_play, on_play_start, on_pause_resume_stop, Idle,
       ExitInv, Handles, TypeOK
  <2> QED BY <2>1, <2>2, <2>3, <2>4, <2>5, <2>6 DEF Next, Engine, Worker
<1> QED BY <1>2, <1>3 DEF ExitInv

------------------------------------------------------------------------------
(* The state that getState returns.                                        *)

\* The parts of StateInv.
EngineAsks ==
  \A i \in 1 .. Len(sending["engine"]) :
    IsCommand(sending["engine"][i]) => AsksFor(sending["engine"][i])
QueueAsks == ~ EngineHolds => \A i \in 1 .. m_semaphore_data : LastIn(i) => AsksFor(Queue[i])
WorkerAsks == ~ EngineHolds /\ ~ QueueHolds /\ WorkerHolds => AsksFor(action)
VoiceFollows ==
  ~ EngineHolds /\ ~ QueueHolds /\ ~ WorkerHolds /\ m_voice => (started <=> m_state = "playing")

LEMMA StateParts ==
  /\ StateInv <=> (engine = "running" /\ ~ failed =>
                     EngineAsks /\ QueueAsks /\ WorkerAsks /\ VoiceFollows)
  /\ StateInv' <=> (engine' = "running" /\ ~ failed' =>
                     EngineAsks' /\ QueueAsks' /\ WorkerAsks' /\ VoiceFollows')
BY DEF StateInv, EngineAsks, QueueAsks, WorkerAsks, VoiceFollows

\* Steps that take no command from the engine to the queue or out of the queue.
LEMMA StateFrame ==
  ASSUME EngineAsks, QueueAsks, WorkerAsks, VoiceFollows,
         EngineAsks', EngineHolds => EngineHolds',
         UNCHANGED <<Queue, m_semaphore_data, m_state>>,
         \/ /\ WorkerHolds' <=> WorkerHolds
            /\ WorkerHolds => action' = action
            /\ WorkerHolds \/ ~ m_voice' \/ (m_voice /\ started' = started)
         \/ /\ WorkerHolds /\ ~ WorkerHolds'
            /\ AsksFor(action) /\ m_voice' => (started' <=> m_state = "playing")
  PROVE  QueueAsks' /\ WorkerAsks' /\ VoiceFollows'
<1>1. QueueHolds' <=> QueueHolds
  BY DEF QueueHolds, IsCommand
<1>2. QueueAsks'
  BY DEF QueueAsks, LastIn, IsCommand, AsksFor
<1>3. WorkerAsks' /\ VoiceFollows'
  BY <1>1 DEF WorkerAsks, VoiceFollows, AsksFor
<1> QED BY <1>2, <1>3

\* The engine has posted a message, or dropped it.
LEMMA EnginePosts ==
  ASSUME TypeOK, Sends("engine"), sending'["engine"] = Tail(sending["engine"]),
         UNCHANGED m_state, EngineAsks
  PROVE  /\ EngineAsks'
         /\ ~ IsCommand(Head(sending["engine"])) /\ EngineHolds => EngineHolds'
<1> DEFINE s == sending["engine"]
<1>1. /\ Len(s) \in Nat \ {0} /\ Head(s) = s[1] /\ Len(s') = Len(s) - 1
      /\ \A i \in 1 .. Len(s) - 1 : s'[i] = s[i + 1]
  BY SomethingToPost DEF Thread
<1> HIDE DEF s
<1>2. ASSUME NEW i \in 1 .. Len(s'), IsCommand(s'[i]) PROVE AsksFor(s[i])'
  <2>1. s'[i] = s[i + 1] /\ i + 1 \in 1 .. Len(s)
    BY <1>1
  <2> QED BY <1>2, <2>1 DEF EngineAsks, AsksFor, s
<1>3. ASSUME NEW i \in 1 .. Len(s), IsCommand(s[i]), ~ IsCommand(Head(s)) PROVE EngineHolds'
  <2>1. i - 1 \in 1 .. Len(s') /\ s'[i - 1] = s[i]
    <3>1. i # 1
      BY <1>1, <1>3
    <3>2. i - 1 \in 1 .. Len(s) - 1 /\ (i - 1) + 1 = i
      BY <1>1, <3>1
    <3> QED BY <1>1, <3>2
  <2> QED BY <1>3, <2>1 DEF EngineHolds, IsCommand, s
<1> QED BY <1>2, <1>3 DEF EngineAsks, EngineHolds, IsCommand, s

\* A message about a buffer changes nothing.
LEMMA PlainMessage ==
  ASSUME TypeOK, NEW a \in Action, ~ IsCommand(a),
         Queue' = Append(Queue, a), m_semaphore_data' = m_semaphore_data + 1,
         UNCHANGED <<m_state, m_voice, started, worker, action>>, EngineHolds => EngineHolds',
         QueueAsks, WorkerAsks, VoiceFollows
  PROVE  QueueAsks' /\ WorkerAsks' /\ VoiceFollows'
<1> DEFINE d == m_semaphore_data
<1>1. Queue \in Seq(Action) /\ Len(Queue) = d /\ d \in Nat /\ d' = d + 1
  BY QueueIs, LenProperties DEF TypeOK, QueueType
<1>2. /\ \A i \in 1 .. d : Queue'[i] = Queue[i]
      /\ Queue'[d + 1] = a
  BY <1>1, AppendProperties
<1> HIDE DEF d
<1>3. QueueHolds => QueueHolds'
  <2>1. ASSUME NEW i \in 1 .. d, IsCommand(Queue[i]) PROVE QueueHolds'
    <3>1. i \in 1 .. d' /\ IsCommand(Queue'[i])
      BY <1>1, <1>2, <2>1
    <3> QED BY <3>1 DEF QueueHolds, IsCommand, d
  <2> QED BY <2>1 DEF QueueHolds, d
<1>4. ASSUME NEW i \in 1 .. d', LastIn(i)', ~ EngineHolds' PROVE AsksFor(Queue[i])'
  <2>1. i \in 1 .. d
    <3>1. i # d + 1
      BY <1>2, <1>4 DEF LastIn, IsCommand
    <3> QED BY <1>1, <3>1
  <2>2. LastIn(i)
    <3>1. IsCommand(Queue[i])
      BY <1>2, <1>4, <2>1 DEF LastIn, IsCommand
    <3>2. ASSUME NEW j \in i + 1 .. d PROVE ~ IsCommand(Queue[j])
      <4>1. j \in 1 .. d /\ j \in i + 1 .. d'
        BY <1>1, <2>1
      <4> QED BY <1>2, <1>4, <4>1 DEF LastIn, IsCommand, d
    <3> QED BY <2>1, <3>1, <3>2 DEF LastIn, d
  <2>3. AsksFor(Queue[i])
    BY <1>4, <2>1, <2>2 DEF QueueAsks, d
  <2> QED BY <1>2, <2>1, <2>3 DEF AsksFor
<1>5. QueueAsks'
  BY <1>4 DEF QueueAsks, d
<1>6. WorkerHolds' <=> WorkerHolds
  BY DEF WorkerHolds, IsCommand
<1> QED BY <1>3, <1>5, <1>6 DEF WorkerAsks, VoiceFollows, AsksFor

\* A command of the engine is the last one in the queue.
LEMMA CommandLast ==
  ASSUME TypeOK, NEW a \in Action, IsCommand(a), AsksFor(a),
         Queue' = Append(Queue, a), m_semaphore_data' = m_semaphore_data + 1, UNCHANGED m_state
  PROVE  QueueAsks' /\ QueueHolds'
<1> DEFINE d == m_semaphore_data
<1>1. Queue \in Seq(Action) /\ Len(Queue) = d /\ d \in Nat /\ d' = d + 1
  BY QueueIs, LenProperties DEF TypeOK, QueueType
<1>2. Queue'[d + 1] = a
  BY <1>1, AppendProperties
<1> HIDE DEF d
<1>3. ASSUME NEW i \in 1 .. d', LastIn(i)' PROVE AsksFor(Queue[i])'
  <2>1. d + 1 \in i + 1 .. d' => i = d + 1
    BY <1>1, <1>2, <1>3 DEF LastIn, IsCommand, d
  <2>2. i = d + 1
    BY <1>1, <2>1
  <2> QED BY <1>2, <2>2 DEF AsksFor
<1>4. QueueHolds'
  BY <1>1, <1>2 DEF QueueHolds, IsCommand, d
<1> QED BY <1>3, <1>4 DEF QueueAsks, d

LEMMA StateOfWrite ==
  ASSUME TypeOK, TypeOK', RingInv, SendInv, StateInv, NEW t \in Thread, WriteSlot(t),
         engine = "running", ~ failed
  PROVE  EngineAsks' /\ QueueAsks' /\ WorkerAsks' /\ VoiceFollows'
<1> DEFINE s == sending[t]
<1>1. EngineAsks /\ QueueAsks /\ WorkerAsks /\ VoiceFollows
  BY StateParts
<1>2. /\ Sends(t) /\ Queue' = Append(Queue, Head(s))
      /\ m_semaphore_data' = m_semaphore_data + 1
  BY QueueAppends DEF WriteSlot, TypeOK, QueueType
<1>3. s \in Seq(Action) /\ Len(s) \in Nat \ {0} /\ Head(s) = s[1] /\ Head(s) \in Action
  BY <1>2, SomethingToPost
<1>4. sending'[t] = Tail(s) /\ \A u \in Thread \ {t} : sending'[u] = sending[u]
  BY DEF WriteSlot, Posted, TypeOK
<1>5. UNCHANGED <<m_state, m_voice, started, worker, action>>
  BY DEF WriteSlot, voiceVars
<1>6. CASE t = "engine"
  <2>1. EngineAsks' /\ (~ IsCommand(Head(s)) /\ EngineHolds => EngineHolds')
    BY <1>1, <1>2, <1>4, <1>5, <1>6, EnginePosts
  <2>2. CASE IsCommand(Head(s))
    <3>1. AsksFor(Head(s))
      <4>1. 1 \in 1 .. Len(s)
        BY <1>3
      <4> QED BY <1>1, <1>3, <1>6, <2>2, <4>1 DEF EngineAsks
    <3>2. QueueAsks' /\ QueueHolds'
      BY <1>2, <1>3, <1>5, <2>2, <3>1, CommandLast
    <3> QED BY <2>1, <3>2 DEF WorkerAsks, VoiceFollows
  <2>3. CASE ~ IsCommand(Head(s))
    BY <1>1, <1>2, <1>3, <1>5, <2>1, <2>3, PlainMessage
  <2> QED BY <2>2, <2>3
<1>7. CASE t # "engine"
  <2>1. ~ IsCommand(Head(s))
    BY <1>3, <1>7 DEF SendInv, Thread
  <2>2. sending'["engine"] = sending["engine"]
    BY <1>4, <1>7 DEF Thread
  <2>3. EngineAsks' /\ (EngineHolds => EngineHolds')
    BY <1>1, <1>5, <2>2 DEF EngineAsks, EngineHolds, AsksFor, IsCommand
  <2> QED BY <1>1, <1>2, <1>3, <1>5, <2>1, <2>3, PlainMessage
<1> QED BY <1>6, <1>7

\* The worker takes a message from the queue.
LEMMA StateOfReceive ==
  ASSUME TypeOK, TypeOK', StateInv, receiveData, engine = "running", ~ failed
  PROVE  EngineAsks' /\ QueueAsks' /\ WorkerAsks' /\ VoiceFollows'
<1> DEFINE d == m_semaphore_data
<1>1. EngineAsks /\ QueueAsks /\ WorkerAsks /\ VoiceFollows
  BY StateParts
<1>2. /\ Queue # << >> /\ action' = Head(Queue) /\ Queue' = Tail(Queue) /\ d' = d - 1
      /\ UNCHANGED <<sending, m_state, m_voice, started>>
      /\ worker = "wait" /\ worker' = "handle"
  BY QueueShifts DEF receiveData, TypeOK, QueueType, voiceVars
<1>3. Queue \in Seq(Action) /\ Len(Queue) = d /\ d \in Nat
  BY QueueIs, LenProperties DEF TypeOK, QueueType
<1>4. /\ d \in Nat \ {0} /\ action' = Queue[1]
      /\ \A i \in 1 .. d - 1 : Queue'[i] = Queue[i + 1]
  BY <1>2, <1>3, HeadTailProperties, EmptySeq
<1> HIDE DEF d
<1>5. EngineAsks' /\ (EngineHolds <=> EngineHolds') /\ ~ WorkerHolds
  BY <1>1, <1>2 DEF EngineAsks, EngineHolds, AsksFor, IsCommand, WorkerHolds
<1>6. ASSUME NEW i \in 1 .. d', LastIn(i)', ~ EngineHolds' PROVE AsksFor(Queue[i])'
  <2>1. i + 1 \in 1 .. d /\ Queue'[i] = Queue[i + 1]
    <3>1. d' = d - 1 /\ d \in Nat \ {0}
      BY <1>2, <1>4
    <3>2. i \in 1 .. d - 1
      BY <3>1
    <3>3. i + 1 \in 1 .. d
      BY <3>1, <3>2
    <3> QED BY <1>4, <3>2, <3>3
  <2>2. LastIn(i + 1)
    <3>1. IsCommand(Queue[i + 1])
      BY <1>6, <2>1 DEF LastIn, IsCommand
    <3>2. ASSUME NEW j \in (i + 1) + 1 .. d PROVE ~ IsCommand(Queue[j])
      <4>1. j - 1 \in i + 1 .. d' /\ j - 1 \in 1 .. d - 1 /\ (j - 1) + 1 = j
        BY <1>2, <1>4
      <4> QED BY <1>4, <1>6, <4>1 DEF LastIn, IsCommand, d
    <3> QED BY <2>1, <3>1, <3>2 DEF LastIn, d
  <2>3. AsksFor(Queue[i + 1])
    BY <1>1, <1>5, <1>6, <2>1, <2>2 DEF QueueAsks, d
  <2> QED BY <1>2, <2>1, <2>3 DEF AsksFor
<1>7. QueueAsks'
  BY <1>6 DEF QueueAsks, d
<1>8. ASSUME ~ QueueHolds' PROVE \A j \in 1 + 1 .. d : ~ IsCommand(Queue[j])
  <2>1. ASSUME NEW j \in 1 + 1 .. d PROVE ~ IsCommand(Queue[j])
    <3>1. j - 1 \in 1 .. d' /\ j - 1 \in 1 .. d - 1 /\ (j - 1) + 1 = j
      BY <1>2, <1>4
    <3> QED BY <1>4, <1>8, <3>1 DEF QueueHolds, IsCommand, d
  <2> QED BY <2>1
<1>9. WorkerAsks'
  <2> SUFFICES ASSUME ~ EngineHolds', ~ QueueHolds', WorkerHolds' PROVE AsksFor(action)'
    BY DEF WorkerAsks
  <2>1. LastIn(1) /\ 1 \in 1 .. d
    BY <1>2, <1>4, <1>8 DEF LastIn, WorkerHolds, IsCommand, d
  <2> QED BY <1>1, <1>2, <1>4, <1>5, <2>1 DEF QueueAsks, AsksFor, d
<1>10. VoiceFollows'
  <2> SUFFICES ASSUME ~ EngineHolds', ~ QueueHolds', ~ WorkerHolds', m_voice'
               PROVE  started' <=> m_state' = "playing"
    BY DEF VoiceFollows
  <2>1. ~ IsCommand(Queue[1])
    BY <1>2, <1>4 DEF WorkerHolds, IsCommand
  <2>2. ~ QueueHolds
    <3>1. \A i \in 1 .. d : i = 1 \/ i \in 1 + 1 .. d
      BY <1>4
    <3> QED BY <1>8, <2>1, <3>1 DEF QueueHolds, d
  <2> QED BY <1>1, <1>2, <1>5, <2>2 DEF VoiceFollows
<1> QED BY <1>5, <1>7, <1>9, <1>10

LEMMA StateStep ==
  ASSUME TypeOK, TypeOK', RingInv, SendInv, ExitInv, StateInv, Next
  PROVE  StateInv'
<1> SUFFICES ASSUME engine' = "running", ~ failed'
             PROVE  EngineAsks' /\ QueueAsks' /\ WorkerAsks' /\ VoiceFollows'
  BY StateParts
<1>1. engine = "running" /\ (~ failed \/ (onAudioEngineCreate /\ m_state = "playing"))
  <2>1. CASE (\E t \in Thread : sendAction(t)) \/ OnBufferEnd
    BY <2>1 DEF sendAction, TakeSlot, WriteSlot, DropAction, OnBufferEnd, history, TypeOK
  <2>2. CASE Engine \/ join
    <3>1. CASE onAudioEngineCreate \/ onAudioEngineCreateFails
      BY <3>1, Zenon DEF onAudioEngineCreate, Created, onAudioEngineCreateFails, Calls
    <3>2. CASE ~ onAudioEngineCreate /\ ~ onAudioEngineCreateFails
      BY <2>2, <3>2 DEF Engine, join, play, pause, resume, stop, Request, onAudioEngineDestroy,
         Calls, notifyExit, history
    <3> QED BY <3>1, <3>2
  <2>3. CASE Worker
    BY <2>3 DEF Worker, receiveCheck, receiveTimeout, receiveData, on_exit, decode, decodeFails,
       decodeEnd, SubmitSourceBuffer, on_play, on_play_start, on_pause_resume_stop, history
  <2> QED BY <2>1, <2>2, <2>3 DEF Next
<1>2. CASE onAudioEngineCreate
  <2> DEFINE q == SetToSeq({available(b) : b \in Buffer}) \o Resumed
  <2>1. /\ q \in Seq(Action)
        /\ \A i \in 1 .. Len(q) : \/ q[i].type = "buffer_available"
                                  \/ m_state = "playing" /\ q[i].type = "resume"
        /\ m_state = "playing" => Len(q) > 0 /\ q[Len(q)].type = "resume"
    BY CreateToPost
  <2>2. /\ sending' = [sending EXCEPT !["engine"] = q] /\ ~ Sends("engine")
        /\ UNCHANGED <<m_state, worker, action, started>> /\ ~ m_voice
    BY <1>2 DEF onAudioEngineCreate, Created, Calls
  <2>3. UNCHANGED <<Queue, m_semaphore_data>>
    <3>1. Quiet
      BY <1>2 DEF Quiet, Engine
    <3> QED BY <3>1, QueueStays
  <2> HIDE DEF q
  <2>4. sending'["engine"] = q /\ Len(q) \in Nat
    BY <2>1, <2>2, LenProperties DEF TypeOK, Thread
  <2>5. EngineAsks'
    BY <2>1, <2>2, <2>4 DEF EngineAsks, AsksFor, IsCommand, Command
  <2>6. CASE m_state = "playing"
    <3>1. Len(q) \in 1 .. Len(q) /\ IsCommand(q[Len(q)])
      BY <2>1, <2>4, <2>6 DEF IsCommand, Command
    <3>2. EngineHolds'
      BY <2>4, <3>1 DEF EngineHolds, IsCommand
    <3> QED BY <2>5, <3>2 DEF QueueAsks, WorkerAsks, VoiceFollows
  <2>7. CASE m_state # "playing"
    <3>0. EngineAsks /\ QueueAsks /\ WorkerAsks /\ VoiceFollows
      BY <1>1, <2>7, StateParts
    <3>1. ~ started
      BY <2>2 DEF ExitInv
    <3>2. Len(sending["engine"]) = 0
      BY <2>2, EmptySeq DEF Sends
    <3>3. ~ EngineHolds
      BY <3>2 DEF EngineHolds
    <3>4. (QueueHolds' <=> QueueHolds) /\ (WorkerHolds' <=> WorkerHolds)
      BY <2>2, <2>3 DEF QueueHolds, WorkerHolds, IsCommand
    <3>5. QueueAsks'
      BY <2>2, <2>3, <3>0, <3>3 DEF QueueAsks, LastIn, IsCommand, AsksFor
    <3>6. WorkerAsks' /\ VoiceFollows'
      BY <2>2, <2>7, <3>0, <3>1, <3>3, <3>4 DEF WorkerAsks, VoiceFollows, AsksFor
    <3> QED BY <2>5, <3>5, <3>6
  <2> QED BY <2>6, <2>7
<1> SUFFICES ASSUME ~ onAudioEngineCreate
             PROVE  EngineAsks' /\ QueueAsks' /\ WorkerAsks' /\ VoiceFollows'
  BY <1>2
<1>0. EngineAsks /\ QueueAsks /\ WorkerAsks /\ VoiceFollows /\ ~ failed
  BY <1>1, StateParts
<1>3. ASSUME UNCHANGED <<sending["engine"], m_state>>
      PROVE  EngineAsks' /\ (EngineHolds => EngineHolds')
  BY <1>0, <1>3 DEF EngineAsks, EngineHolds, AsksFor, IsCommand
<1>4. ASSUME NEW t \in Thread, TakeSlot(t)
      PROVE  EngineAsks' /\ QueueAsks' /\ WorkerAsks' /\ VoiceFollows'
  <2>1. UNCHANGED <<sending, m_state, worker, action, m_voice, started>>
    BY <1>4 DEF TakeSlot, voiceVars
  <2>2. UNCHANGED <<Queue, m_semaphore_data>>
    BY <1>4, QueueStays DEF Quiet
  <2> QED BY <1>0, <1>3, <2>1, <2>2, StateFrame DEF WorkerHolds, IsCommand
<1>5. ASSUME NEW t \in Thread, WriteSlot(t)
      PROVE  EngineAsks' /\ QueueAsks' /\ WorkerAsks' /\ VoiceFollows'
  BY <1>0, <1>1, <1>5, StateOfWrite
<1>6. ASSUME NEW t \in Thread, DropAction(t)
      PROVE  EngineAsks' /\ QueueAsks' /\ WorkerAsks' /\ VoiceFollows'
  <2>1. UNCHANGED <<m_state, worker, action, m_voice, started>>
    BY <1>6 DEF DropAction, voiceVars
  <2>2. UNCHANGED <<Queue, m_semaphore_data>>
    BY <1>6, QueueStays DEF Quiet
  <2>3. EngineAsks' /\ (EngineHolds => EngineHolds')
    <3>1. CASE t = "engine"
      <4>1. Head(sending[t]) \in Action /\ Head(sending[t]).type = "buffer_available"
        BY <1>6, SomethingToPost DEF DropAction
      <4>2. ~ IsCommand(Head(sending["engine"]))
        BY <3>1, <4>1 DEF IsCommand, Command
      <4> QED BY <1>0, <1>6, <2>1, <3>1, <4>2, EnginePosts DEF DropAction, Posted, TypeOK
    <3>2. CASE t # "engine"
      <4>1. sending'["engine"] = sending["engine"]
        BY <1>6, <3>2 DEF DropAction, Posted, TypeOK, Thread
      <4> QED BY <1>3, <2>1, <4>1
    <3> QED BY <3>1, <3>2
  <2> QED BY <1>0, <2>1, <2>2, <2>3, StateFrame DEF WorkerHolds, IsCommand
<1>7. CASE play \/ pause \/ resume \/ stop
  <2>1. PICK type \in Command :
          /\ sending' = [sending EXCEPT !["engine"] = <<Message(type, 0)>>]
          /\ type \in {"play", "resume"} <=> m_state' = "playing"
    BY <1>7 DEF play, pause, resume, stop, Request, Command
  <2>2. Message(type, 0) \in Action /\ Message(type, 0).type = type
    BY Messages
  <2>3. /\ sending'["engine"] = <<Message(type, 0)>> /\ Len(sending'["engine"]) = 1
        /\ sending'["engine"][1] = Message(type, 0)
    BY <2>1, <2>2, OneToPost DEF TypeOK, Thread
  <2>4. EngineHolds' /\ EngineAsks'
    BY <2>1, <2>2, <2>3 DEF EngineHolds, EngineAsks, IsCommand, AsksFor
  <2> QED BY <2>4 DEF QueueAsks, WorkerAsks, VoiceFollows
<1>8. CASE onAudioEngineDestroy
  <2>1. UNCHANGED <<sending, m_state, worker, action>> /\ ~ m_voice'
    BY <1>8 DEF onAudioEngineDestroy, DestroyVoice, queueVars
  <2>2. UNCHANGED <<Queue, m_semaphore_data>>
    <3>1. Quiet
      BY <1>8 DEF Quiet, Engine
    <3> QED BY <3>1, QueueStays
  <2>3. WorkerHolds' <=> WorkerHolds
    BY <2>1 DEF WorkerHolds, IsCommand
  <2> QED BY <1>0, <1>3, <2>1, <2>2, <2>3, StateFrame
<1>9. CASE onAudioEngineCreateFails
  <2>1. /\ UNCHANGED <<sending, m_state, worker, action, started>>
        /\ m_state # "playing" /\ ~ m_voice
    BY <1>9 DEF onAudioEngineCreateFails, queueVars
  <2>2. UNCHANGED <<Queue, m_semaphore_data>>
    <3>1. Quiet
      BY <1>9 DEF Quiet, Engine
    <3> QED BY <3>1, QueueStays
  <2>3. ~ started
    BY <2>1 DEF ExitInv
  <2>4. /\ EngineHolds' <=> EngineHolds
        /\ QueueHolds' <=> QueueHolds
        /\ WorkerHolds' <=> WorkerHolds
    BY <2>1, <2>2 DEF EngineHolds, QueueHolds, WorkerHolds, IsCommand
  <2>5. EngineAsks' /\ QueueAsks'
    BY <1>0, <1>3, <2>1, <2>2, <2>4 DEF QueueAsks, LastIn, IsCommand, AsksFor
  <2>6. WorkerAsks' /\ VoiceFollows'
    BY <1>0, <2>1, <2>3, <2>4 DEF WorkerAsks, VoiceFollows, AsksFor
  <2> QED BY <2>5, <2>6
<1>10. ~ notifyExit /\ ~ join /\ ~ on_exit
  BY <1>1 DEF notifyExit, join, on_exit, ExitInv
<1>11. CASE OnBufferEnd
  <2>1. UNCHANGED <<sending["engine"], m_state, worker, action, m_voice, started>>
    BY <1>11 DEF OnBufferEnd, TypeOK, Thread
  <2>2. UNCHANGED <<Queue, m_semaphore_data>>
    <3>1. Quiet
      BY <1>11 DEF Quiet
    <3> QED BY <3>1, QueueStays
  <2> QED BY <1>0, <1>3, <2>1, <2>2, StateFrame DEF WorkerHolds, IsCommand
<1>12. CASE receiveData
  BY <1>0, <1>1, <1>12, StateOfReceive
<1>13. CASE Worker /\ ~ receiveData
  <2>1. UNCHANGED <<sending["engine"], m_state, m_voice>>
    BY <1>13 DEF Worker, receiveCheck, receiveTimeout, on_exit, decode, decodeFails, decodeEnd,
       SubmitSourceBuffer, on_play, on_play_start, on_pause_resume_stop, queueVars, voiceVars,
       TypeOK, Thread
  <2>2. UNCHANGED <<Queue, m_semaphore_data>>
    BY <1>13, QueueStays DEF Quiet
  <2>3. CASE receiveCheck \/ receiveTimeout \/ decode \/ decodeFails \/ decodeEnd
              \/ SubmitSourceBuffer
    <3>1. ~ WorkerHolds /\ ~ WorkerHolds' /\ started' = started
      BY <2>3, Messages DEF receiveCheck, receiveTimeout, decode, decodeFails, decodeEnd,
         SubmitSourceBuffer, Idle, Handles, WorkerHolds, IsCommand, Command, voiceVars
    <3>2. m_voice' = m_voice /\ m_voice \in BOOLEAN
      BY <2>1 DEF TypeOK
    <3>3. ~ m_voice' \/ (m_voice /\ started' = started)
      BY <3>1, <3>2
    <3>4. EngineAsks' /\ (EngineHolds => EngineHolds')
      BY <1>3, <2>1
    <3> QED BY <1>0, <2>1, <2>2, <3>1, <3>3, <3>4, StateFrame
  <2>4. CASE on_play
    <3>1. WorkerHolds /\ WorkerHolds' /\ action' = action
      BY <2>4 DEF on_play, Idle, Handles, WorkerHolds, IsCommand, Command
    <3> QED BY <1>0, <1>3, <2>1, <2>2, <3>1, StateFrame
  <2>5. CASE on_play_start \/ on_pause_resume_stop
    <3>1. WorkerHolds /\ ~ WorkerHolds'
      BY <2>5 DEF on_play_start, on_pause_resume_stop, Idle, WorkerHolds, IsCommand, Command, ExitInv
    <3>2. AsksFor(action) /\ m_voice' => (started' <=> m_state = "playing")
      BY <2>1, <2>5 DEF on_play_start, on_pause_resume_stop, AsksFor, ExitInv
    <3> QED BY <1>0, <1>3, <2>1, <2>2, <3>1, <3>2, StateFrame
  <2> QED BY <1>10, <1>13, <2>3, <2>4, <2>5 DEF Worker
<1> QED BY <1>4, <1>5, <1>6, <1>7, <1>8, <1>9, <1>10, <1>11, <1>12, <1>13
    DEF Next, sendAction, Engine

LEMMA StepIInv ==
  ASSUME IInv, Overlap = FALSE, [Next]_vars
  PROVE  IInv'
<1>1. CASE Next
  <2>1. TypeOK'
    BY <1>1, TypeStep DEF IInv
  <2> QED BY <1>1, <2>1, RingStep, SendStep, ExitStep, StateStep DEF IInv
<1>2. CASE UNCHANGED vars
  <2>1. UNCHANGED <<m_data, m_writer_index, m_reader_index, m_semaphore_space, m_semaphore_data,
                    sending, slot, m_event_exit, m_state, engine, m_voice, started, submitted,
                    flushed, worker, action, lost, failed>>
    BY <1>2 DEF vars, queueVars, voiceVars, history
  <2>2. Queue' = Queue
    BY <2>1 DEF Queue
  <2>3. TypeOK' /\ RingInv' /\ SendInv' /\ ExitInv'
    BY <2>1, <2>2 DEF IInv, TypeOK, RingInv, NoneTaken, Taken, Behind, SendInv, Sends,
       IsCommand, ExitInv, Handles
  <2>4. StateInv'
    BY <2>1, <2>2 DEF IInv, StateInv, EngineHolds, QueueHolds, WorkerHolds, LastIn, AsksFor,
       IsCommand
  <2> QED BY <2>3, <2>4 DEF IInv
<1> QED BY <1>1, <1>2

------------------------------------------------------------------------------
(* Where a buffer is.                                                      *)

AtVoice(b) == Count(b, submitted)
InQueue(b) == Count(available(b), Queue)
AtThread(b, t) == Count(available(b), sending[t])
AtWorker(b) == IF worker \in {"handle", "submit"} /\ action = available(b) THEN 1 ELSE 0

LEMMA PlacesAre ==
  ASSUME TypeOK, TypeOK', NEW b \in Buffer
  PROVE  /\ Places(b) = AtVoice(b) + InQueue(b) + AtThread(b, "engine") + AtThread(b, "voice")
                        + AtThread(b, "worker") + AtWorker(b)
         /\ AtVoice(b) \in Nat /\ InQueue(b) \in Nat /\ AtWorker(b) \in Nat
         /\ \A t \in Thread : AtThread(b, t) \in Nat
         /\ Places(b)' = AtVoice(b)' + InQueue(b)' + AtThread(b, "engine")'
                         + AtThread(b, "voice")' + AtThread(b, "worker")' + AtWorker(b)'
         /\ AtVoice(b)' \in Nat /\ InQueue(b)' \in Nat /\ AtWorker(b)' \in Nat
         /\ \A t \in Thread : AtThread(b, t)' \in Nat
<1>1. /\ submitted \in Seq(Buffer) /\ submitted' \in Seq(Buffer)
      /\ \A t \in Thread : sending[t] \in Seq(Action) /\ sending'[t] \in Seq(Action)
  BY DEF TypeOK
<1>2. Queue \in Seq(Action) /\ Queue' \in Seq(Action)
  BY QueueIs, QueueIsNext DEF TypeOK, QueueType
<1>3. \A a, S : \A q \in Seq(S) : Count(a, q) \in Nat
  BY CountIs
<1>4. /\ AtVoice(b) \in Nat /\ InQueue(b) \in Nat
      /\ AtVoice(b)' \in Nat /\ InQueue(b)' \in Nat
      /\ \A t \in Thread : AtThread(b, t) \in Nat /\ AtThread(b, t)' \in Nat
  BY <1>1, <1>2, <1>3 DEF AtVoice, InQueue, AtThread, Count, available, Message
<1>5. AtWorker(b) \in Nat /\ AtWorker(b)' \in Nat
  BY DEF AtWorker
<1>6. Places(b) = AtVoice(b) + InQueue(b) + AtThread(b, "engine") + AtThread(b, "voice")
                  + AtThread(b, "worker") + AtWorker(b)
  BY DEF Places, AtVoice, InQueue, AtThread, AtWorker
<1>7. Places(b)' = AtVoice(b)' + InQueue(b)' + AtThread(b, "engine")'
                   + AtThread(b, "voice")' + AtThread(b, "worker")' + AtWorker(b)'
  BY DEF Places, AtVoice, InQueue, AtThread, AtWorker
<1> QED BY <1>4, <1>5, <1>6, <1>7

\* A thread has got rid of its next message.
LEMMA HeadPosted ==
  ASSUME TypeOK, NEW t \in Thread, Sends(t), sending' = [sending EXCEPT ![t] = Tail(@)],
         NEW b \in Buffer
  PROVE  /\ AtThread(b, t) = AtThread(b, t)' + IF Head(sending[t]) = available(b) THEN 1 ELSE 0
         /\ \A u \in Thread \ {t} : AtThread(b, u)' = AtThread(b, u)
<1>1. sending[t] \in Seq(Action) /\ sending[t] # << >>
  BY DEF TypeOK, Sends
<1>2. Count(available(b), sending[t])
        = Count(available(b), Tail(sending[t])) + IF Head(sending[t]) = available(b) THEN 1 ELSE 0
  BY <1>1, CountTail
<1>3. sending'[t] = Tail(sending[t]) /\ \A u \in Thread \ {t} : sending'[u] = sending[u]
  BY DEF TypeOK
<1> QED BY <1>2, <1>3 DEF AtThread, Count, available, Message

\* A thread has got a message to post.
LEMMA MessageToPost ==
  ASSUME TypeOK, NEW t \in Thread, ~ Sends(t), NEW a \in Action,
         sending' = [sending EXCEPT ![t] = <<a>>], NEW b \in Buffer
  PROVE  /\ AtThread(b, t) = 0 /\ AtThread(b, t)' = IF a = available(b) THEN 1 ELSE 0
         /\ \A u \in Thread \ {t} : AtThread(b, u)' = AtThread(b, u)
<1>1. sending[t] = << >> /\ sending'[t] = <<a>> /\ \A u \in Thread \ {t} : sending'[u] = sending[u]
  BY DEF TypeOK, Sends
<1>2. Count(available(b), << >>) = 0 /\ Count(available(b), <<a>>) = IF a = available(b) THEN 1 ELSE 0
  BY CountShort
<1> QED BY <1>1, <1>2 DEF AtThread, Count, available, Message

LEMMA ThreadsStay ==
  ASSUME sending' = sending, NEW b, NEW t PROVE AtThread(b, t)' = AtThread(b, t)
BY DEF AtThread, Count, available, Message

LEMMA QueueKeeps ==
  ASSUME Queue' = Queue, NEW b PROVE InQueue(b)' = InQueue(b)
BY DEF InQueue, Count, available, Message

LEMMA VoiceKeeps ==
  ASSUME submitted' = submitted, NEW b PROVE AtVoice(b)' = AtVoice(b)
BY DEF AtVoice, Count

\* A step takes a buffer from one place to another, or loses it.
Moved(b) == Places(b)' = Places(b) /\ (b \in lost' <=> b \in lost)
Lost(b) == Places(b)' = Places(b) - 1 /\ b \in lost'

LEMMA WriteMoves ==
  ASSUME TypeOK, TypeOK', RingInv, NEW b \in Buffer, NEW t \in Thread, WriteSlot(t)
  PROVE  Moved(b)
<1> DEFINE one == IF Head(sending[t]) = available(b) THEN 1 ELSE 0
<1>1. Sends(t) /\ Queue' = Append(Queue, Head(sending[t]))
  BY QueueAppends DEF TypeOK, QueueType
<1>2. Head(sending[t]) \in Action
  BY <1>1, SomethingToPost
<1>3. AtThread(b, t) = AtThread(b, t)' + one /\ \A u \in Thread \ {t} : AtThread(b, u)' = AtThread(b, u)
  BY <1>1, HeadPosted DEF WriteSlot, Posted
<1>4. InQueue(b)' = InQueue(b) + one
  <2>1. Queue \in Seq(Action)
    BY QueueIs DEF TypeOK, QueueType
  <2>2. Count(available(b), Append(Queue, Head(sending[t]))) = Count(available(b), Queue) + one
    BY <1>2, <2>1, CountAppend
  <2> QED BY <1>1, <2>2 DEF InQueue, Count, available, Message
<1>5. AtVoice(b)' = AtVoice(b) /\ AtWorker(b)' = AtWorker(b) /\ lost' = lost
  BY VoiceKeeps DEF WriteSlot, voiceVars, AtWorker, history, available, Message
<1>6. one \in Nat
  OBVIOUS
<1> HIDE DEF one
<1>7. Thread = {"engine", "voice", "worker"}
  BY DEF Thread
<1> QED BY <1>3, <1>4, <1>5, <1>6, <1>7, PlacesAre DEF Moved

LEMMA DropLoses ==
  ASSUME TypeOK, TypeOK', NEW b \in Buffer, NEW t \in Thread, DropAction(t)
  PROVE  Moved(b) \/ Lost(b)
<1> DEFINE v == Head(sending[t])
           one == IF v = available(b) THEN 1 ELSE 0
<1>1. Sends(t) /\ v \in Action
  BY SomethingToPost DEF DropAction
<1>2. AtThread(b, t) = AtThread(b, t)' + one /\ \A u \in Thread \ {t} : AtThread(b, u)' = AtThread(b, u)
  BY <1>1, HeadPosted DEF DropAction, Posted
<1>3. Queue' = Queue
  BY QueueStays DEF Quiet
<1>4. AtVoice(b)' = AtVoice(b) /\ AtWorker(b)' = AtWorker(b) /\ InQueue(b)' = InQueue(b)
  BY <1>3, VoiceKeeps, QueueKeeps DEF DropAction, voiceVars, AtWorker, available, Message
<1>5. IF v = available(b) THEN b \in lost' ELSE (b \in lost' <=> b \in lost)
  <2>1. CASE v.type = "buffer_available"
    <3>1. v = available(v.buffer_available_index) /\ lost' = lost \cup {v.buffer_available_index}
      BY <1>1, <2>1, Messages DEF DropAction
    <3>2. available(b).buffer_available_index = b
      BY Messages
    <3> HIDE DEF v
    <3>3. v = available(b) <=> v.buffer_available_index = b
      BY <3>1, <3>2
    <3> QED BY <3>1, <3>3
  <2>2. CASE v.type # "buffer_available"
    <3>1. v # available(b)
      BY <2>2, Messages
    <3>2. lost' = lost
      BY <2>2 DEF DropAction
    <3> QED BY <3>1, <3>2
  <2> QED BY <2>1, <2>2
<1>6. IF v = available(b) THEN one = 1 ELSE one = 0
  OBVIOUS
<1> HIDE DEF one, v
<1>7. Thread = {"engine", "voice", "worker"}
  BY DEF Thread
<1> QED BY <1>2, <1>4, <1>5, <1>6, <1>7, PlacesAre DEF Moved, Lost

LEMMA WorkerMoves ==
  ASSUME TypeOK, TypeOK', SendInv, ExitInv, NEW b \in Buffer, Worker,
         m_voice \/ Places(b) = 0
  PROVE  Moved(b) \/ Lost(b)
<1>1. /\ Places(b) = AtVoice(b) + InQueue(b) + AtThread(b, "engine") + AtThread(b, "voice")
                     + AtThread(b, "worker") + AtWorker(b)
      /\ Places(b)' = AtVoice(b)' + InQueue(b)' + AtThread(b, "engine")'
                      + AtThread(b, "voice")' + AtThread(b, "worker")' + AtWorker(b)'
      /\ {AtVoice(b), InQueue(b), AtWorker(b), AtThread(b, "engine"), AtThread(b, "voice"),
          AtThread(b, "worker"), AtVoice(b)', InQueue(b)', AtWorker(b)', AtThread(b, "engine")',
          AtThread(b, "voice")', AtThread(b, "worker")'} \subseteq Nat
  BY PlacesAre DEF Thread
<1>2. /\ available(b) \in Action /\ available(b).type = "buffer_available"
      /\ available(b).buffer_available_index = b /\ NoAction.type = "exit"
  BY Messages
<1>3. CASE receiveCheck \/ receiveTimeout \/ on_exit \/ decode \/ on_play \/ on_play_start
           \/ on_pause_resume_stop
  <2>1. sending' = sending /\ submitted' = submitted /\ lost' = lost
    BY <1>3 DEF receiveCheck, receiveTimeout, on_exit, decode, on_play, on_play_start,
       on_pause_resume_stop, queueVars, voiceVars, history
  <2>2. Queue' = Queue
    BY <1>3, QueueStays DEF Quiet, Worker, receiveData, receiveCheck, receiveTimeout, on_exit,
       decode, on_play, on_play_start, on_pause_resume_stop, Handles
  <2>3. AtWorker(b)' = AtWorker(b)
    <3>1. available(b)' = available(b)
      BY DEF available, Message
    <3> QED BY <1>2, <1>3, <3>1 DEF receiveCheck, receiveTimeout, on_exit, decode, on_play,
       on_play_start, on_pause_resume_stop, Idle, Handles, AtWorker, ExitInv
  <2> QED BY <1>1, <2>1, <2>2, <2>3, ThreadsStay, QueueKeeps, VoiceKeeps DEF Moved
<1>4. CASE receiveData
  <2>1. /\ sending' = sending /\ submitted' = submitted /\ lost' = lost
        /\ worker = "wait" /\ worker' = "handle"
    BY <1>4 DEF receiveData, voiceVars, history
  <2>2. Queue # << >> /\ action' = Head(Queue) /\ Queue' = Tail(Queue) /\ Queue \in Seq(Action)
    BY <1>4, QueueShifts, QueueIs DEF TypeOK, QueueType
  <2>3. Count(available(b), Queue)
          = Count(available(b), Tail(Queue)) + IF Head(Queue) = available(b) THEN 1 ELSE 0
    BY <2>2, CountTail
  <2>4. InQueue(b) = InQueue(b)' + IF action' = available(b) THEN 1 ELSE 0
    BY <2>2, <2>3 DEF InQueue, Count, available, Message
  <2>5. AtWorker(b) = 0 /\ AtWorker(b)' = IF action' = available(b) THEN 1 ELSE 0
    BY <2>1 DEF AtWorker, available, Message
  <2>6. \A t \in Thread : AtThread(b, t)' = AtThread(b, t)
    BY <2>1, ThreadsStay
  <2>7. AtVoice(b)' = AtVoice(b)
    BY <2>1, VoiceKeeps
  <2>8. AtWorker(b)' + InQueue(b)' = InQueue(b)
    BY <1>1, <2>4, <2>5
  <2> QED BY <1>1, <2>1, <2>5, <2>6, <2>7, <2>8 DEF Moved, Thread
<1>5. CASE decodeFails \/ decodeEnd \/ SubmitSourceBuffer
  <2> DEFINE one == IF action = available(b) THEN 1 ELSE 0
  <2>1. /\ action.type = "buffer_available" /\ action \in Action
        /\ worker \in {"handle", "submit"} /\ worker' = "check"
    BY <1>5 DEF decodeFails, decodeEnd, SubmitSourceBuffer, Handles, Idle, ExitInv, TypeOK
  <2>2. AtWorker(b) = one /\ AtWorker(b)' = 0
    BY <2>1 DEF AtWorker
  <2>3. InQueue(b)' = InQueue(b)
    <3>1. Queue' = Queue
      BY <1>5, <2>1, QueueStays DEF Quiet, Worker, receiveData, decodeFails, decodeEnd,
         SubmitSourceBuffer, Handles
    <3> QED BY <3>1, QueueKeeps
  <2>4. /\ action.buffer_available_index \in Buffer
        /\ action = available(b) <=> action.buffer_available_index = b
    BY <1>2, <2>1, Messages
  <2>5. one \in Nat
    OBVIOUS
  <2>6. IF action = available(b) THEN one = 1 ELSE one = 0
    OBVIOUS
  <2> HIDE DEF one
  <2>7. CASE decodeFails
    <3>1. /\ sending' = sending /\ submitted' = submitted
          /\ lost' = lost \cup {action.buffer_available_index}
      BY <2>7 DEF decodeFails, queueVars, voiceVars
    <3>2. /\ \A t \in Thread : AtThread(b, t)' = AtThread(b, t)
          /\ AtVoice(b)' = AtVoice(b)
      BY <3>1, ThreadsStay, VoiceKeeps
    <3>3. Places(b)' = Places(b) - one
      BY <1>1, <2>2, <2>3, <2>5, <3>2 DEF Thread
    <3> QED BY <1>1, <2>4, <2>6, <3>1, <3>3 DEF Moved, Lost
  <2>8. CASE decodeEnd
    <3>1. /\ sending' = [sending EXCEPT !["worker"] = <<action>>] /\ ~ Sends("worker")
          /\ submitted' = submitted /\ lost' = lost
      BY <2>1, <2>8 DEF decodeEnd, voiceVars, history, SendInv
    <3>2. /\ AtThread(b, "worker") = 0 /\ AtThread(b, "worker")' = one
          /\ \A u \in Thread \ {"worker"} : AtThread(b, u)' = AtThread(b, u)
      BY <2>1, <3>1, MessageToPost DEF Thread, one
    <3>3. AtVoice(b)' = AtVoice(b)
      BY <3>1, VoiceKeeps
    <3> QED BY <1>1, <2>2, <2>3, <2>5, <3>1, <3>2, <3>3 DEF Thread, Moved
  <2>9. CASE SubmitSourceBuffer /\ ~ m_voice
    <3>1. sending' = sending /\ lost' = lost /\ submitted' = submitted
      BY <2>9 DEF SubmitSourceBuffer, queueVars, history
    <3>2. one = 0
      BY <1>1, <2>2, <2>9
    <3>3. AtVoice(b)' = AtVoice(b) /\ \A t \in Thread : AtThread(b, t)' = AtThread(b, t)
      BY <3>1, ThreadsStay, VoiceKeeps
    <3> QED BY <1>1, <2>2, <2>3, <3>1, <3>2, <3>3 DEF Thread, Moved
  <2>10. CASE SubmitSourceBuffer /\ m_voice
    <3>1. /\ sending' = sending /\ lost' = lost
          /\ submitted' = Append(submitted, action.buffer_available_index)
      BY <2>10 DEF SubmitSourceBuffer, queueVars, history
    <3>2. Count(b, Append(submitted, action.buffer_available_index))
            = Count(b, submitted) + IF action.buffer_available_index = b THEN 1 ELSE 0
      BY <2>4, CountAppend DEF TypeOK
    <3>3. AtVoice(b)' = AtVoice(b) + one
      BY <2>4, <3>1, <3>2 DEF AtVoice, Count, one
    <3>4. \A t \in Thread : AtThread(b, t)' = AtThread(b, t)
      BY <3>1, ThreadsStay
    <3> QED BY <1>1, <2>2, <2>3, <2>5, <3>1, <3>3, <3>4 DEF Thread, Moved
  <2> QED BY <1>5, <2>7, <2>8, <2>9, <2>10
<1> QED BY <1>3, <1>4, <1>5 DEF Worker

\* The other two threads, and a slot that is taken.
LEMMA OthersMove ==
  ASSUME TypeOK, TypeOK', NEW b \in Buffer,
         \/ \E t \in Thread : TakeSlot(t)
         \/ play \/ pause \/ resume \/ stop \/ notifyExit \/ OnBufferEnd
  PROVE  Moved(b)
<1>1. /\ Places(b) = AtVoice(b) + InQueue(b) + AtThread(b, "engine") + AtThread(b, "voice")
                     + AtThread(b, "worker") + AtWorker(b)
      /\ Places(b)' = AtVoice(b)' + InQueue(b)' + AtThread(b, "engine")'
                      + AtThread(b, "voice")' + AtThread(b, "worker")' + AtWorker(b)'
      /\ {AtVoice(b), InQueue(b), AtWorker(b), AtThread(b, "engine"), AtThread(b, "voice"),
          AtThread(b, "worker"), AtVoice(b)', InQueue(b)', AtWorker(b)', AtThread(b, "engine")',
          AtThread(b, "voice")', AtThread(b, "worker")'} \subseteq Nat
  BY PlacesAre DEF Thread
<1>2. Queue' = Queue /\ lost' = lost /\ worker' = worker /\ action' = action
  <2>1. Quiet
    BY DEF Quiet, Engine
  <2>2. UNCHANGED <<lost, worker, action>>
    BY DEF TakeSlot, play, pause, resume, stop, Request, notifyExit, OnBufferEnd, history
  <2> QED BY <2>1, <2>2, QueueStays
<1>3. InQueue(b)' = InQueue(b) /\ AtWorker(b)' = AtWorker(b)
  BY <1>2, QueueKeeps DEF AtWorker, available, Message
<1>4. CASE (\E t \in Thread : TakeSlot(t)) \/ notifyExit
  <2>1. sending' = sending /\ submitted' = submitted
    BY <1>4 DEF TakeSlot, notifyExit, queueVars, voiceVars
  <2>2. AtVoice(b)' = AtVoice(b) /\ \A t \in Thread : AtThread(b, t)' = AtThread(b, t)
    BY <2>1, VoiceKeeps, ThreadsStay
  <2> QED BY <1>1, <1>2, <1>3, <2>2 DEF Moved, Thread
<1>5. CASE play \/ pause \/ resume \/ stop
  <2>1. PICK type \in Command :
          sending' = [sending EXCEPT !["engine"] = <<Message(type, 0)>>] /\ ~ Sends("engine")
    BY <1>5 DEF play, pause, resume, stop, Request, Calls, Command
  <2>2. Message(type, 0) \in Action /\ Message(type, 0) # available(b)
    BY Messages DEF Command
  <2>3. /\ AtThread(b, "engine") = 0 /\ AtThread(b, "engine")' = 0
        /\ \A u \in Thread \ {"engine"} : AtThread(b, u)' = AtThread(b, u)
    BY <2>1, <2>2, MessageToPost DEF Thread
  <2>4. AtVoice(b)' = AtVoice(b)
    BY <1>5, VoiceKeeps DEF play, pause, resume, stop, Request, voiceVars
  <2> QED BY <1>1, <1>2, <1>3, <2>3, <2>4 DEF Moved, Thread
<1>6. CASE OnBufferEnd
  <2>1. /\ ~ Sends("voice") /\ submitted # << >> /\ submitted' = Tail(submitted)
        /\ sending' = [sending EXCEPT !["voice"] = <<available(Head(submitted))>>]
    BY <1>6 DEF OnBufferEnd
  <2>2. submitted \in Seq(Buffer) /\ Head(submitted) \in Buffer
    BY <2>1, HeadTailProperties DEF TypeOK
  <2>3. /\ available(Head(submitted)) \in Action
        /\ available(Head(submitted)) = available(b) <=> Head(submitted) = b
    BY <2>2, Messages
  <2>4. /\ AtThread(b, "voice") = 0
        /\ AtThread(b, "voice")' = IF Head(submitted) = b THEN 1 ELSE 0
        /\ \A u \in Thread \ {"voice"} : AtThread(b, u)' = AtThread(b, u)
    BY <2>1, <2>3, MessageToPost DEF Thread
  <2>5. Count(b, submitted) = Count(b, Tail(submitted)) + IF Head(submitted) = b THEN 1 ELSE 0
    BY <2>1, <2>2, CountTail
  <2>6. AtVoice(b) = AtVoice(b)' + AtThread(b, "voice")'
    BY <2>1, <2>4, <2>5 DEF AtVoice, Count
  <2> QED BY <1>1, <1>2, <1>3, <2>4, <2>6 DEF Moved, Thread
<1> QED BY <1>4, <1>5, <1>6

\* Every step but those that make or destroy a voice.
LEMMA BuffersMove ==
  ASSUME IInv, IInv', Next, NEW b \in Buffer, m_voice \/ Places(b) = 0
  PROVE  \/ Moved(b) \/ Lost(b)
         \/ join \/ onAudioEngineDestroy \/ onAudioEngineCreate \/ onAudioEngineCreateFails
<1>1. TypeOK /\ TypeOK' /\ RingInv /\ SendInv /\ ExitInv
  BY DEF IInv
<1>2. CASE \E t \in Thread : sendAction(t)
  BY <1>1, <1>2, OthersMove, WriteMoves, DropLoses DEF sendAction
<1>3. CASE play \/ pause \/ resume \/ stop \/ notifyExit \/ OnBufferEnd
  BY <1>1, <1>3, OthersMove
<1>4. CASE Worker
  BY <1>1, <1>4, WorkerMoves
<1> QED BY <1>2, <1>3, <1>4 DEF Next, Engine

------------------------------------------------------------------------------
(* The theorems.                                                           *)

LEMMA FollowsAndExits == IInv => StateFollowsVoice /\ ExitOnlyWhenNotified
<1> SUFFICES ASSUME IInv PROVE StateFollowsVoice /\ ExitOnlyWhenNotified
  OBVIOUS
<1>1. ExitOnlyWhenNotified
  BY DEF IInv, ExitInv, ExitOnlyWhenNotified
<1>2. StateFollowsVoice
  <2> SUFFICES ASSUME engine = "running", m_voice, ~ failed, worker \in {"check", "wait"},
                      m_semaphore_data = 0, \A t \in Thread : ~ Sends(t)
               PROVE  started <=> m_state = "playing"
    BY DEF StateFollowsVoice
  <2>1. sending["engine"] = << >>
    BY DEF Sends, Thread
  <2>2. ~ EngineHolds
    BY <2>1, EmptySeq DEF EngineHolds
  <2>3. ~ QueueHolds /\ ~ WorkerHolds
    BY DEF QueueHolds, WorkerHolds
  <2> QED BY <2>2, <2>3 DEF IInv, StateInv
<1> QED BY <1>1, <1>2

\* Where the buffers are while nobody resets the audio engine: without a voice
\* they are nowhere.
OwnedInv == BufferOwned /\ (engine # "gone" => m_voice \/ lost = Buffer)

LEMMA InitPlaces ==
  ASSUME Init, NEW b \in Buffer PROVE Places(b) = IF b \in lost THEN 0 ELSE 1
<1>1. TypeOK
  BY InitIInv DEF IInv
<1>2. AtVoice(b) = 0
  BY CountShort DEF Init, AtVoice
<1>3. InQueue(b) = 0
  <2>1. QueueType /\ m_semaphore_data = 0
    BY <1>1 DEF TypeOK, QueueType, Init
  <2>2. Queue \in Seq(Action) /\ Len(Queue) = 0
    BY <2>1, QueueIs
  <2>3. \A i \in 1 .. Len(Queue) : Queue[i] # available(b)
    BY <2>2
  <2> QED BY <2>2, <2>3, CountIs DEF InQueue
<1>4. /\ AtThread(b, "engine") = IF b \in lost THEN 0 ELSE 1
      /\ AtThread(b, "voice") = 0 /\ AtThread(b, "worker") = 0
  BY BuffersToPost, CountShort DEF Init, AtThread, Thread
<1>5. AtWorker(b) = 0
  BY DEF Init, AtWorker
<1> QED BY <1>2, <1>3, <1>4, <1>5 DEF Places, AtVoice, InQueue, AtThread, AtWorker

LEMMA OwnedStep ==
  ASSUME IInv, IInv', OwnedInv, [Next]_vars, "reset" \notin EngineOps
  PROVE  OwnedInv'
<1>1. CASE Next
  <2> SUFFICES ASSUME engine' # "gone"
               PROVE  /\ m_voice' \/ lost' = Buffer
                      /\ \A b \in Buffer : Places(b)' = IF b \in lost' THEN 0 ELSE 1
    BY DEF OwnedInv, BufferOwned
  <2>1. /\ engine # "gone" /\ m_voice' = m_voice
        /\ ~ join /\ ~ onAudioEngineDestroy /\ ~ onAudioEngineCreate /\ ~ onAudioEngineCreateFails
    <3>1. ~ join /\ ~ onAudioEngineDestroy /\ ~ onAudioEngineCreate /\ ~ onAudioEngineCreateFails
      BY DEF join, onAudioEngineDestroy, onAudioEngineCreate, Created, onAudioEngineCreateFails, Calls
    <3>2. CASE (\E t \in Thread : sendAction(t)) \/ OnBufferEnd
      BY <3>1, <3>2 DEF sendAction, TakeSlot, WriteSlot, DropAction, OnBufferEnd, voiceVars
    <3>3. CASE Engine
      BY <3>1, <3>3 DEF Engine, play, pause, resume, stop, Request, notifyExit, Calls, voiceVars
    <3>4. CASE Worker
      BY <3>1, <3>4 DEF Worker, receiveCheck, receiveTimeout, receiveData, on_exit, decode, decodeFails,
         decodeEnd, SubmitSourceBuffer, on_play, on_play_start, on_pause_resume_stop, voiceVars
    <3> QED BY <1>1, <3>1, <3>2, <3>3, <3>4 DEF Next
  <2>2. /\ m_voice \/ lost = Buffer
        /\ \A b \in Buffer : Places(b) = IF b \in lost THEN 0 ELSE 1
    BY <2>1 DEF OwnedInv, BufferOwned
  <2>3. ASSUME NEW b \in Buffer PROVE Places(b)' = IF b \in lost' THEN 0 ELSE 1
    <3>1. Moved(b) \/ Lost(b)
      BY <1>1, <2>1, <2>2, BuffersMove
    <3>2. Places(b)' \in Nat
      BY PlacesAre DEF IInv, Thread
    <3> QED BY <2>2, <3>1, <3>2 DEF Moved, Lost
  <2>4. m_voice' \/ lost' = Buffer
    <3>1. \A b \in Buffer : b \in lost => b \in lost'
      BY <1>1, <2>1, <2>2, BuffersMove DEF Moved, Lost
    <3> QED BY <2>1, <2>2, <3>1 DEF IInv, TypeOK
  <2> QED BY <2>3, <2>4
<1>2. CASE UNCHANGED vars
  <2>1. UNCHANGED <<m_data, m_reader_index, m_semaphore_data, sending, engine, m_voice, submitted,
                    worker, action, lost>>
    BY <1>2 DEF vars, queueVars, voiceVars, history
  <2>2. Queue' = Queue
    BY <2>1 DEF Queue
  <2>3. \A b \in Buffer : Places(b)' = Places(b)
    BY <2>1, <2>2 DEF Places, Count, available, Message
  <2> QED BY <2>1, <2>3 DEF OwnedInv, BufferOwned
<1> QED BY <1>1, <1>2

LEMMA KeptStep ==
  ASSUME IInv, IInv', BufferKept, [Next]_vars
  PROVE  BufferKept'
<1>1. CASE Next
  <2> SUFFICES ASSUME engine' = "running", m_voice', NEW b \in Buffer
               PROVE  Places(b)' > 0 \/ b \in lost'
    BY DEF BufferKept
  <2>1. CASE onAudioEngineCreate
    <3> DEFINE q == SetToSeq({available(c) : c \in Buffer}) \o Resumed
    <3>1. Count(available(b), q) = 1
      BY CreateToPost
    <3>2. sending' = [sending EXCEPT !["engine"] = q]
      BY <2>1 DEF onAudioEngineCreate, Created
    <3> HIDE DEF q
    <3>3. sending'["engine"] = q
      BY <3>2 DEF IInv, TypeOK, Thread
    <3>4. AtThread(b, "engine")' = 1
      BY <3>1, <3>3 DEF AtThread, Count, available, Message
    <3>5. TypeOK /\ TypeOK'
      BY DEF IInv
    <3> QED BY <3>4, <3>5, PlacesAre DEF Thread
  <2>2. CASE onAudioEngineCreateFails
    <3>1. Quiet
      BY <2>2 DEF Quiet, Engine
    <3>2. UNCHANGED <<sending, submitted, worker, action>>
      BY <2>2 DEF onAudioEngineCreateFails, queueVars
    <3>3. Places(b)' = Places(b)
      BY <3>1, <3>2, QueueStays DEF Places, Count, available, Message
    <3>4. Places(b) = 0 => b \in lost'
      BY <2>2 DEF onAudioEngineCreateFails
    <3>5. Places(b) \in Nat
      BY PlacesAre DEF IInv, Thread
    <3> QED BY <3>3, <3>4, <3>5
  <2>3. CASE ~ onAudioEngineCreate /\ ~ onAudioEngineCreateFails
    <3>1. ~ join /\ ~ onAudioEngineDestroy
      BY DEF join, onAudioEngineDestroy, DestroyVoice
    <3>2. engine = "running" /\ m_voice
      <4>1. CASE (\E t \in Thread : sendAction(t)) \/ OnBufferEnd
        BY <4>1 DEF sendAction, TakeSlot, WriteSlot, DropAction, OnBufferEnd, voiceVars
      <4>2. CASE Engine
        BY <2>3, <3>1, <4>2 DEF Engine, play, pause, resume, stop, Request, notifyExit, Calls, voiceVars
      <4>3. CASE Worker
        BY <4>3 DEF Worker, receiveCheck, receiveTimeout, receiveData, on_exit, decode, decodeFails,
           decodeEnd, SubmitSourceBuffer, on_play, on_play_start, on_pause_resume_stop, voiceVars
      <4> QED BY <1>1, <3>1, <4>1, <4>2, <4>3 DEF Next
    <3>3. Moved(b) \/ Lost(b)
      BY <1>1, <2>3, <3>1, <3>2, BuffersMove
    <3>4. Places(b) > 0 \/ b \in lost
      BY <3>2 DEF BufferKept
    <3> QED BY <3>3, <3>4 DEF Moved, Lost
  <2> QED BY <2>1, <2>2, <2>3
<1>2. CASE UNCHANGED vars
  <2>1. UNCHANGED <<m_data, m_reader_index, m_semaphore_data, sending, engine, m_voice, submitted,
                    worker, action, lost>>
    BY <1>2 DEF vars, queueVars, voiceVars, history
  <2>2. Queue' = Queue
    BY <2>1 DEF Queue
  <2>3. \A b \in Buffer : Places(b)' = Places(b)
    BY <2>1, <2>2 DEF Places, Count, available, Message
  <2> QED BY <2>1, <2>3 DEF BufferKept
<1> QED BY <1>1, <1>2

LEMMA IInvHolds == ASSUME Overlap = FALSE PROVE Spec => []IInv
<1>1. Init => IInv
  BY InitIInv
<1>2. IInv /\ [Next]_vars => IInv'
  BY StepIInv
<1> QED BY <1>1, <1>2, PTL DEF Spec

\* For any number of buffers and any size of the queue, while the engine is not
\* reset and no two threads are inside sendAction at once: each buffer that no
\* full queue, failed read or failed create() has lost is in exactly one place
\* (the queue, a message still to be sent, the worker, the voice), the voice ends
\* up in the state the player reports unless a command was dropped or a seek
\* failed, and the worker exits only when notifyExit told it to (ActionQueue,
\* worker).
THEOREM StreamBuffersOwned ==
  ASSUME Overlap = FALSE, "reset" \notin EngineOps
  PROVE  Spec => []StreamInv
<1>1. Init => IInv /\ OwnedInv
  <2> SUFFICES ASSUME Init PROVE OwnedInv
    BY InitIInv
  <2>1. \A b \in Buffer : Places(b) = IF b \in lost THEN 0 ELSE 1
    BY InitPlaces
  <2> QED BY <2>1 DEF OwnedInv, BufferOwned, Init
<1>2. IInv /\ OwnedInv /\ [Next]_vars => IInv' /\ OwnedInv'
  BY StepIInv, OwnedStep
<1>3. IInv /\ OwnedInv => StreamInv
  BY FollowsAndExits DEF StreamInv, OwnedInv, IInv
<1> QED BY <1>1, <1>2, <1>3, PTL DEF Spec

\* The voice destroyed and created again any number of times, by calls of
\* create() that succeed and calls that fail with the voice made: no buffer
\* leaves the cycle except those that a full queue, a failed read or such a
\* create() has lost, the next create() that succeeds brings these back, and the
\* voice plays exactly when the player says so unless a command was dropped, a
\* seek or the resume of create() has failed (onAudioEngineDestroy,
\* onAudioEngineCreate, create).
THEOREM ResetKeepsBuffers ==
  ASSUME Overlap = FALSE
  PROVE  Spec => []ResetInv
<1>1. Init => IInv /\ BufferKept
  <2> SUFFICES ASSUME Init PROVE BufferKept
    BY InitIInv
  <2>1. \A b \in Buffer : Places(b) = IF b \in lost THEN 0 ELSE 1
    BY InitPlaces
  <2> QED BY <2>1 DEF BufferKept
<1>2. IInv /\ BufferKept /\ [Next]_vars => IInv' /\ BufferKept'
  BY StepIInv, KeptStep
<1>3. IInv /\ BufferKept => ResetInv
  BY FollowsAndExits DEF ResetInv, IInv
<1> QED BY <1>1, <1>2, <1>3, PTL DEF Spec
==============================================================================
