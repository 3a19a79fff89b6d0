----------------------------- MODULE BufferProofs -----------------------------
(***************************************************************************)
(* For any producers, consumers, sizes and thresholds: the buffer is a     *)
(* bounded queue, a failed batch costs at most a batch, and producers that *)
(* heed the backpressure signal are never refused.  The argument counts    *)
(* the events in the list with those on their way to it.                   *)
(***************************************************************************)
EXTENDS Buffer, FiniteSetTheorems, TLAPS

Pushing == {p \in Producers : producer[p] = "pushing"}
Busy    == {p \in Producers : producer[p] # "idle"}

RoomForOthers == Cardinality(BelowSignal) + Cardinality(Producers) <= MaxSize + 1

\* Every producer but one may hold an event that it decided on when there was room.
SumBound == Len(queue) + Cardinality(Pushing) <= MaxSize + Cardinality(Producers) - 1

\* A producer that was told to go on has its place kept free.
PlacesKept == heeds /\ RoomForOthers => ~refused /\ Len(queue) + Cardinality(Busy) <= MaxSize

BufferInv == BufferTypeOK /\ SumBound /\ PlacesKept /\ LossBound

\* Sets of producers are finite and no larger than all of them.
LEMMA ProducerSets ==
    ASSUME NEW S \in SUBSET Producers
    PROVE  /\ IsFiniteSet(S) /\ Cardinality(S) \in Nat
           /\ Cardinality(Producers) \in Nat /\ Cardinality(S) <= Cardinality(Producers)
BY BufferAssumption, FS_Subset, FS_CardinalityType

\* One producer more, or one less.
LEMMA OneMore ==
    ASSUME NEW S \in SUBSET Producers, NEW p \in Producers, p \notin S
    PROVE  Cardinality(S \cup {p}) = Cardinality(S) + 1
BY ProducerSets, FS_AddElement

LEMMA OneLess ==
    ASSUME NEW S \in SUBSET Producers, NEW p \in S
    PROVE  Cardinality(S \ {p}) = Cardinality(S) - 1 /\ Cardinality(S) >= 1
<1>1. Cardinality(S \ {p}) = Cardinality(S) - 1
      BY ProducerSets, FS_RemoveElement
<1>2. Cardinality(S) \in Nat /\ Cardinality(S \ {p}) \in Nat
      BY ProducerSets
<1> QED BY <1>1, <1>2

\* A length below the signal is one of as many lengths as are below it.
LEMMA BelowSignalCounts ==
    ASSUME NEW n \in 0..MaxSize, ~SignalsFull(n)
    PROVE  n + 1 <= Cardinality(BelowSignal) /\ Cardinality(BelowSignal) \in Nat
<1>1. FullTenths * MaxSize \in Int /\ MaxSize \in Nat
      BY BufferAssumption
<1>2. 0..n \subseteq BelowSignal
      BY <1>1 DEF BelowSignal, SignalsFull
<1>3. IsFiniteSet(0..n) /\ Cardinality(0..n) = n + 1
      BY FS_Interval
<1>4. IsFiniteSet(BelowSignal)
  <2>1. IsFiniteSet(0..MaxSize)
        BY <1>1, FS_Interval
  <2> QED BY <2>1, FS_Subset DEF BelowSignal
<1> QED BY <1>2, <1>3, <1>4, FS_Subset, FS_CardinalityType

\* One more call of pop_batch may fail with a batch in hand.
LEMMA OneBatchMore ==
    ASSUME NEW l \in Nat, NEW b \in Nat, NEW f \in Nat, NEW n \in Nat, l <= b * f, n <= b
    PROVE  l + n <= b * (f + 1)
<1>1. b * (f + 1) = b * f + b /\ b * f \in Nat
      OBVIOUS
<1> QED BY <1>1

\* Steps that leave the producers alone and make the list no longer.
LEMMA ShorterKeeps ==
    ASSUME BufferInv, BufferTypeOK', Len(queue') <= Len(queue),
           UNCHANGED <<producer, heeds, refused>>
    PROVE  SumBound' /\ PlacesKept'
<1>1. Pushing' = Pushing /\ Busy' = Busy
      BY DEF Pushing, Busy
<1>2. Cardinality(Pushing) \in Nat /\ Cardinality(Busy) \in Nat /\ Cardinality(Producers) \in Nat
      BY ProducerSets DEF Pushing, Busy
<1>3. Len(queue) \in Nat /\ Len(queue') \in Nat /\ MaxSize \in Nat
      BY BufferAssumption DEF BufferInv, BufferTypeOK
<1> QED BY <1>1, <1>2, <1>3 DEF BufferInv, SumBound, PlacesKept, RoomForOthers

\* The rest of a list of events is one.
LEMMA TailOfEvents == ASSUME NEW q \in Seq(Events), q # <<>> PROVE Tail(q) \in Seq(Events)
OBVIOUS

\* What a call of pop_batch that fails takes with it.
LEMMA FailedBatch ==
    ASSUME NEW c \in Consumers, PopFails(c), BufferTypeOK
    PROVE  /\ queue' = queue \/ (queue # <<>> /\ queue' = Tail(queue))
           /\ \E n \in Nat : n <= BatchSize /\ lost' = lost + n
<1>1. queue' = queue \/ (queue # <<>> /\ queue' = Tail(queue))
      BY DEF PopFails
<1>2. Len(hand[c]) \in Nat /\ Len(hand[c]) + 1 \in Nat /\ Len(hand[c]) + 1 <= BatchSize
      BY BufferAssumption DEF PopFails, WantsMore, BufferTypeOK
<1>3. lost' = lost + (Len(hand[c]) + 1) \/ lost' = lost + Len(hand[c])
      BY <1>2 DEF PopFails, BufferTypeOK
<1>4. Len(hand[c]) <= BatchSize
      BY <1>2, BufferAssumption
<1> QED BY <1>1, <1>2, <1>3, <1>4

\* Every command keeps the types.
LEMMA BufferTypes == BufferTypeOK /\ [BufferNext]_bufferVars => BufferTypeOK'
<1> SUFFICES ASSUME BufferTypeOK, [BufferNext]_bufferVars PROVE BufferTypeOK'
    OBVIOUS
<1> USE BufferAssumption DEF BufferTypeOK, producerFrame, consumerFrame
<1>1. ASSUME NEW p \in Producers, AskSignal(p) PROVE BufferTypeOK'
      BY <1>1 DEF AskSignal
<1>2. ASSUME NEW p \in Producers, PushSize(p) PROVE BufferTypeOK'
      BY <1>2 DEF PushSize
<1>3. ASSUME NEW p \in Producers, Push(p) PROVE BufferTypeOK'
      BY <1>3 DEF Push, ListPush
<1>4. ASSUME NEW c \in Consumers, StartBatch(c) PROVE BufferTypeOK'
      BY <1>4 DEF StartBatch
<1>5. ASSUME NEW c \in Consumers, PopOne(c) PROVE BufferTypeOK'
  <2>1. queue' \in Seq(Events) /\ Head(queue) \in Events
        BY <1>5 DEF PopOne
  <2>2. /\ Append(hand[c], Head(queue)) \in Seq(Events)
        /\ Len(Append(hand[c], Head(queue))) <= BatchSize
        BY <1>5, <2>1 DEF PopOne, WantsMore
  <2> QED BY <1>5, <2>1, <2>2 DEF PopOne
<1>6. ASSUME NEW c \in Consumers, EndBatch(c) PROVE BufferTypeOK'
      BY <1>6 DEF EndBatch
<1>7. ASSUME NEW c \in Consumers, PopFails(c) PROVE BufferTypeOK'
  <2>1. queue' \in Seq(Events)
        BY <1>7, FailedBatch, TailOfEvents DEF BufferTypeOK
  <2>2. lost' \in Nat /\ faults' \in 0..MaxFaults
        BY <1>7, FailedBatch DEF PopFails
  <2>3. hand' \in [Consumers -> Seq(Events)] /\ \A d \in Consumers : Len(hand'[d]) <= BatchSize
        BY <1>7 DEF PopFails
  <2> QED BY <1>7, <2>1, <2>2, <2>3 DEF PopFails
<1>8. CASE ClearBuffer
      BY <1>8 DEF ClearBuffer
<1>9. CASE UNCHANGED bufferVars
      BY <1>9 DEF bufferVars
<1> QED BY <1>1, <1>2, <1>3, <1>4, <1>5, <1>6, <1>7, <1>8, <1>9 DEF BufferNext

\* The decision to push takes a place that was free: SumBound and PlacesKept.
LEMMA ProducerStep ==
    ASSUME BufferInv, NEW p \in Producers, AskSignal(p) \/ PushSize(p) \/ Push(p)
    PROVE  SumBound' /\ PlacesKept'
<1> USE DEF BufferInv, BufferTypeOK, SumBound, PlacesKept
<1>1. /\ Len(queue) \in Nat /\ MaxSize \in Nat /\ Cardinality(Producers) \in Nat
      /\ Cardinality(Pushing) \in Nat /\ Cardinality(Pushing) <= Cardinality(Producers)
      /\ Cardinality(Busy) \in Nat
      BY ProducerSets, BufferAssumption DEF Pushing, Busy
<1>2. Cardinality(Pushing \cup {p}) <= Cardinality(Producers) /\ Cardinality(Busy \cup {p}) <= Cardinality(Producers)
      BY ProducerSets DEF Pushing, Busy
<1>3. CASE AskSignal(p)
  <2>1. Pushing' = Pushing /\ Busy' = Busy \cup {p} /\ p \notin Busy
        BY <1>3 DEF AskSignal, Pushing, Busy
  <2>2. Cardinality(Busy') = Cardinality(Busy) + 1
        BY <2>1, OneMore DEF Busy
  <2>3. queue' = queue /\ heeds' = heeds /\ refused' = refused /\ heeds
        BY <1>3 DEF AskSignal, producerFrame
  <2>4. ASSUME RoomForOthers PROVE Len(queue) + Cardinality(Busy') <= MaxSize
    <3>1. Len(queue) \in 0..MaxSize
          BY <1>1, <2>3, <2>4
    <3>2. Len(queue) + 1 <= Cardinality(BelowSignal) /\ Cardinality(BelowSignal) \in Nat
          BY <1>3, <3>1, BelowSignalCounts DEF AskSignal
    <3>3. Cardinality(Busy') <= Cardinality(Producers) /\ Cardinality(Busy') \in Nat
          BY <1>1, <1>2, <2>1, <2>2
    <3> QED BY <1>1, <2>4, <3>2, <3>3 DEF RoomForOthers
  <2> QED BY <1>1, <2>1, <2>3, <2>4 DEF RoomForOthers
<1>4. CASE PushSize(p)
  <2>1. queue' = queue /\ heeds' = heeds /\ p \notin Pushing
        BY <1>4 DEF PushSize, producerFrame, Pushing
  <2>2. heeds => p \in Busy
        BY <1>4 DEF PushSize, Busy
  <2>3. CASE HasRoom
    <3>1. Pushing' = Pushing \cup {p} /\ (heeds => Busy' = Busy) /\ refused' = refused
          BY <1>4, <2>2, <2>3 DEF PushSize, Pushing, Busy
    <3>2. Cardinality(Pushing') = Cardinality(Pushing) + 1
          BY <2>1, <3>1, OneMore DEF Pushing
    <3>3. Cardinality(Pushing') <= Cardinality(Producers)
          BY <1>2, <3>1
    <3> QED BY <1>1, <2>1, <2>3, <3>1, <3>2, <3>3 DEF HasRoom, RoomForOthers
  <2>4. CASE ~HasRoom
    <3>1. Pushing' = Pushing /\ refused'
          BY <1>4, <2>1, <2>4 DEF PushSize, Pushing
    <3>2. ~(heeds /\ RoomForOthers)
      <4>1. heeds => Cardinality(Busy) >= 1
            BY <2>2, OneLess DEF Busy
      <4> QED BY <1>1, <2>4, <4>1 DEF HasRoom
    <3> QED BY <1>1, <2>1, <3>1, <3>2 DEF RoomForOthers
  <2> QED BY <2>3, <2>4
<1>5. CASE Push(p)
  <2>1. /\ Pushing' = Pushing \ {p} /\ p \in Pushing
        /\ Busy' = Busy \ {p} /\ p \in Busy
        /\ heeds' = heeds /\ refused' = refused
        BY <1>5 DEF Push, producerFrame, Pushing, Busy
  <2>2. /\ Cardinality(Pushing') = Cardinality(Pushing) - 1
        /\ Cardinality(Busy') = Cardinality(Busy) - 1
        BY <2>1, OneLess DEF Pushing, Busy
  <2>3. Len(queue') \in Nat /\ Len(queue') <= Len(queue) + 1
        BY <1>5 DEF Push, ListPush
  <2> QED BY <1>1, <2>1, <2>2, <2>3 DEF RoomForOthers
<1> QED BY <1>3, <1>4, <1>5

\* Every step preserves the invariant.
LEMMA BufferStep == BufferInv /\ [BufferNext]_bufferVars => BufferInv'
<1> SUFFICES ASSUME BufferInv, [BufferNext]_bufferVars PROVE BufferInv'
    OBVIOUS
<1>1. BufferTypeOK'
      BY BufferTypes DEF BufferInv
<1>2. ASSUME NEW p \in Producers, AskSignal(p) \/ PushSize(p) \/ Push(p) PROVE BufferInv'
  <2>1. LossBound'
        BY <1>2 DEF AskSignal, PushSize, Push, producerFrame, BufferInv, LossBound
  <2> QED BY <1>1, <1>2, <2>1, ProducerStep DEF BufferInv
<1>3. ASSUME NEW c \in Consumers, StartBatch(c) \/ PopOne(c) \/ EndBatch(c) PROVE BufferInv'
  <2>1. /\ Len(queue') <= Len(queue)
        /\ UNCHANGED <<producer, heeds, refused, lost, faults>>
        BY <1>3 DEF StartBatch, PopOne, EndBatch, consumerFrame, BufferInv, BufferTypeOK
  <2>2. LossBound'
        BY <2>1 DEF BufferInv, LossBound
  <2> QED BY <1>1, <2>1, <2>2, ShorterKeeps DEF BufferInv
<1>4. ASSUME NEW c \in Consumers, PopFails(c) PROVE BufferInv'
  <2>1. /\ Len(queue') <= Len(queue)
        /\ UNCHANGED <<producer, heeds, refused>>
        BY <1>4, FailedBatch DEF PopFails, consumerFrame, BufferInv, BufferTypeOK
  <2>2. PICK n \in Nat : n <= BatchSize /\ lost' = lost + n
        BY <1>4, FailedBatch DEF BufferInv
  <2>3. lost + n <= BatchSize * (faults + 1)
        BY <2>2, OneBatchMore, BufferAssumption DEF BufferInv, BufferTypeOK, LossBound
  <2>4. LossBound'
        BY <1>4, <2>2, <2>3 DEF PopFails, LossBound
  <2> QED BY <1>1, <2>1, <2>4, ShorterKeeps DEF BufferInv
<1>5. CASE ClearBuffer \/ UNCHANGED bufferVars
  <2>1. /\ Len(queue') <= Len(queue)
        /\ UNCHANGED <<producer, heeds, refused, lost, faults>>
        BY <1>5 DEF ClearBuffer, bufferVars, BufferInv, BufferTypeOK
  <2>2. LossBound'
        BY <2>1 DEF BufferInv, LossBound
  <2> QED BY <1>1, <2>1, <2>2, ShorterKeeps DEF BufferInv
<1> QED BY <1>2, <1>3, <1>4, <1>5 DEF BufferNext

\* The invariant holds of the buffer.
LEMMA BufferInvariant == BufferSpec => []BufferInv
<1>1. BufferInit => BufferInv
  <2> SUFFICES ASSUME BufferInit PROVE BufferInv
      OBVIOUS
  <2>1. BufferTypeOK
    <3>1. <<>> \in Seq(Events) /\ Len(<<>>) <= BatchSize /\ 0 \in Nat /\ 0 \in 0..MaxFaults
          BY BufferAssumption
    <3> QED BY <3>1 DEF BufferInit, BufferTypeOK
  <2>2. Pushing = {} /\ Busy = {} /\ Cardinality({}) = 0
        BY FS_EmptySet DEF BufferInit, Pushing, Busy
  <2>3. Cardinality(Producers) \in Nat /\ MaxSize \in Nat \ {0}
        BY BufferAssumption, FS_CardinalityType
  <2>4. SumBound /\ PlacesKept
        BY <2>2, <2>3 DEF BufferInit, SumBound, PlacesKept
  <2>5. LossBound
        BY BufferAssumption DEF BufferInit, LossBound
  <2> QED BY <2>1, <2>4, <2>5 DEF BufferInv
<1> QED BY <1>1, BufferStep, PTL DEF BufferSpec

\* The list, its clients and their batches are well typed, and no batch is larger
\* than asked for (queue.py:20-76).
THEOREM BufferTypeCorrect == BufferSpec => []BufferTypeOK
<1>1. BufferInv => BufferTypeOK
      BY DEF BufferInv
<1> QED BY <1>1, BufferInvariant, PTL

\* Failures cost a batch each and nothing else is lost (queue.py:67-76).
THEOREM LossIsBounded == BufferSpec => []LossBound
<1>1. BufferInv => LossBound
      BY DEF BufferInv
<1> QED BY <1>1, BufferInvariant, PTL

\* Producers that heed the signal are never refused, if the room above it is
\* enough for the others (backpressure.py:69-72, queue.py:27-33).
THEOREM HeedersAreNotRefused == BufferSpec => []HeedingAvoidsRefusal
<1>1. BufferInv => HeedingAvoidsRefusal
      BY DEF BufferInv, PlacesKept, RoomForOthers, HeedingAvoidsRefusal
<1> QED BY <1>1, BufferInvariant, PTL

-------------------------------------------------------------------------------
\* A command of the buffer is an operation of the queue, or none.
LEMMA QueueStep == BufferInv /\ [BufferNext]_bufferVars => [Queue!Next]_<<queue, hand>>
<1> SUFFICES ASSUME BufferInv, [BufferNext]_bufferVars
             PROVE  Queue!Next \/ UNCHANGED <<queue, hand>>
    OBVIOUS
<1>1. ASSUME NEW p \in Producers, AskSignal(p) \/ PushSize(p) PROVE UNCHANGED <<queue, hand>>
      BY <1>1 DEF AskSignal, PushSize, producerFrame
<1>2. ASSUME NEW p \in Producers, Push(p) PROVE Queue!Next \/ UNCHANGED <<queue, hand>>
  <2>1. CASE queue' = queue
        BY <1>2, <2>1 DEF Push, producerFrame
  <2>2. CASE ListPush(event[p])
    <3>1. p \in Pushing
          BY <1>2 DEF Push, Pushing
    <3>2. Cardinality(Pushing) >= 1 /\ Cardinality(Pushing) \in Nat
          BY <3>1, OneLess, ProducerSets DEF Pushing
    <3>3. Len(queue) < MaxSize + Cardinality(Producers) - 1
      <4>1. Len(queue) \in Nat /\ MaxSize \in Nat /\ Cardinality(Producers) \in Nat
            BY BufferAssumption, FS_CardinalityType DEF BufferInv, BufferTypeOK
      <4> QED BY <3>2, <4>1 DEF BufferInv, SumBound
    <3>4. event[p] \in Events
          BY DEF BufferInv, BufferTypeOK
    <3>5. Queue!Put(event[p])
          BY <1>2, <2>2, <3>3 DEF Queue!Put, ListPush, Push, producerFrame
    <3> QED BY <3>4, <3>5 DEF Queue!Next
  <2> QED BY <1>2, <2>1, <2>2 DEF Push
<1>3. ASSUME NEW c \in Consumers, StartBatch(c) PROVE UNCHANGED <<queue, hand>>
      BY <1>3 DEF StartBatch
<1>4. ASSUME NEW c \in Consumers, PopOne(c) PROVE Queue!Next
      BY <1>4 DEF PopOne, Queue!Take, Queue!Next
<1>5. ASSUME NEW c \in Consumers, EndBatch(c) PROVE Queue!Next
      BY <1>5 DEF EndBatch, Queue!HandOver, Queue!Next
<1>6. ASSUME NEW c \in Consumers, PopFails(c) PROVE Queue!Next
  <2>1. hand' = [hand EXCEPT ![c] = <<>>]
        BY <1>6 DEF PopFails
  <2>2. queue' = queue \/ (queue # <<>> /\ queue' = Tail(queue))
        BY <1>6 DEF PopFails
  <2>3. Queue!HandOver(c) \/ Queue!Fail(c)
        BY <2>1, <2>2 DEF Queue!HandOver, Queue!Fail
  <2> QED BY <2>3 DEF Queue!Next
<1>7. CASE ClearBuffer
      BY <1>7 DEF ClearBuffer, Queue!Empty, Queue!Next
<1>8. CASE UNCHANGED bufferVars
      BY <1>8 DEF bufferVars
<1> QED BY <1>1, <1>2, <1>3, <1>4, <1>5, <1>6, <1>7, <1>8 DEF BufferNext

\* However the commands of producers and consumers interleave, the buffer is a
\* first-in-first-out queue that exceeds max_size by less than the producers
\* (queue.py:20-76).
THEOREM BufferIsQueue == BufferSpec => QueueRefined
<1>1. BufferInit => Queue!Init
      BY DEF BufferInit, Queue!Init
<1> QED BY <1>1, BufferInvariant, QueueStep, PTL DEF BufferSpec, QueueRefined, Queue!Spec
===============================================================================
