-------------------------------- MODULE Buffer ---------------------------------
(***************************************************************************)
(* RedisBuffer (buffer/queue.py) and its BackpressureController            *)
(* (buffer/backpressure.py): a list in Redis that producers and consumers  *)
(* of several processes share.  push is LLEN and LPUSH, pop_batch is one   *)
(* RPOP after another; the commands of different clients interleave and    *)
(* any of them may raise.  pop alone is a batch of one.                    *)
(*                                                                         *)
(* The thresholds are tenths.  Whether the producers ask should_stop_cycle *)
(* before they push is theirs to decide; nobody in src/ does.              *)
(***************************************************************************)
EXTENDS Integers, Sequences, FiniteSets

CONSTANTS Producers, Consumers, Events,
          MaxSize,       \* RedisBuffer(max_size=...)
          FullTenths,    \* ten times full_threshold
          BatchSize,     \* pop_batch(batch_size=...)
          MaxFaults      \* bound: calls of pop_batch that fail

ASSUME BufferAssumption ==
    /\ MaxSize \in Nat \ {0} /\ FullTenths \in 1..10
    /\ BatchSize \in Nat \ {0} /\ MaxFaults \in Nat
    /\ IsFiniteSet(Producers)

VARIABLES queue,      \* the list, its right end first
          producer,   \* the command producer p runs next
          event,      \* the event it pushes
          hand,       \* batch of consumer c's pop_batch
          popping,    \* the consumers inside pop_batch
          heeds,      \* do the producers stop when the signal is full?
          refused,    \* ghost: has push ever returned False?
          lost,       \* ghost: events popped that nobody got
          faults      \* ghost: calls of pop_batch that failed

bufferVars == <<queue, producer, event, hand, popping, heeds, refused, lost, faults>>

\* The list and its clients' places in push and pop_batch (queue.py:20-76).
BufferTypeOK == /\ queue \in Seq(Events)
                /\ producer \in [Producers -> {"idle", "allowed", "pushing"}]
                /\ event \in [Producers -> Events]
                /\ hand \in [Consumers -> Seq(Events)]
                /\ \A c \in Consumers : Len(hand[c]) <= BatchSize
                /\ popping \in SUBSET Consumers
                /\ heeds \in BOOLEAN /\ refused \in BOOLEAN
                /\ lost \in Nat /\ faults \in 0..MaxFaults

BufferInit == /\ queue = <<>>
              /\ producer = [p \in Producers |-> "idle"]
              /\ event \in [Producers -> Events]
              /\ hand = [c \in Consumers |-> <<>>]
              /\ popping = {}
              /\ heeds \in BOOLEAN
              /\ refused = FALSE
              /\ lost = 0 /\ faults = 0

-------------------------------------------------------------------------------
\* Mutant: the threshold must be exceeded.
MutSignalsFull(size) == 10 * size > FullTenths * MaxSize

\* check: the usage ratio against full_threshold.
SignalsFull(size) == 10 * size >= FullTenths * MaxSize

producerFrame == <<hand, popping, heeds, lost, faults>>

\* should_stop_cycle: the first of its two LLEN decides.
AskSignal(p) == /\ heeds /\ producer[p] = "idle"
                /\ ~SignalsFull(Len(queue))
                /\ producer' = [producer EXCEPT ![p] = "allowed"]
                /\ UNCHANGED <<queue, event, refused, producerFrame>>

\* Mutant: a push at max_size is let through.
MutHasRoom == Len(queue) <= MaxSize

HasRoom == Len(queue) < MaxSize

\* push: LLEN, and False if there is no room.
PushSize(p) == /\ producer[p] = IF heeds THEN "allowed" ELSE "idle"
               /\ IF HasRoom
                  THEN /\ producer' = [producer EXCEPT ![p] = "pushing"]
                       /\ \E e \in Events : event' = [event EXCEPT ![p] = e]
                       /\ UNCHANGED refused
                  ELSE /\ producer' = [producer EXCEPT ![p] = "idle"]
                       /\ refused' = TRUE
                       /\ UNCHANGED event
               /\ UNCHANGED <<queue, producerFrame>>

ListPush(e) == queue' = Append(queue, e)

\* push: LPUSH, executed or not if it raises.
Push(p) == /\ producer[p] = "pushing"
           /\ ListPush(event[p]) \/ UNCHANGED queue
           /\ producer' = [producer EXCEPT ![p] = "idle"]
           /\ UNCHANGED <<event, refused, producerFrame>>

consumerFrame == <<producer, event, heeds, refused>>

StartBatch(c) == /\ c \notin popping
                 /\ popping' = popping \cup {c}
                 /\ UNCHANGED <<queue, hand, lost, faults, consumerFrame>>

WantsMore(c) == Len(hand[c]) < BatchSize

\* RPOP
PopOne(c) == /\ c \in popping /\ WantsMore(c)
             /\ queue # <<>>
             /\ hand' = [hand EXCEPT ![c] = Append(@, Head(queue))]
             /\ queue' = Tail(queue)
             /\ UNCHANGED <<popping, lost, faults, consumerFrame>>

\* The batch is complete, or the list was empty.
EndBatch(c) == /\ c \in popping /\ (~WantsMore(c) \/ queue = <<>>)
               /\ hand' = [hand EXCEPT ![c] = <<>>]
               /\ popping' = popping \ {c}
               /\ UNCHANGED <<queue, lost, faults, consumerFrame>>

\* An RPOP raises, executed or not, and the batch so far goes with the
\* exception.
PopFails(c) == /\ c \in popping /\ WantsMore(c)
               /\ faults < MaxFaults
               /\ faults' = faults + 1
               /\ \/ /\ queue # <<>> /\ queue' = Tail(queue)
                     /\ lost' = lost + Len(hand[c]) + 1
                  \/ /\ UNCHANGED queue
                     /\ lost' = lost + Len(hand[c])
               /\ hand' = [hand EXCEPT ![c] = <<>>]
               /\ popping' = popping \ {c}
               /\ UNCHANGED consumerFrame

\* clear
ClearBuffer == /\ queue' = <<>>
               /\ UNCHANGED <<producer, event, hand, popping, heeds, refused, lost, faults>>

BufferNext == \/ \E p \in Producers : AskSignal(p) \/ PushSize(p) \/ Push(p)
              \/ \E c \in Consumers : StartBatch(c) \/ PopOne(c) \/ EndBatch(c) \/ PopFails(c)
              \/ ClearBuffer

BufferSpec == BufferInit /\ [][BufferNext]_bufferVars

-------------------------------------------------------------------------------
\* The buffer is a first-in-first-out queue of which nobody gets an event that
\* somebody else took, though its limit is not max_size: LLEN and LPUSH are two
\* commands, and every producer but one may push into a full list
\* (queue.py:27-33).
Queue == INSTANCE BoundedQueue WITH Capacity <- MaxSize + Cardinality(Producers) - 1

QueueRefined == Queue!Spec

\* A failed pop_batch costs at most one batch, and nothing is lost otherwise but
\* by clear (queue.py:67-76).
LossBound == lost <= BatchSize * faults

\* The lengths at which the signal is not full yet.
BelowSignal == {n \in 0..MaxSize : 10 * n < FullTenths * MaxSize}

\* Backpressure prevents refusals: producers that ask should_stop_cycle before
\* every push are never answered False, provided the room between the signal and
\* max_size takes one push of each of the others (backpressure.py:69-72, with
\* the decision of queue.py:28 made on another LLEN).
HeedingAvoidsRefusal ==
    heeds /\ Cardinality(BelowSignal) + Cardinality(Producers) <= MaxSize + 1 => ~refused
===============================================================================
