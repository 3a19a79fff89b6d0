----------------------------- MODULE BoundedQueue ------------------------------
(***************************************************************************)
(* What the users of the event buffer rely on, whatever commands it is     *)
(* made of: a queue of at most Capacity events, first in, first out.  A    *)
(* consumer takes one event after the other and nobody else gets what it   *)
(* took; it hands its events over, or fails and loses them, and with them  *)
(* at most the event it was about to take.                                 *)
(***************************************************************************)
EXTENDS Naturals, Sequences

CONSTANTS Consumers, Events, Capacity

VARIABLES queue,   \* the events in the order in which they will be taken
          hand     \* what each consumer took and has not handed over

Init == /\ queue = <<>>
        /\ hand = [c \in Consumers |-> <<>>]

Put(e) == /\ Len(queue) < Capacity
          /\ queue' = Append(queue, e)
          /\ UNCHANGED hand

Take(c) == /\ queue # <<>>
           /\ hand' = [hand EXCEPT ![c] = Append(@, Head(queue))]
           /\ queue' = Tail(queue)

HandOver(c) == /\ hand' = [hand EXCEPT ![c] = <<>>]
               /\ UNCHANGED queue

Fail(c) == /\ hand' = [hand EXCEPT ![c] = <<>>]
           /\ queue # <<>> /\ queue' = Tail(queue)

Empty == /\ queue' = <<>>
         /\ UNCHANGED hand

Next == \/ \E e \in Events : Put(e)
        \/ \E c \in Consumers : Take(c) \/ HandOver(c) \/ Fail(c)
        \/ Empty

Spec == Init /\ [][Next]_<<queue, hand>>
===============================================================================
