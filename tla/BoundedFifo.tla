---------------------------- MODULE BoundedFifo ----------------------------
(***************************************************************************)
(* What a ring promises its producer and its consumer: a first-in          *)
(* first-out queue of bounded capacity, which a reset empties.             *)
(***************************************************************************)
EXTENDS Naturals, Sequences

CONSTANTS Values, Capacity

VARIABLE queue

Init == queue = << >>

Put(v) == /\ Len(queue) < Capacity
          /\ queue' = Append(queue, v)

Get == /\ queue # << >>
       /\ queue' = Tail(queue)

(* A put and a get that fall on the same clock. *)
PutGet(v) == /\ queue # << >>
             /\ Len(queue) < Capacity
             /\ queue' = Append(Tail(queue), v)

Clear == queue' = << >>

Next == \/ \E v \in Values : Put(v) \/ PutGet(v)
        \/ Get
        \/ Clear

Spec == Init /\ [][Next]_queue
=============================================================================
