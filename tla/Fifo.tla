-------------------------------- MODULE Fifo --------------------------------
(***************************************************************************)
(* What a queue of mksquashfs or unsquashfs promises its threads: a        *)
(* first-in first-out buffer of at most Capacity items.  No indices, no    *)
(* mutex and no condition variables; BoundedQueue is shown to implement it.*)
(***************************************************************************)
EXTENDS Integers, Sequences, Functions

CONSTANTS Values,    (* what the threads hand to each other                *)
          Capacity   (* the "size" argument of queue_init                  *)

VARIABLE q

Init == q = <<>>

Put(v) == /\ Len(q) < Capacity
          /\ q' = Append(q, v)

Get == /\ q # <<>>
       /\ q' = Tail(q)

(* The item put is one of those in q' (which spares TLC all of Values).    *)
Next == Get \/ \E v \in {w \in Range(q') : w \in Values} : Put(v)

Spec == Init /\ [][Next]_q
=============================================================================
