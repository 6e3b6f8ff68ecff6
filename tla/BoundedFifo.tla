---------------------------- MODULE BoundedFifo ----------------------------
(* What src/spsc_ring.h promises its two users: a FIFO queue of at most     *)
(* Capacity items.  The producer need not have seen the latest pops, so it  *)
(* may find the ring full when it is not: there is room for a push when the *)
(* items and the pops not yet seen are fewer than Capacity.  A push that    *)
(* reports "full" only looks; a pop that returns NULL is a stuttering step. *)
EXTENDS Naturals, Sequences

CONSTANTS Items, Capacity, NoItem

VARIABLES queue,   \* the items pushed and not yet popped, oldest first
          unseen,  \* how many of the latest pops the producer has not seen
          got      \* what the last successful pop returned

vars == <<queue, unseen, got>>

Init == queue = <<>> /\ unseen = 0 /\ got = NoItem

\* The producer loads tail, and may see more of the pops.
Look ==
  /\ unseen' \in 0..unseen
  /\ UNCHANGED <<queue, got>>

Push(item) ==
  /\ unseen' \in 0..unseen
  /\ Len(queue) + unseen' < Capacity
  /\ queue' = Append(queue, item)
  /\ UNCHANGED got

Pop ==
  /\ queue # <<>>
  /\ got' = Head(queue)
  /\ queue' = Tail(queue)
  /\ unseen' = unseen + 1

Next == Look \/ Pop \/ \E item \in Items : Push(item)

Spec == Init /\ [][Next]_vars
=============================================================================
