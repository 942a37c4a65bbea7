----------------------------- MODULE FifoQueue ------------------------------
(***************************************************************************)
(* What LockFreeQueue promises its two users: pop returns the pushed       *)
(* values, each of them once, in the order of the pushes.  This is the     *)
(* abstract specification that LockFreeQueue is shown to implement.        *)
(***************************************************************************)
EXTENDS Sequences

CONSTANT Values

VARIABLES
    queue,   \* pushed and not yet taken
    taken    \* every value pop has handed out, in order

Init == queue = <<>> /\ taken = <<>>

Push == \E v \in Values : queue' = Append(queue, v) /\ taken' = taken

Pop == /\ queue # <<>>
       /\ queue' = Tail(queue)
       /\ taken' = Append(taken, Head(queue))

Next == Push \/ Pop

Spec == Init /\ [][Next]_<<queue, taken>>
=============================================================================
