-------------------------- MODULE MCLockFreeQueue ---------------------------
(* TLC instances of LockFreeQueue: four addresses, fewer than there are    *)
(* pushes, so that a freed node is allocated again while the queue is in   *)
(* use.                                                                    *)
EXTENDS LockFreeQueue
=============================================================================
