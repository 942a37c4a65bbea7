---------------------------- MODULE MCWorkerNode ----------------------------
(***************************************************************************)
(* A small instance of WorkerNode.                                         *)
(***************************************************************************)
EXTENDS WorkerNode
=============================================================================
