---------------------------- MODULE MCRpcChannel ----------------------------
(***************************************************************************)
(* A small instance of RpcChannel: two threads that share a channel.       *)
(***************************************************************************)
EXTENDS RpcChannel, TLC

Symmetry == Permutations(Callers)

\* Every write takes the whole request.
WholeWrites == \A c \in Callers : pc[c] # "rest"
=============================================================================
