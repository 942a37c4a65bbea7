---------------------------- MODULE MCLogQueue -----------------------------
(* TLC instances of LogQueue: two distinguishable slices, at most three    *)
(* calls of append, so that a batch can hold two slices while a third one  *)
(* is pushed and the destructor runs against a busy or sleeping thread.    *)
EXTENDS LogQueue
=============================================================================
