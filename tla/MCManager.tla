----------------------------- MODULE MCManager ------------------------------
(***************************************************************************)
(* Small instances of Manager: two workers, two pods with different ports. *)
(***************************************************************************)
EXTENDS Manager, TLC

CONSTANTS w1, w2, a1, a2

MCWorkers == {w1, w2}
MCAliases == {a1, a2}
MCPort == (a1 :> 1) @@ (a2 :> 2)
=============================================================================
