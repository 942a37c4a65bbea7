-------------------------- MODULE MCServiceManager --------------------------
(***************************************************************************)
(* A small instance of ServiceManager: one worker, a service t of three    *)
(* pods and a service u of one, each with a port of its own.               *)
(***************************************************************************)
EXTENDS ServiceManager, TLC

CONSTANTS w1, t, u, t_0, t_1, t_2, u_

MCWorkers == {w1}
MCAliases == {t_0, t_1, t_2, u_}
MCPort == (t_0 :> 1) @@ (t_1 :> 1) @@ (t_2 :> 1) @@ (u_ :> 2)
MCTokens == {t, u}
MCNum == (t :> 3) @@ (u :> 1)
MCPodName == (t :> (0 :> t_0 @@ 1 :> t_1 @@ 2 :> t_2)) @@ (u :> (0 :> u_))
=============================================================================
