--------------------------- MODULE ServiceManager ---------------------------
(***************************************************************************)
(* The manager's service layer on top of its pods: ServiceManager.h,       *)
(* ServiceManager.cpp, ServiceDescriptor.h.  A service is a token and a    *)
(* group of pods; the pods themselves belong to Manager, whose actions     *)
(* this module calls.                                                      *)
(*                                                                         *)
(* Everything runs in the one event loop.  `op` is the service operation   *)
(* under way; while it is not None it calls Manager once per pod: a step   *)
(* `at` "call" begins selectWorkerToCreatePod or stopPod, Manager's own    *)
(* steps follow, and a step `at` "ret" takes the result when Manager is    *)
(* idle again.  The call has succeeded exactly when the pod is in the map  *)
(* after a selectWorkerToCreatePod, and is not after a stopPod.            *)
(*                                                                         *)
(* The proxy is NoProxy, which does nothing.  The queries (information,    *)
(* addresses, workers) change nothing and are left out.                    *)
(***************************************************************************)
EXTENDS Manager

CONSTANTS
    Tokens,    \* tokens of services
    Num,       \* the number of pods a user asks for, by token
    PodName    \* PodName[t][i]: the alias "t_i" ("t" when Num[t] = 1)

ASSUME NumAssumption == Num \in [Tokens -> Nat \ {0}]
ASSUME PodNameAssumption ==
    \A t \in Tokens : PodName[t] \in [0..(Num[t] - 1) -> Aliases]

VARIABLES
    op,          \* the service operation under way
    services,    \* the keys of map_
    group,       \* ServiceDescriptor::pods_, pointers to Manager's pods
    st,          \* ServiceDescriptor::status
    startList,   \* start_list_
    endList,     \* end_list_
    deleting,    \* history: services whose deletion was asked for
    reused       \* history: tokens given to createService while in map_

map == <<services, group, st, startList, endList>>
svc == <<op, map, deleting, reused>>
svars == <<vars, svc>>

\* i: the loop counter; size: the size of pods_ on entry; made: the local
\* PodGroup of createService.
Op(do, t, i) == [do |-> do, at |-> "call", tok |-> t, i |-> i, size |-> 0, made |-> <<>>]
None == Op("none", NULL, 0)

SInit ==
    /\ Init
    /\ op = None /\ services = {} /\ startList = <<>> /\ endList = <<>>
    /\ group = [t \in Tokens |-> <<>>] /\ st = [t \in Tokens |-> "close"]
    /\ deleting = {} /\ reused = {}

\* The event loop is between two requests or functors.
Quiet == Running("idle") /\ op = None
At(do, at) == Running("idle") /\ op.do \in do /\ op.at = at
Tok == op.tok

\* Manager is as it was.
StillManager == UNCHANGED <<call, mgr, env, requests, faults, hist>>

Rotate(list) == Append(Tail(list), Head(list))

(***************************************************************************)
(* createService.                                                          *)
(***************************************************************************)
CreateService(t) ==
    /\ Quiet /\ Budget
    /\ op' = Op("create", t, 0)
    /\ reused' = IF t \in services THEN reused \cup {t} ELSE reused
    /\ UNCHANGED <<status, call, mgr, env, faults, hist, map, deleting>>

CreateCall ==
    /\ At({"create"}, "call") /\ op.i < Num[Tok]
    /\ SelectWorkerToCreatePod(PodName[Tok][op.i])
    /\ op' = [op EXCEPT !.at = "ret"]
    /\ UNCHANGED <<requests, map, deleting, reused>>

CreateReturn ==
    /\ At({"create"}, "ret")
    /\ op' = [op EXCEPT !.at = "call", !.i = @ + 1,
                        !.made = IF PodName[Tok][op.i] \in pods
                                 THEN Append(@, PodName[Tok][op.i]) ELSE @]
    /\ UNCHANGED status /\ StillManager /\ UNCHANGED <<map, deleting, reused>>

\* With no pod there is no service.  map_.emplace keeps a descriptor that is
\* there already, and that one is queued when pods are missing.
CreateEnd ==
    /\ At({"create"}, "call") /\ op.i = Num[Tok]
    /\ op' = None
    /\ IF op.made = <<>>
       THEN UNCHANGED map
       ELSE /\ services' = services \cup {Tok}
            /\ IF Tok \in services
               THEN UNCHANGED <<group, st>>
               ELSE /\ group' = [group EXCEPT ![Tok] = op.made]
                    /\ st' = [st EXCEPT ![Tok] = IF Len(op.made) = Num[Tok] THEN "ready"
                                                                        ELSE "prepare"]
            /\ startList' = IF Len(op.made) < Num[Tok] THEN Append(startList, Tok) ELSE startList
            /\ UNCHANGED endList
    /\ UNCHANGED status /\ StillManager /\ UNCHANGED <<deleting, reused>>

(***************************************************************************)
(* stopPodsInService, for deleteService ("delete") and for                 *)
(* shutdownFailedPod ("reap").                                             *)
(***************************************************************************)
DeleteService(t) ==
    /\ Quiet /\ Budget /\ t \in services
    /\ op' = Op("delete", t, 1)
    /\ deleting' = deleting \cup {t}
    /\ UNCHANGED <<status, call, mgr, env, faults, hist, map, reused>>

Stopping(at) == At({"delete", "reap"}, at)

StopCall ==
    /\ Stopping("call") /\ op.i <= Len(group[Tok])
    /\ group[Tok][op.i] \in pods
    /\ StopPod(group[Tok][op.i])
    /\ op' = [op EXCEPT !.at = "ret"]
    /\ UNCHANGED <<requests, map, deleting, reused>>

\* The pointer dangles.  stopPod reads alias_ there: a crash, or the alias
\* is still legible and not found.
StopDangling ==
    /\ Stopping("call") /\ op.i <= Len(group[Tok])
    /\ group[Tok][op.i] \notin pods
    /\ \/ status' = "crashed" /\ UNCHANGED op
       \/ UNCHANGED status /\ op' = [op EXCEPT !.i = @ + 1]
    /\ StillManager /\ UNCHANGED <<map, deleting, reused>>

\* Mutant: the pod leaves the group whether it was stopped or not.
StopReturnDropsFailed ==
    /\ Stopping("ret")
    /\ group' = [group EXCEPT ![Tok] = RemoveAt(@, op.i)]
    /\ op' = [op EXCEPT !.at = "call"]
    /\ UNCHANGED status /\ StillManager
    /\ UNCHANGED <<services, st, startList, endList, deleting, reused>>

StopReturn ==
    /\ Stopping("ret")
    /\ IF group[Tok][op.i] \in pods
       THEN op' = [op EXCEPT !.at = "call", !.i = @ + 1] /\ UNCHANGED group
       ELSE /\ group' = [group EXCEPT ![Tok] = RemoveAt(@, op.i)]
            /\ op' = [op EXCEPT !.at = "call"]
    /\ UNCHANGED status /\ StillManager
    /\ UNCHANGED <<services, st, startList, endList, deleting, reused>>

\* The loop of removeService over a list: the entries of the service go.
EraseService(list, t) ==
    LET left[n \in 0..Len(list)] ==
            IF n = 0 THEN <<>>
            ELSE IF list[n] = t THEN left[n - 1] ELSE Append(left[n - 1], list[n])
    IN  left[Len(list)]

\* Mutant: an entry left in start_list_ survives the service.
RemoveServiceKeepsStart(t) ==
    /\ services' = services \ {t}
    /\ endList' = EraseService(endList, t) /\ deleting' = deleting \ {t}
    /\ UNCHANGED <<status, startList>>

\* removeService reads the token of the descriptor it has just erased and
\* erases list nodes under a running iterator: it crashes, or it finds the
\* entries of this service as if nothing had been freed.
RemoveService(t) ==
    /\ services' = services \ {t}
    /\ startList' = EraseService(startList, t) /\ endList' = EraseService(endList, t)
    /\ deleting' = deleting \ {t}
    /\ \/ UNCHANGED status
       \/ startList \o endList # <<>> /\ status' = "crashed"

\* Mutant: a deletion that failed is not queued.
DeleteEndForgets ==
    /\ At({"delete"}, "call") /\ op.i > Len(group[Tok])
    /\ st' = [st EXCEPT ![Tok] = IF group[Tok] = <<>> THEN "close" ELSE "hung"]
    /\ op' = None
    /\ IF group[Tok] = <<>>
       THEN RemoveService(Tok)
       ELSE UNCHANGED <<status, services, startList, endList, deleting>>
    /\ UNCHANGED <<group, reused>> /\ StillManager

DeleteEnd ==
    /\ At({"delete"}, "call") /\ op.i > Len(group[Tok])
    /\ st' = [st EXCEPT ![Tok] = IF group[Tok] = <<>> THEN "close" ELSE "hung"]
    /\ op' = None
    /\ IF group[Tok] = <<>>
       THEN RemoveService(Tok)
       ELSE /\ endList' = Append(endList, Tok)
            /\ UNCHANGED <<status, services, startList, deleting>>
    /\ UNCHANGED <<group, reused>> /\ StillManager

ShutdownFailedPodEnd ==
    /\ At({"reap"}, "call") /\ op.i > Len(group[Tok])
    /\ st' = [st EXCEPT ![Tok] = IF group[Tok] = <<>> THEN "close" ELSE "hung"]
    /\ op' = None
    /\ IF group[Tok] = <<>>
       THEN RemoveService(Tok)
       ELSE /\ endList' = Rotate(endList)
            /\ UNCHANGED <<status, services, startList, deleting>>
    /\ UNCHANGED <<group, reused>> /\ StillManager

(***************************************************************************)
(* The functor: startFailedPod, then shutdownFailedPod, each for the front *)
(* of its list.                                                            *)
(***************************************************************************)
ShutdownFailedPod == IF endList = <<>> THEN None ELSE Op("reap", Head(endList), 1)

StartFailedPod ==
    /\ Quiet /\ startList \o endList # <<>>
    /\ op' = IF startList = <<>> THEN ShutdownFailedPod
             ELSE [Op("restart", Head(startList), 0)
                      EXCEPT !.size = Len(group[Head(startList)])]
    /\ UNCHANGED status /\ StillManager /\ UNCHANGED <<map, deleting, reused>>

\* restartFailedPods: the bound shrinks as pods are added, and the alias is
\* that of the last pod if they were numbered without a gap.
RestartCall ==
    /\ At({"restart"}, "call") /\ op.i < Num[Tok] - Len(group[Tok])
    /\ SelectWorkerToCreatePod(PodName[Tok][Len(group[Tok]) - 1])
    /\ op' = [op EXCEPT !.at = "ret"]
    /\ UNCHANGED <<requests, map, deleting, reused>>

RestartReturn ==
    /\ At({"restart"}, "ret")
    /\ LET alias == PodName[Tok][Len(group[Tok]) - 1]
       IN  group' = [group EXCEPT ![Tok] = IF alias \in pods THEN Append(@, alias) ELSE @]
    /\ op' = [op EXCEPT !.at = "call", !.i = @ + 1]
    /\ UNCHANGED status /\ StillManager
    /\ UNCHANGED <<services, st, startList, endList, deleting, reused>>

Started == Len(group[Tok]) > op.size

\* Mutant: the service is ready as soon as one missing pod was started.
RestartEndEarly ==
    /\ At({"restart"}, "call") /\ op.i >= Num[Tok] - Len(group[Tok])
    /\ st' = IF Started THEN [st EXCEPT ![Tok] = "ready"] ELSE st
    /\ startList' = IF st'[Tok] = "ready" THEN Tail(startList) ELSE Rotate(startList)
    /\ op' = ShutdownFailedPod
    /\ UNCHANGED status /\ StillManager
    /\ UNCHANGED <<services, group, endList, deleting, reused>>

\* With nothing missing restartFailedPods returns before it sets status.
\* getAddressPool follows the pointers of the group if a pod was started.
RestartEnd ==
    /\ At({"restart"}, "call") /\ op.i >= Num[Tok] - Len(group[Tok])
    /\ st' = IF op.size < Num[Tok] /\ Len(group[Tok]) = Num[Tok]
             THEN [st EXCEPT ![Tok] = "ready"] ELSE st
    /\ startList' = IF st'[Tok] = "ready" THEN Tail(startList) ELSE Rotate(startList)
    /\ op' = ShutdownFailedPod
    /\ \/ UNCHANGED status
       \/ Started /\ ~(ToSet(group[Tok]) \subseteq pods) /\ status' = "crashed"
    /\ StillManager /\ UNCHANGED <<services, group, endList, deleting, reused>>

-----------------------------------------------------------------------------
ServiceRequest ==
    \/ \E w \in Workers : Quiet /\ Budget /\ ConnectToWorker(w) /\ UNCHANGED svc
    \/ \E t \in Tokens : CreateService(t) \/ DeleteService(t)

ServiceStep ==
    \/ CreateCall \/ CreateReturn \/ CreateEnd
    \/ StopCall \/ StopDangling \/ StopReturn \/ DeleteEnd \/ ShutdownFailedPodEnd
    \/ StartFailedPod \/ RestartCall \/ RestartReturn \/ RestartEnd

\* Manager goes on with a call, or with its own functor.
ManagerStep ==
    /\ Answer \/ (op = None /\ Functor)
    /\ UNCHANGED svc

SNext == ServiceRequest \/ ServiceStep \/ ManagerStep

SSpec == SInit /\ [][SNext]_svars

-----------------------------------------------------------------------------
STypeOK ==
    /\ TypeOK
    /\ op.do \in {"none", "create", "restart", "delete", "reap"} /\ op.at \in {"call", "ret"}
    /\ op.tok \in Tokens \cup {NULL} /\ op.i \in Nat /\ op.size \in Nat
    /\ op.made \in Seq(Aliases)
    /\ services \subseteq Tokens /\ st \in [Tokens -> {"prepare", "ready", "hung", "close"}]
    /\ \A t \in Tokens : group[t] \in Seq(Aliases)
    /\ startList \in Seq(services) /\ endList \in Seq(services)
    /\ deleting \subseteq services /\ reused \subseteq Tokens

(***************************************************************************)
(* A service that has fewer pods than the user asked for is in start_list_ *)
(* or being deleted: no path through createService, startFailedPod,        *)
(* restartFailedPods and deleteService forgets it                          *)
(* (ServiceManager.h 104, ServiceManager.cpp 46-51, ServiceDescriptor.h    *)
(* 95-115).                                                                *)
(***************************************************************************)
IncompleteIsQueued ==
    Quiet => \A t \in services : Len(group[t]) < Num[t] =>
                t \in ToSet(startList) \cup ToSet(endList)

(***************************************************************************)
(* A service whose deletion was asked for and not completed is in          *)
(* end_list_, also when startFailedPod has worked on it in between         *)
(* (ServiceManager.h 122, ServiceManager.cpp 63-68).                       *)
(***************************************************************************)
DeletingIsQueued == Quiet => deleting \subseteq ToSet(endList)

(***************************************************************************)
(* A pod in Manager's map belongs to a service: every pod the service      *)
(* layer has had created and not stopped is in the group of its service,   *)
(* so that deleteService can reach it (ServiceDescriptor.h 80-85, 109-111, *)
(* ServiceManager.h 83-100).  A token given to createService twice is      *)
(* excepted: the pods of the second call are put into no group.            *)
(***************************************************************************)
PodsAreOwned ==
    Quiet => \A a \in pods :
                \E t \in Tokens : \/ t \in services /\ a \in ToSet(group[t])
                                  \/ t \in reused /\ \E i \in DOMAIN PodName[t] : PodName[t][i] = a
=============================================================================
