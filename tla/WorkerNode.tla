----------------------------- MODULE WorkerNode -----------------------------
(***************************************************************************)
(* What a worker answers to FORK and SHUTDOWN and how its table of pods    *)
(* and its managers change: src/worker/RPCInterface.cpp and the operations *)
(* of WorkerNode.cpp it calls, with the timer that expires managers.  All  *)
(* run on the worker's event loop; a request is one step.  Processes,      *)
(* their exits and the start records are left out.                         *)
(*                                                                         *)
(* The clock is left out: a manager may expire whenever it is up.          *)
(* SHUTDOWN is that of a host service.                                     *)
(***************************************************************************)
EXTENDS Naturals, Sequences, SequencesExt

CONSTANTS
    Managers, Aliases,
    MaxPods       \* bound on the table of pods

VARIABLES
    pods,       \* the list of PodDescriptors
    managers,   \* status: "none" not in the map, "up" 0, "down" -1
    running,    \* FALSE once the process has ended
    answer      \* the last request: its alias, the error text of its answer,
                \* and whether a pod had its alias when it arrived

vars == <<pods, managers, running, answer>>

Init ==
    /\ pods = <<>>
    /\ managers = [m \in Managers |-> "none"]
    /\ running = TRUE
    /\ answer = [alias |-> "", text |-> "", taken |-> FALSE]

Taken(a) == \E i \in DOMAIN pods : pods[i].alias = a
Answer(a, text) == answer' = [alias |-> a, text |-> text, taken |-> Taken(a)]

\* checkIfAliasOK: TRUE for an alias no pod has.
CheckIfAliasOK(a) == ~Taken(a)

\* isManagerDown answers TRUE once: the status is reset by the question.
IsManagerDown(m) == managers[m] = "down"
Up(m) == managers' = [managers EXCEPT ![m] = "up"]

\* The parent's side of createProcess.  A process that fork() did not make
\* is put into the table as well, and answered as a failure.  Every copy of
\* a PodDescriptor deletes the same probe, so the worker may also end here.
CreateProcess(m, a) ==
    \/ Answer(a, "SERV_NO_EXE") /\ UNCHANGED <<pods, managers, running>>
    \/ /\ Len(pods) < MaxPods
       /\ pods' = Append(pods, [alias |-> a, manager |-> m])
       /\ Up(m) /\ running' \in BOOLEAN
       /\ \E text \in {"started", "fork failed"} : Answer(a, text)

\* RPCInterface::fork: the service exists or not, bind() succeeds or not.
Fork(m, a, exists, bindable) ==
    \/ /\ ~exists
       /\ Answer(a, "SERV_NOT_FOUND") /\ UNCHANGED <<pods, managers, running>>
    \/ /\ exists /\ CheckIfAliasOK(a)
       /\ Answer(a, "alias refused") /\ UNCHANGED <<pods, managers, running>>
    \/ /\ exists /\ ~CheckIfAliasOK(a) /\ ~bindable
       /\ Answer(a, "Port Unavailable") /\ UNCHANGED <<pods, managers, running>>
    \/ /\ exists /\ ~CheckIfAliasOK(a) /\ bindable /\ IsManagerDown(m)
       /\ Up(m) /\ Answer(a, "Manager Down") /\ UNCHANGED <<pods, running>>
    \/ /\ exists /\ ~CheckIfAliasOK(a) /\ bindable /\ ~IsManagerDown(m)
       /\ CreateProcess(m, a)

\* RPCInterface::shutdown with stopPod: the first pod of that alias.
Shutdown(m, a) ==
    \/ /\ IsManagerDown(m)
       /\ Up(m) /\ Answer(a, "Manager Down") /\ UNCHANGED <<pods, running>>
    \/ /\ ~IsManagerDown(m) /\ ~Taken(a)
       /\ Answer(a, "ALIAS_NOT_FOUND") /\ UNCHANGED <<pods, managers, running>>
    \/ /\ ~IsManagerDown(m) /\ Taken(a)
       /\ LET i == SelectInSeq(pods, LAMBDA p : p.alias = a)
          IN  IF pods[i].manager # m
              THEN Answer(a, "USR_ERROR") /\ UNCHANGED <<pods, managers>>
              ELSE \/ Answer(a, "KILL_ERROR") /\ UNCHANGED <<pods, managers>>
                   \/ /\ pods' = RemoveAt(pods, i)
                      /\ Up(m) /\ Answer(a, "SUCCESS")
       /\ UNCHANGED running

\* What RPCInterface::check does to a manager it knows: up again.
Check(m) ==
    /\ managers[m] # "none" /\ Up(m)
    /\ UNCHANGED <<pods, running, answer>>

\* removeManagerNotUsed: the pods of the manager are stopped.
RemoveManagerNotUsed(m) ==
    /\ managers[m] = "up"
    /\ managers' = [managers EXCEPT ![m] = "down"]
    /\ pods' = SelectSeq(pods, LAMBDA p : p.manager # m)
    /\ UNCHANGED <<running, answer>>

Next ==
    /\ running
    /\ \E m \in Managers :
        \/ \E a \in Aliases : \/ \E exists, bindable \in BOOLEAN : Fork(m, a, exists, bindable)
                              \/ Shutdown(m, a)
        \/ Check(m)
        \/ RemoveManagerNotUsed(m)

Spec == Init /\ [][Next]_vars

-----------------------------------------------------------------------------
(***************************************************************************)
(* RPCInterface.cpp 28: before a FORK the worker checks whether the        *)
(* service is created twice and whether the alias can be used.  So a       *)
(* request is refused for its alias only when a pod already has it.        *)
(***************************************************************************)
RefusedAliasIsTaken == answer.text = "alias refused" => answer.taken
=============================================================================
