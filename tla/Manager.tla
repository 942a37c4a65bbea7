------------------------------ MODULE Manager -------------------------------
(***************************************************************************)
(* The manager's view of its workers and pods (src/manager/Manager.cpp,    *)
(* Manager.h, PodDescriptor.cpp, WorkerDescriptor.h, Scheduler.h).         *)
(*                                                                         *)
(* The manager runs in one event loop: a request (connectToWorker,         *)
(* createPod, selectWorkerToCreatePod, transferPod, stopPod) or the timer  *)
(* functor (checkPodsOnAllWorker, then transferDownPod) runs to its end    *)
(* before the next one begins.  `call` says where in it the thread is; one *)
(* step ends at each RPC, so that every answer the worker may give is a    *)
(* step of its own.                                                        *)
(*                                                                         *)
(* The lists WorkerDescriptor::pods and down_services hold pointers to the *)
(* elements of the map `pods`.  A pointer is modelled by the alias of the  *)
(* element; it dangles when the alias is not in `pods`.  When an alias is  *)
(* erased and inserted again the element gets the address it had, which is *)
(* what an allocator does with the last block it was given back.           *)
(*                                                                         *)
(* status = "crashed" stands for a killed process and for everything after *)
(* a step whose behaviour C++ leaves undefined.                            *)
(*                                                                         *)
(* The workers are external: `linked` and `hosted` and the answers to the  *)
(* RPCs are what RpcClientChannel and WorkerRpcInterface.proto allow.      *)
(***************************************************************************)
EXTENDS Naturals, Sequences, SequencesExt

CONSTANTS
    Workers,      \* addresses of worker nodes
    Aliases,      \* aliases of pods
    Port,         \* the port each pod asks for
    NULL,
    Schedulers,   \* who may make a selection: "RoundRobin", which Manager.h
                  \* installs, or "Interface", any strategy that keeps to the
                  \* description of getBestWorker
    MaxRequests,  \* bound on the user's requests
    MaxFaults     \* bound on failures: broken or refused RPCs, exits, expiries

\* A null pointer is neither a worker nor a pod.
ASSUME NullAssumption == NULL \notin Workers \cup Aliases
ASSUME SchedulersAssumption == Schedulers \subseteq {"RoundRobin", "Interface"}
ASSUME BoundsAssumption == MaxRequests \in Nat /\ MaxFaults \in Nat

VARIABLES
    status,      \* "running", "spinning", "blocked" or "crashed"
    call,        \* the operation under way and its local variables
    workers,     \* the list of connected workers
    last,        \* RoundRobin::last
    walive,      \* WorkerDescriptor::alive
    wpods,       \* WorkerDescriptor::pods
    pods,        \* the keys of the map `pods`
    desc,        \* the values of the map: alive_ and wd_
    down,        \* down_services
    linked,      \* session->connected()
    hosted,      \* the pods a worker runs for this manager
    requests, faults,   \* counters of the bounds
    lost,        \* history: pods taken down by a failure, not started since
    expired,     \* history: the same, by a worker's "*"
    startedOn    \* history: the worker of the last FORK that succeeded

mgr  == <<workers, last, walive, wpods, pods, desc, down>>
env  == <<linked, hosted>>
hist == <<lost, expired, startedOn>>
vars == <<status, call, mgr, env, requests, faults, hist>>

-----------------------------------------------------------------------------
Blank == [alive |-> FALSE, wd |-> NULL]

\* The locals of an operation: its pod, transferPod's old_info, and the
\* position of the loop over workers or down_services (0: called by a user).
Call(op, a, old, i) == [op |-> op, alias |-> a, old |-> old, i |-> i]
Idle == Call("idle", NULL, Blank, 0)

Running(op) == status = "running" /\ call.op = op

Request == Running("idle")
Budget == requests < MaxRequests /\ requests' = requests + 1
Fault == faults < MaxFaults /\ faults' = faults + 1

Init ==
    /\ status = "running" /\ call = Idle
    /\ workers = <<>> /\ pods = {} /\ down = <<>>
    /\ walive = [w \in Workers |-> FALSE] /\ linked = [w \in Workers |-> FALSE]
    /\ wpods = [w \in Workers |-> <<>>] /\ hosted = [w \in Workers |-> {}]
    /\ desc = [a \in Aliases |-> Blank] /\ startedOn = [a \in Aliases |-> NULL]
    /\ requests = 0 /\ faults = 0 /\ last = 0 /\ lost = {} /\ expired = {}

\* Following a pointer that dangles is undefined.
Deref(pointers) == status' = IF pointers \subseteq pods THEN status ELSE "crashed"

\* PodDescriptor::bindWorker on the element a, for a worker that is not null.
BindWorker(a, w) ==
    /\ desc' = [desc EXCEPT ![a].wd = w]
    /\ wpods' = [wpods EXCEPT ![w] = Append(@, a)]

\* The pod was started or erased.
Forget(a) == lost' = lost \ {a} /\ expired' = expired \ {a}

\* pods.erase(a): the destructor takes the pointer out of its worker's list.
Erase(a) ==
    /\ pods' = pods \ {a}
    /\ desc' = [desc EXCEPT ![a] = Blank]
    /\ wpods' = [w \in Workers |-> IF w = desc[a].wd THEN RemoveFirst(wpods[w], a)
                                                     ELSE wpods[w]]
    /\ Forget(a)

\* The descriptors once every pod listed for worker w is marked dead.
Downed(w) == [a \in Aliases |-> IF a \in pods \cap ToSet(wpods[w])
                                THEN [desc[a] EXCEPT !.alive = FALSE] ELSE desc[a]]

(***************************************************************************)
(* What can become of an RPC to worker w whose answer is not a success. A  *)
(* channel that is not connected fails at once; one that is may break, and *)
(* most errors, not all, disconnect it (RpcClientChannel.h 113-163).       *)
(***************************************************************************)
RpcBroken(w) ==
    \/ ~linked[w] /\ UNCHANGED <<linked, faults>>
    \/ linked[w] /\ Fault /\ \E c \in BOOLEAN : linked' = [linked EXCEPT ![w] = c]

(***************************************************************************)
(* selectWorker.  In RoundRobin::getBestWorker i-- and i++ undo each other *)
(* and `it` stays at the first worker: that worker is returned if          *)
(* last % size is 1 and it is alive with the port free, and otherwise the  *)
(* loop never ends.  On an empty list the remainder is a division by zero. *)
(* "Interface" returns a worker that is alive with the port free, or null. *)
(***************************************************************************)
PortAvailable(w, a) == \A b \in ToSet(wpods[w]) : Port[b] # Port[a]
Available(a) == {w \in ToSet(workers) : walive[w] /\ PortAvailable(w, a)}

RoundRobin(a) ==
    {w \in Available(a) : last % Len(workers) = 1 /\ w = Head(workers)}

Selectable(s, a) == IF s = "RoundRobin" THEN RoundRobin(a) ELSE {NULL} \cup Available(a)

SelectSpins(s, a) ==
    /\ s = "RoundRobin" /\ workers # <<>> /\ RoundRobin(a) = {}
    /\ status' = "spinning"
SelectTraps(s) == s = "RoundRobin" /\ workers = <<>> /\ status' = "crashed"

\* last.fetch_add(1)
Select(s) == last' = IF s = "RoundRobin" THEN last + 1 ELSE last

(***************************************************************************)
(* Requests.                                                               *)
(***************************************************************************)
ConnectToWorker(w) ==
    /\ Request /\ w \notin ToSet(workers)
    /\ workers' = Append(workers, w)
    /\ \E c \in BOOLEAN : linked' = [linked EXCEPT ![w] = c]
    /\ walive' = [walive EXCEPT ![w] = linked'[w]]
    /\ UNCHANGED <<status, call, last, wpods, pods, desc, down, hosted, faults, hist>>

\* createPod up to its FORK.  An alias that is taken is refused unchanged.
CreatePod(w, a) ==
    /\ Request /\ w \in ToSet(workers) /\ a \notin pods
    /\ pods' = pods \cup {a}
    /\ desc' = [desc EXCEPT ![a] = [alive |-> TRUE, wd |-> w]]
    /\ call' = Call("create", a, Blank, 0)
    /\ UNCHANGED <<status, workers, last, walive, wpods, down, env, faults, hist>>

\* Mutant: when no worker is selected the descriptor stays in the map.
SelectKeepsUnbound(a) ==
    /\ Request
    /\ \E s \in Schedulers :
          /\ Select(s)
          /\ \/ \E w \in Selectable(s, a) \cap Workers :
                   /\ pods' = pods \cup {a} /\ BindWorker(a, w)
                   /\ call' = Call("select", a, Blank, 0)
                   /\ Deref(ToSet(wpods[w]) \ {a})
             \/ /\ NULL \in Selectable(s, a)
                /\ pods' = pods \cup {a} /\ desc' = [desc EXCEPT ![a].wd = NULL]
                /\ UNCHANGED <<status, call, wpods>>
    /\ UNCHANGED <<workers, walive, down, env, faults, hist>>

\* selectWorkerToCreatePod up to its FORK; it does not look whether the
\* alias was in the map before.
SelectWorkerToCreatePod(a) ==
    /\ Request
    /\ \E s \in Schedulers :
          /\ Select(s)
          /\ \/ /\ SelectSpins(s, a) \/ SelectTraps(s)
                /\ pods' = pods \cup {a}
                /\ UNCHANGED <<call, wpods, desc, lost, expired>>
             \/ \E w \in Selectable(s, a) \cap Workers :
                   /\ pods' = pods \cup {a} /\ BindWorker(a, w)
                   /\ call' = Call("select", a, Blank, 0)
                   /\ Deref(ToSet(wpods[w]) \ {a})
                   /\ UNCHANGED <<lost, expired>>
             \/ /\ NULL \in Selectable(s, a)
                /\ pods' = pods \ {a} /\ desc' = [desc EXCEPT ![a] = Blank]
                /\ Forget(a)
                /\ UNCHANGED <<status, call, wpods>>
    /\ UNCHANGED <<workers, walive, down, env, faults, startedOn>>

\* transferPod up to its FORK.
TransferPod(a, w) ==
    /\ Request /\ a \in pods /\ w \in ToSet(workers)
    /\ BindWorker(a, w)
    /\ call' = Call("transfer", a, desc[a], 0)
    /\ UNCHANGED <<status, workers, last, walive, pods, down, env, faults, hist>>

\* stopPod up to its SHUTDOWN.  A pod that is not alive is not shut down:
\* the call fails, and the pointer goes back to the end of the list.
StopPod(a) ==
    /\ Request /\ a \in pods
    /\ LET rest == RemoveFirst(wpods[desc[a].wd], a)
       IN  IF desc[a].alive
           THEN /\ wpods' = [wpods EXCEPT ![desc[a].wd] = rest]
                /\ call' = Call("stop", a, Blank, 0)
           ELSE /\ wpods' = [wpods EXCEPT ![desc[a].wd] = Append(rest, a)]
                /\ UNCHANGED call
    /\ UNCHANGED <<status, workers, last, walive, pods, desc, down, env, faults, hist>>

(***************************************************************************)
(* The answer to FORK, in createPod and createService.                     *)
(***************************************************************************)
Forking == status = "running" /\ call.op \in {"create", "select", "transfer", "restart"}
Target == desc[call.alias].wd

\* The loop of transferDownPod is at position i of down_services.
Scan(i) == Call("scan", NULL, Blank, i)

(***************************************************************************)
(* The end of transferPod and createService for their caller: a user, or   *)
(* transferDownPod, which calls removeDownService.  That erases the first  *)
(* entry for the pod; if it is the one the range-for stands on, advancing  *)
(* from the freed node is undefined: it finds the next entry or crashes.   *)
(***************************************************************************)
Finish(queue) ==
    IF call.i = 0
    THEN call' = Idle /\ down' = queue /\ UNCHANGED status
    ELSE /\ down' = RemoveFirst(queue, call.alias)
         /\ call' = Scan(call.i)
         /\ \/ UNCHANGED status
            \/ status' = "crashed" /\ SelectInSeq(queue, LAMBDA b : b = call.alias) = call.i

ForkSucceeds ==
    /\ Forking /\ linked[Target]
    /\ hosted' = [hosted EXCEPT ![Target] = @ \cup {call.alias}]
    /\ startedOn' = [startedOn EXCEPT ![call.alias] = Target]
    /\ Forget(call.alias)
    /\ UNCHANGED <<workers, last, walive, pods, linked, requests, faults>>

\* createPod pushes a pointer to its local descriptor, and the destructor
\* of that local takes it out again: the list is as before.
ForkedByCreate ==
    /\ ForkSucceeds /\ call.op = "create"
    /\ call' = Idle
    /\ UNCHANGED <<status, wpods, desc, down>>

ForkedBySelect ==
    /\ ForkSucceeds /\ call.op = "select"
    /\ desc' = [desc EXCEPT ![call.alias].alive = TRUE]
    /\ call' = Idle
    /\ UNCHANGED <<status, wpods, down>>

ForkedByRestart ==
    /\ ForkSucceeds /\ call.op = "restart"
    /\ desc' = [desc EXCEPT ![call.alias].alive = TRUE]
    /\ Finish(down)
    /\ UNCHANGED wpods

\* A pod that was alive is shut down on its old worker first.
ForkedByTransfer ==
    /\ ForkSucceeds /\ call.op = "transfer"
    /\ desc' = [desc EXCEPT ![call.alias].alive = TRUE]
    /\ IF call.old.alive
       THEN /\ wpods' = [wpods EXCEPT ![call.old.wd] = RemoveFirst(@, call.alias)]
            /\ call' = [call EXCEPT !.op = "shutOld"]
            /\ UNCHANGED <<status, down>>
       ELSE /\ wpods' = [wpods EXCEPT ![Target] = Append(@, call.alias)]
            /\ Finish(down)

\* Mutant: the worker's list is emptied before its pods are queued.
ForkManagerDownUnqueued ==
    /\ Forking /\ linked[Target] /\ Fault
    /\ hosted' = [hosted EXCEPT ![Target] = {}]
    /\ Deref(ToSet(wpods[Target]))
    /\ desc' = Downed(Target)
    /\ wpods' = [wpods EXCEPT ![Target] = <<>>]
    /\ lost' = lost \cup (pods \cap ToSet(wpods[Target]))
    /\ UNCHANGED <<call, workers, last, walive, pods, down, linked, requests, expired, startedOn>>

\* "Manager Down": the worker had given this manager up and killed its
\* pods.  They are marked and queued, the list is emptied, FORK is retried.
ForkManagerDown ==
    /\ Forking /\ linked[Target] /\ Fault
    /\ hosted' = [hosted EXCEPT ![Target] = {}]
    /\ Deref(ToSet(wpods[Target]))
    /\ desc' = Downed(Target)
    /\ down' = down \o wpods[Target]
    /\ wpods' = [wpods EXCEPT ![Target] = <<>>]
    /\ lost' = lost \cup (pods \cap ToSet(wpods[Target]))
    /\ UNCHANGED <<call, workers, last, walive, pods, linked, requests, expired, startedOn>>

\* Mutant: a transfer that failed does not restore the old descriptor.
ForkFailsNoRollback ==
    /\ Forking /\ RpcBroken(Target)
    /\ \/ /\ call.op \in {"create", "select"}
          /\ Erase(call.alias) /\ call' = Idle
       \/ /\ call.op \in {"transfer", "restart"}
          /\ call' = IF call.i = 0 THEN Idle ELSE Scan(call.i + 1)
          /\ UNCHANGED <<pods, desc, wpods, lost, expired>>
    /\ UNCHANGED <<status, workers, last, walive, down, hosted, requests, startedOn>>

\* FORK is refused, or the RPC breaks before or after the worker has forked.
ForkFails ==
    /\ Forking
    /\ \/ /\ linked[Target] /\ Fault /\ UNCHANGED <<linked, hosted>>
       \/ /\ RpcBroken(Target)
          /\ hosted' \in {hosted} \cup
                {[hosted EXCEPT ![w] = @ \cup {call.alias}] : w \in {v \in {Target} : linked[v]}}
    /\ \/ /\ call.op \in {"create", "select"}
          /\ Erase(call.alias) /\ call' = Idle
       \/ /\ call.op = "transfer"
          /\ desc' = [desc EXCEPT ![call.alias] = call.old]
          /\ call' = IF call.i = 0 THEN Idle ELSE Scan(call.i + 1)
          /\ UNCHANGED <<pods, wpods, lost, expired>>
       \/ /\ call.op = "restart"
          /\ call' = Scan(call.i + 1)
          /\ UNCHANGED <<pods, desc, wpods, lost, expired>>
    /\ UNCHANGED <<status, workers, last, walive, down, requests, startedOn>>

(***************************************************************************)
(* The answer to SHUTDOWN.  stopPod reads alive_ of the element it has     *)
(* just erased; shutdownPod left TRUE there, but the memory is free.       *)
(***************************************************************************)
Stopped(queue) ==
    /\ pods' = pods \ {call.alias}
    /\ \E freed_alive \in BOOLEAN :
          down' = IF freed_alive THEN queue ELSE RemoveFirst(queue, call.alias)
    /\ call' = Idle

StopSucceeds ==
    /\ Running("stop") /\ linked[Target]
    /\ hosted' = [hosted EXCEPT ![Target] = @ \ {call.alias}]
    /\ Erase(call.alias) /\ Stopped(down)
    /\ UNCHANGED <<status, workers, last, walive, linked, requests, faults, startedOn>>

\* "Manager Down" counts as success: the other pods of the worker go down.
StopManagerDown ==
    /\ Running("stop") /\ linked[Target] /\ Fault
    /\ hosted' = [hosted EXCEPT ![Target] = {}]
    /\ Deref(ToSet(wpods[Target]))
    /\ desc' = [Downed(Target) EXCEPT ![call.alias] = Blank]
    /\ wpods' = [wpods EXCEPT ![Target] = <<>>]
    /\ lost' = (lost \cup (pods \cap ToSet(wpods[Target]))) \ {call.alias}
    /\ expired' = expired \ {call.alias}
    /\ Stopped(down \o wpods[Target])
    /\ UNCHANGED <<workers, last, walive, linked, requests, startedOn>>

\* A SHUTDOWN to worker w that fails, before or after the pod was killed.
ShutdownFails(w) ==
    \/ linked[w] /\ Fault /\ UNCHANGED <<linked, hosted>>
    \/ /\ RpcBroken(w)
       /\ hosted' \in {hosted} \cup
             {[hosted EXCEPT ![v] = @ \ {call.alias}] : v \in {u \in {w} : linked[u]}}

\* The pod stays in the map, marked dead whatever became of it.
StopFails ==
    /\ Running("stop") /\ ShutdownFails(Target)
    /\ desc' = [desc EXCEPT ![call.alias].alive = FALSE]
    /\ wpods' = [wpods EXCEPT ![Target] = Append(@, call.alias)]
    /\ call' = Idle
    /\ UNCHANGED <<status, workers, last, walive, pods, down, requests, hist>>

\* transferPod has shut the old copy down, or failed to: it does not matter.
\* bindWorker pushed the pod to the new worker's list, transferPod does again.
OldShut ==
    /\ Running("shutOld")
    /\ \/ /\ linked[call.old.wd]
          /\ hosted' = [hosted EXCEPT ![call.old.wd] = @ \ {call.alias}]
          /\ UNCHANGED <<linked, faults>>
       \/ ShutdownFails(call.old.wd)
    /\ wpods' = [wpods EXCEPT ![Target] = Append(@, call.alias)]
    /\ Finish(down)
    /\ UNCHANGED <<workers, last, walive, pods, desc, requests, hist>>

OldShutManagerDown ==
    /\ Running("shutOld") /\ linked[call.old.wd] /\ Fault
    /\ hosted' = [hosted EXCEPT ![call.old.wd] = {}]
    /\ desc' = Downed(call.old.wd)
    /\ wpods' = [[wpods EXCEPT ![call.old.wd] = <<>>] EXCEPT ![Target] = Append(@, call.alias)]
    /\ lost' = lost \cup (pods \cap ToSet(wpods[call.old.wd]))
    /\ IF ToSet(wpods[call.old.wd]) \subseteq pods
       THEN Finish(down \o wpods[call.old.wd])
       ELSE status' = "crashed" /\ UNCHANGED <<call, down>>
    /\ UNCHANGED <<workers, last, walive, pods, linked, requests, expired, startedOn>>

(***************************************************************************)
(* The timer functor: checkPodsOnAllWorker, at most every five seconds,    *)
(* then transferDownPod.                                                   *)
(***************************************************************************)
Tick(op) ==
    /\ Running("idle")
    /\ call' = Call(op, NULL, Blank, 1)
    /\ UNCHANGED <<status, mgr, env, requests, faults, hist>>

CheckPodsOnAllWorker == Tick("check")
TransferDownPod == Tick("scan")

Worker == workers[call.i]
Checking == Running("check") /\ call.i <= Len(workers)
NextWorker == call' = [Idle EXCEPT !.op = "check", !.i = call.i + 1]

CheckDone ==
    /\ Running("check") /\ call.i > Len(workers)
    /\ call' = Scan(1)
    /\ UNCHANGED <<status, mgr, env, requests, faults, hist>>

\* Mutant: the result of reconnect() is not stored.
ReconnectForgotten ==
    /\ Checking /\ ~walive[Worker]
    /\ linked' = [linked EXCEPT ![Worker] = TRUE]
    /\ NextWorker
    /\ UNCHANGED <<status, mgr, hosted, requests, faults, hist>>

Reconnect ==
    /\ Checking /\ ~walive[Worker]
    /\ \/ linked' = [linked EXCEPT ![Worker] = TRUE] /\ UNCHANGED faults
       \/ linked' = [linked EXCEPT ![Worker] = FALSE] /\ Fault
    /\ walive' = [walive EXCEPT ![Worker] = linked'[Worker]]
    /\ NextWorker
    /\ UNCHANGED <<status, workers, last, wpods, pods, desc, down, hosted, requests, hist>>

\* checkServices, when its RPC fails.
CheckBroken ==
    /\ Checking /\ walive[Worker] /\ RpcBroken(Worker)
    /\ walive' = [walive EXCEPT ![Worker] = FALSE]
    /\ Deref(ToSet(wpods[Worker]))
    /\ desc' = Downed(Worker)
    /\ down' = down \o wpods[Worker]
    /\ lost' = lost \cup (pods \cap ToSet(wpods[Worker]))
    /\ NextWorker
    /\ UNCHANGED <<workers, last, wpods, pods, hosted, requests, expired, startedOn>>

\* The answer is "*": the worker had given the manager up.  The pods are
\* marked dead and not queued.
CheckExpired ==
    /\ Checking /\ walive[Worker] /\ linked[Worker] /\ Fault
    /\ hosted' = [hosted EXCEPT ![Worker] = {}]
    /\ Deref(ToSet(wpods[Worker]))
    /\ desc' = Downed(Worker)
    /\ expired' = expired \cup {a \in pods \cap ToSet(wpods[Worker]) : desc[a].alive}
    /\ NextWorker
    /\ UNCHANGED <<workers, last, walive, wpods, pods, down, linked, requests, lost, startedOn>>

\* The answer is a list, possibly empty; "report" is the loop over it.
CheckAnswered ==
    /\ Checking /\ walive[Worker] /\ linked[Worker]
    /\ call' = [call EXCEPT !.op = "report"]
    /\ UNCHANGED <<status, mgr, env, requests, faults, hist>>

\* One entry of the list: pod a, which the worker ran, has exited.
CheckExit(a, exit) ==
    /\ Running("report") /\ Fault
    /\ a \in hosted[Worker]
    /\ hosted' = [hosted EXCEPT ![Worker] = @ \ {a}]
    /\ IF a \in pods
       THEN /\ desc' = [desc EXCEPT ![a].alive = FALSE]
            /\ down' = IF exit # 0 THEN Append(down, a) ELSE down
            /\ lost' = IF exit # 0 THEN lost \cup {a} ELSE lost
       ELSE UNCHANGED <<desc, down, lost>>
    /\ UNCHANGED <<status, call, workers, last, walive, wpods, pods, linked, requests, expired, startedOn>>

CheckReported ==
    /\ Running("report")
    /\ NextWorker
    /\ UNCHANGED <<status, mgr, env, requests, faults, hist>>

\* One iteration of transferDownPod.
ScanEnd ==
    /\ Running("scan") /\ call.i > Len(down)
    /\ call' = Idle
    /\ UNCHANGED <<status, mgr, env, requests, faults, hist>>

Scanning == Running("scan") /\ call.i <= Len(down)
Pod == down[call.i]

ScanDangling ==
    /\ Scanning /\ Pod \notin pods
    /\ status' = "crashed"
    /\ UNCHANGED <<call, mgr, env, requests, faults, hist>>

\* The pod's worker is alive: start the pod there again.
ScanRestart ==
    /\ Scanning /\ Pod \in pods /\ walive[desc[Pod].wd]
    /\ call' = Call("restart", Pod, Blank, call.i)
    /\ UNCHANGED <<status, mgr, env, requests, faults, hist>>

\* It is not: select another and transfer the pod.  createService follows
\* the null pointer when none was selected.
ScanTransfer ==
    /\ Scanning /\ Pod \in pods /\ ~walive[desc[Pod].wd]
    /\ \E s \in Schedulers :
          /\ Select(s)
          /\ \/ SelectSpins(s, Pod) /\ UNCHANGED <<call, wpods, desc>>
             \/ \E w \in Selectable(s, Pod) \cap Workers :
                   /\ BindWorker(Pod, w) /\ Deref(ToSet(wpods[w]))
                   /\ call' = Call("transfer", Pod, desc[Pod], call.i)
             \/ /\ NULL \in Selectable(s, Pod)
                /\ status' = "crashed"
                /\ UNCHANGED <<call, wpods, desc>>
    /\ UNCHANGED <<workers, walive, pods, down, env, requests, faults, hist>>

-----------------------------------------------------------------------------
UserRequest ==
    /\ Budget
    /\ \/ \E w \in Workers : ConnectToWorker(w)
       \/ \E w \in Workers, a \in Aliases : CreatePod(w, a) \/ TransferPod(a, w)
       \/ \E a \in Aliases : SelectWorkerToCreatePod(a) \/ StopPod(a)

(***************************************************************************)
(* An RPC under way that never returns: the one alarm of the process may   *)
(* interrupt another thread, or a read that is then begun again            *)
(* (RpcClientChannel.h 169-183, 208-223; module RpcChannel).               *)
(***************************************************************************)
RpcBlocks ==
    /\ \/ (Forking \/ Running("stop")) /\ linked[Target]
       \/ Running("shutOld") /\ linked[call.old.wd]
       \/ Checking /\ walive[Worker] /\ linked[Worker]
    /\ status' = "blocked"
    /\ UNCHANGED <<call, mgr, env, requests, faults, hist>>

Answer ==
    \/ RpcBlocks
    \/ ForkedByCreate \/ ForkedBySelect \/ ForkedByRestart \/ ForkedByTransfer
    \/ ForkManagerDown \/ ForkFails
    \/ StopSucceeds \/ StopManagerDown \/ StopFails
    \/ OldShut \/ OldShutManagerDown

Functor ==
    \/ CheckPodsOnAllWorker \/ TransferDownPod
    \/ CheckDone \/ Reconnect \/ CheckBroken \/ CheckExpired
    \/ CheckAnswered \/ CheckReported
    \/ (\E a \in Aliases, exit \in {0, 1} : CheckExit(a, exit))
    \/ ScanEnd \/ ScanDangling \/ ScanRestart \/ ScanTransfer

Next == UserRequest \/ Answer \/ Functor

Spec == Init /\ [][Next]_vars

(***************************************************************************)
(* The event loop goes on: an RPC returns or is known never to, and the    *)
(* five seconds between two checks pass.                                   *)
(***************************************************************************)
FairSpec == Spec /\ WF_vars(Answer \/ Functor) /\ SF_vars(CheckPodsOnAllWorker)

-----------------------------------------------------------------------------
Ops == {"idle", "create", "select", "transfer", "restart", "stop", "shutOld",
        "check", "report", "scan"}
Descriptor == [alive : BOOLEAN, wd : Workers \cup {NULL}]

\* Between two operations every pod in the map is bound to a worker.
TypeOK ==
    /\ status \in {"running", "spinning", "blocked", "crashed"}
    /\ call.op \in Ops /\ call.alias \in Aliases \cup {NULL}
    /\ call.old \in Descriptor /\ call.i \in Nat
    /\ workers \in Seq(Workers) /\ pods \subseteq Aliases
    /\ walive \in [Workers -> BOOLEAN] /\ linked \in [Workers -> BOOLEAN]
    /\ \A w \in Workers : wpods[w] \in Seq(Aliases) /\ hosted[w] \subseteq Aliases
    /\ desc \in [Aliases -> Descriptor] /\ down \in Seq(Aliases)
    /\ requests \in 0..MaxRequests /\ faults \in 0..MaxFaults
    /\ last \in Nat /\ expired \subseteq Aliases
    /\ lost \subseteq pods /\ startedOn \in [Aliases -> Workers \cup {NULL}]
    /\ status = "running" => \A a \in pods : desc[a].wd \in ToSet(workers)

(***************************************************************************)
(* A pod that was taken down because its worker did not answer a CHECK or  *)
(* answered "Manager Down" to another RPC, or that exited with an error,   *)
(* is in down_services until it has been started again or stopped,         *)
(* although entries are removed one match at a time and lists are emptied  *)
(* and filled at several places (Manager.cpp 86-91, 252-277, 325-329,      *)
(* 365-373, 394-410, 625-629).  It does not say so of the pods a worker's  *)
(* "*" takes down, which FailedIsQueued shows to be forgotten.             *)
(***************************************************************************)
LostIsQueued == status = "running" => lost \subseteq ToSet(down)

(***************************************************************************)
(* A pod recorded as alive is recorded on the worker where it was last     *)
(* started, also after a transfer that failed half-way (Manager.cpp        *)
(* 139-167): the address handed to clients is the address of that worker.  *)
(***************************************************************************)
AliveWhereStarted ==
    status = "running" =>
        \A a \in pods \ {call.alias} : desc[a].alive => startedOn[a] = desc[a].wd

(***************************************************************************)
(* A worker that was down when it was connected, or went down later, is    *)
(* alive again once it can be reached (Manager.h 105, Manager.cpp 183),    *)
(* unless the loop has ended in a selection, an RPC or a crash.            *)
(***************************************************************************)
DownWorkerRejoins ==
    \A w \in Workers :
        (w \in ToSet(workers) /\ ~walive[w]) ~> (walive[w] \/ status # "running")

(***************************************************************************)
(* Manager.cpp 367: when a worker turns out not to be alive, all of its    *)
(* pods are turned down.                                                   *)
(***************************************************************************)
WorkerDownMarksPods ==
    [][\A w \in Workers, a \in pods :
          walive[w] /\ ~walive'[w] /\ desc[a].wd = w => ~desc'[a].alive]_vars

(***************************************************************************)
(* Manager.h 128: an entry of down_services is deleted when the pod is up  *)
(* again or stopped by the user.                                           *)
(***************************************************************************)
DownServiceDeleted ==
    Running("idle") => \A a \in ToSet(down) : a \in pods /\ ~desc[a].alive

(***************************************************************************)
(* Manager.h 51-52: when a task fails it is tried to start it again, and   *)
(* when a worker fails all of its tasks are scheduled elsewhere.  Both are *)
(* what transferDownPod does with the pods in down_services.               *)
(***************************************************************************)
FailedIsQueued == status = "running" => lost \cup expired \subseteq ToSet(down)
=============================================================================
