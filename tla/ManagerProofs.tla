--------------------------- MODULE ManagerProofs ----------------------------
(***************************************************************************)
(* TLAPS proofs about Manager, for every set of workers and pods and every *)
(* number of requests and failures, with either scheduler: a pod taken     *)
(* down by a failure, other than a worker's "*", is not forgotten, and a   *)
(* pod recorded as alive is where it was last started.                     *)
(***************************************************************************)
EXTENDS Manager, ListTheorems

-----------------------------------------------------------------------------
(* The inductive invariant.                                                *)

CallType == [op : Ops, alias : Aliases \cup {NULL}, old : Descriptor, i : Nat]

\* TypeOK without the counters and with what is a function said to be one.
TypeInv ==
    /\ status \in {"running", "spinning", "blocked", "crashed"} /\ call \in CallType
    /\ workers \in Seq(Workers) /\ pods \subseteq Aliases
    /\ walive \in [Workers -> BOOLEAN] /\ linked \in [Workers -> BOOLEAN]
    /\ wpods \in [Workers -> Seq(Aliases)] /\ hosted \in [Workers -> SUBSET Aliases]
    /\ desc \in [Aliases -> Descriptor] /\ down \in Seq(Aliases)
    /\ faults \in 0..MaxFaults
    /\ lost \subseteq pods /\ startedOn \in [Aliases -> Workers \cup {NULL}]

\* No pod of the map is bound to a worker that was never connected.
BoundInv == status = "running" => \A a \in pods : desc[a].wd \in ToSet(workers)

\* The locals of the operation under way.  A pod that transferDownPod works
\* on is still queued, and transferPod remembers a worker to go back to.
CallInv ==
    status = "running" =>
        /\ call.op \in {"create", "select", "transfer", "restart", "stop", "shutOld"}
              => call.alias \in pods
        /\ call.op \in {"idle", "check", "report", "scan"} => call.alias = NULL
        /\ call.op \in {"transfer", "shutOld"} => call.old.wd \in ToSet(workers)
        /\ call.op \in {"transfer", "restart", "shutOld"} /\ call.i # 0
              => call.alias \in ToSet(down)
        /\ call.op \in {"check", "report", "scan"} => call.i >= 1
        /\ call.op = "report" => call.i <= Len(workers)
        /\ call.op = "shutOld" => call.alias \notin lost

\* AliveWhereStarted, for the pod under way too where it holds, and for the
\* descriptor that a failed transfer puts back.
AliveInv ==
    status = "running" =>
        /\ \A a \in pods :
              (a # call.alias \/ call.op \in {"restart", "stop", "shutOld"}) /\ desc[a].alive
                 => startedOn[a] = desc[a].wd
        /\ call.op = "transfer" /\ call.old.alive => startedOn[call.alias] = call.old.wd

MInv == TypeInv /\ BoundInv /\ CallInv /\ LostIsQueued /\ AliveInv

-----------------------------------------------------------------------------
(* What the parts of an action do.                                         *)

\* Marking the pods of a worker dead changes nothing else about them.
LEMMA DownedFacts ==
    ASSUME TypeInv, NEW w \in Workers
    PROVE  /\ Downed(w) \in [Aliases -> Descriptor]
           /\ \A a \in Aliases : /\ Downed(w)[a].wd = desc[a].wd
                                 /\ Downed(w)[a].alive => desc[a].alive
BY DEF TypeInv, Downed, Descriptor

\* A failed RPC leaves the link and the bound on failures well typed.
LEMMA RpcBrokenFacts ==
    ASSUME TypeInv, NEW w \in Workers, RpcBroken(w)
    PROVE  linked' \in [Workers -> BOOLEAN] /\ faults' \in 0..MaxFaults
<1>1. linked \in [Workers -> BOOLEAN] /\ faults \in 0..MaxFaults BY DEF TypeInv
<1>2. CASE ~linked[w] /\ UNCHANGED <<linked, faults>>
  BY <1>1, <1>2
<1>3. CASE Fault /\ \E c \in BOOLEAN : linked' = [linked EXCEPT ![w] = c]
  <2>1. linked' \in [Workers -> BOOLEAN] BY <1>1, <1>3, Zenon
  <2>2. faults' \in 0..MaxFaults BY <1>1, <1>3, BoundsAssumption DEF Fault
  <2> QED BY <2>1, <2>2
<1> QED BY <1>2, <1>3 DEF RpcBroken

\* A connected worker is a worker.
LEMMA ConnectedFacts ==
    ASSUME TypeInv
    PROVE  /\ ToSet(workers) \subseteq Workers
           /\ \A i \in 1..Len(workers) : workers[i] \in Workers
           /\ Len(workers) \in Nat
           /\ \A s, a : Selectable(s, a) \cap Workers \subseteq ToSet(workers)
<1>1. workers \in Seq(Workers) BY DEF TypeInv
<1>2. ToSet(workers) \subseteq Workers BY <1>1, ElementsOf
<1>3. \A s, a : Selectable(s, a) \cap Workers \subseteq ToSet(workers)
  BY NullAssumption DEF Selectable, RoundRobin, Available
<1>4. (\A i \in 1..Len(workers) : workers[i] \in Workers) /\ Len(workers) \in Nat
  BY <1>1, ElementOfSeq, LenProperties
<1> QED BY <1>2, <1>3, <1>4

\* transferPod and createService return to a user or to transferDownPod,
\* which takes one entry of this pod, and of no other, off the queue.
LEMMA FinishFacts ==
    ASSUME TypeInv, status = "running", NEW queue \in Seq(Aliases), Finish(queue)
    PROVE  /\ down' \in Seq(Aliases)
           /\ status' \in {"running", "crashed"}
           /\ ToSet(queue) \ {call.alias} \subseteq ToSet(down')
           /\ \/ call.i = 0 /\ down' = queue
              \/ call.i # 0 /\ down' = RemoveFirst(queue, call.alias)
           /\ call' \in CallType /\ call'.alias = NULL
           /\ call'.op = "idle" \/ (call'.op = "scan" /\ call'.i >= 1)
<1> USE DEF TypeInv, CallType, Descriptor, Ops, Idle, Scan, Call, Blank
<1>1. CASE call.i = 0
  <2>1. call' = Idle /\ down' = queue /\ status' = status
    BY <1>1, Zenon DEF Finish
  <2> QED BY <1>1, <2>1
<1>2. CASE call.i # 0
  <2>1. down' = RemoveFirst(queue, call.alias) /\ call' = Scan(call.i)
        /\ status' \in {"running", "crashed"}
    BY <1>2 DEF Finish
  <2>2. RemoveFirst(queue, call.alias) \in Seq(Aliases)
        /\ ToSet(queue) \ {call.alias} \subseteq ToSet(RemoveFirst(queue, call.alias))
    BY ElementsOfRemoveFirst
  <2> QED BY <1>2, <2>1, <2>2
<1> QED BY <1>1, <1>2

-----------------------------------------------------------------------------
(* The user's requests.                                                    *)

\* Nothing has happened yet: no worker, no pod, nothing queued.
LEMMA InitMInv == Init => MInv
<1> SUFFICES ASSUME Init PROVE MInv OBVIOUS
<1>1. TypeInv
  BY BoundsAssumption, EmptySeq
     DEF Init, TypeInv, CallType, Ops, Descriptor, Idle, Call, Blank
<1>2. BoundInv /\ CallInv /\ LostIsQueued /\ AliveInv
  BY DEF Init, BoundInv, CallInv, LostIsQueued, AliveInv, Idle, Call
<1> QED BY <1>1, <1>2 DEF MInv

\* The connected workers only grow.
LEMMA ConnectStep ==
    ASSUME MInv, NEW w \in Workers, ConnectToWorker(w)
    PROVE  MInv'
<1> USE DEF MInv
<1>1. workers \in Seq(Workers) /\ call.op = "idle"
  BY DEF TypeInv, ConnectToWorker, Request, Running
<1>2. workers' \in Seq(Workers) /\ ToSet(workers) \subseteq ToSet(workers')
  BY <1>1, ElementsOfAppend DEF ConnectToWorker
<1>3. linked' \in [Workers -> BOOLEAN] /\ walive' \in [Workers -> BOOLEAN]
  BY Zenon DEF TypeInv, ConnectToWorker
<1>4. TypeInv' BY <1>2, <1>3 DEF TypeInv, ConnectToWorker, hist
<1>5. BoundInv' BY <1>2 DEF BoundInv, ConnectToWorker
<1>6. CallInv' BY <1>1 DEF CallInv, ConnectToWorker
<1>7. LostIsQueued' BY DEF LostIsQueued, ConnectToWorker, hist
<1>8. AliveInv' BY DEF AliveInv, ConnectToWorker, hist
<1> QED BY <1>4, <1>5, <1>6, <1>7, <1>8

\* A new pod is under way, and the others are as before.
LEMMA CreateStep ==
    ASSUME MInv, NEW w \in Workers, NEW a \in Aliases, CreatePod(w, a)
    PROVE  MInv'
<1> USE DEF MInv, CreatePod, hist, env
<1>1. call.op = "idle" /\ status = "running" BY DEF Request, Running
<1>2. TypeInv'
  BY <1>1 DEF TypeInv, CallType, Ops, Descriptor, Call, Blank
<1>3. BoundInv' BY <1>1 DEF BoundInv, TypeInv
<1>4. CallInv' BY <1>1 DEF CallInv, Call
<1>5. LostIsQueued' BY DEF LostIsQueued
<1>6. AliveInv'
  BY <1>1, NullAssumption DEF AliveInv, CallInv, Call, TypeInv
<1> QED BY <1>2, <1>3, <1>4, <1>5, <1>6

\* The pod may have been in the map before; it is bound anew all the same.
LEMMA SelectStep ==
    ASSUME MInv, NEW a \in Aliases, SelectWorkerToCreatePod(a)
    PROVE  MInv'
<1> USE DEF MInv, SelectWorkerToCreatePod, Forget, env
<1>1. call.op = "idle" /\ status = "running" BY DEF Request, Running
<1>2. CASE /\ status' \in {"spinning", "crashed"}
           /\ pods' = pods \cup {a}
           /\ UNCHANGED <<call, wpods, desc, lost>>
  <2>1. TypeInv' BY <1>2 DEF TypeInv
  <2> QED BY <1>2, <2>1 DEF BoundInv, CallInv, LostIsQueued, AliveInv
<1>3. ASSUME NEW s, NEW w \in Selectable(s, a) \cap Workers,
             pods' = pods \cup {a} /\ BindWorker(a, w),
             call' = Call("select", a, Blank, 0),
             Deref(ToSet(wpods[w]) \ {a}), UNCHANGED lost
      PROVE  MInv'
  <2>1. w \in ToSet(workers) BY <1>3, ConnectedFacts
  <2>2. wpods' \in [Workers -> Seq(Aliases)]
    BY <1>3, ElementsOfAppend DEF BindWorker, TypeInv
  <2>3. TypeInv'
    BY <1>3, <2>2 DEF TypeInv, CallType, Ops, Descriptor, Call, Blank, BindWorker, Deref
  <2>4. BoundInv' BY <1>1, <1>3, <2>1 DEF BoundInv, TypeInv, BindWorker
  <2>5. CallInv' BY <1>1, <1>3 DEF CallInv, Call
  <2>6. LostIsQueued' BY <1>1, <1>3 DEF LostIsQueued
  <2>7. AliveInv'
    BY <1>1, <1>3, NullAssumption DEF AliveInv, CallInv, Call, TypeInv, BindWorker
  <2> QED BY <2>3, <2>4, <2>5, <2>6, <2>7
<1>4. CASE /\ pods' = pods \ {a} /\ desc' = [desc EXCEPT ![a] = Blank]
           /\ lost' = lost \ {a}
           /\ UNCHANGED <<status, call, wpods>>
  <2>1. TypeInv' BY <1>4 DEF TypeInv, Descriptor, Blank
  <2>2. BoundInv' BY <1>4 DEF BoundInv, TypeInv
  <2>3. CallInv' BY <1>1, <1>4 DEF CallInv
  <2>4. LostIsQueued' BY <1>4 DEF LostIsQueued
  <2>5. AliveInv' BY <1>1, <1>4 DEF AliveInv, TypeInv
  <2> QED BY <2>1, <2>2, <2>3, <2>4, <2>5
<1> QED BY <1>2, <1>3, <1>4 DEF SelectSpins, SelectTraps

\* The descriptor as it was is kept for a transfer that fails.
LEMMA TransferStep ==
    ASSUME MInv, NEW w \in Workers, NEW a \in Aliases, TransferPod(a, w)
    PROVE  MInv'
<1> USE DEF MInv, TransferPod, hist, env
<1>1. call.op = "idle" /\ status = "running" BY DEF Request, Running
<1>2. wpods' \in [Workers -> Seq(Aliases)]
  BY ElementsOfAppend DEF BindWorker, TypeInv
<1>3. TypeInv'
  BY <1>2 DEF TypeInv, CallType, Ops, Descriptor, Call, BindWorker
<1>4. BoundInv' BY <1>1 DEF BoundInv, TypeInv, BindWorker
<1>5. CallInv' BY <1>1 DEF CallInv, BoundInv, Call
<1>6. LostIsQueued' BY DEF LostIsQueued
<1>7. AliveInv'
  BY <1>1, NullAssumption DEF AliveInv, CallInv, Call, TypeInv, BindWorker
<1> QED BY <1>3, <1>4, <1>5, <1>6, <1>7

\* stopPod moves the pointer in its worker's list or takes it out.
LEMMA StopStep ==
    ASSUME MInv, NEW a \in Aliases, StopPod(a)
    PROVE  MInv'
<1> USE DEF MInv, StopPod, hist, env
<1>1. call.op = "idle" /\ status = "running" /\ a \in pods BY DEF Request, Running
<1>2. desc[a].wd \in Workers /\ wpods[desc[a].wd] \in Seq(Aliases)
  BY <1>1, ConnectedFacts DEF BoundInv, TypeInv
<1> DEFINE rest == RemoveFirst(wpods[desc[a].wd], a)
           back == Append(rest, a)
<1>3. rest \in Seq(Aliases) /\ back \in Seq(Aliases)
  BY <1>2, ElementsOfRemoveFirst, ElementsOfAppend
<1> HIDE DEF rest, back
<1>4. /\ wpods' \in [Workers -> Seq(Aliases)]
      /\ call' = Call("stop", a, Blank, 0) \/ UNCHANGED call
  <2>1. \/ /\ wpods' = [wpods EXCEPT ![desc[a].wd] = rest]
           /\ call' = Call("stop", a, Blank, 0)
        \/ wpods' = [wpods EXCEPT ![desc[a].wd] = back] /\ UNCHANGED call
    BY Zenon DEF rest, back
  <2>2. wpods \in [Workers -> Seq(Aliases)] BY DEF TypeInv
  <2> HIDE DEF StopPod, MInv
  <2> QED BY <1>2, <1>3, <2>1, <2>2
<1>u. UNCHANGED <<status, workers, walive, pods, desc, down, linked, hosted, faults,
                  lost, startedOn>>
  OBVIOUS
<1> HIDE DEF StopPod
<1>5. TypeInv'
  <2>1. call \in CallType BY DEF TypeInv
  <2>0. Call("stop", a, Blank, 0) \in CallType
    BY DEF CallType, Ops, Descriptor, Call, Blank
  <2>2. call' \in CallType
    BY <1>4, <2>0, <2>1
  <2> QED BY <1>4, <1>u, <2>2 DEF TypeInv
<1>6. BoundInv' BY <1>u DEF BoundInv
<1>7. CallInv' BY <1>1, <1>4, <1>u DEF CallInv, Call
<1>8. LostIsQueued' BY <1>u DEF LostIsQueued
<1>9. AliveInv'
  BY <1>1, <1>4, <1>u, NullAssumption DEF AliveInv, CallInv, Call, TypeInv
<1> QED BY <1>5, <1>6, <1>7, <1>8, <1>9

-----------------------------------------------------------------------------
(* The answers to FORK.                                                    *)

\* While a FORK is under way its pod is bound to a connected worker.
LEMMA ForkingFacts ==
    ASSUME MInv, Forking
    PROVE  /\ status = "running" /\ call.alias \in pods /\ call.alias \in Aliases
           /\ Target \in ToSet(workers) /\ Target \in Workers
           /\ wpods[Target] \in Seq(Aliases) /\ ToSet(wpods[Target]) \subseteq Aliases
<1>1. status = "running" /\ call.alias \in pods /\ call.alias \in Aliases
  BY DEF MInv, Forking, CallInv, TypeInv
<1>2. Target \in ToSet(workers) /\ Target \in Workers
  BY <1>1, ConnectedFacts DEF MInv, BoundInv, Target
<1>3. wpods[Target] \in Seq(Aliases)
  BY <1>2 DEF MInv, TypeInv
<1> QED BY <1>1, <1>2, <1>3, ElementsOf

\* What every FORK that succeeds records about its pod.
LEMMA ForkSucceedsFacts ==
    ASSUME MInv, ForkSucceeds
    PROVE  /\ hosted' \in [Workers -> SUBSET Aliases]
           /\ startedOn' \in [Aliases -> Workers \cup {NULL}]
           /\ startedOn'[call.alias] = desc[call.alias].wd
           /\ \A a \in Aliases \ {call.alias} : startedOn'[a] = startedOn[a]
           /\ lost' = lost \ {call.alias}
           /\ UNCHANGED <<workers, walive, pods, linked, requests, faults>>
<1>1. Forking BY DEF ForkSucceeds
<1>2. call.alias \in Aliases /\ Target \in Workers /\ Target = desc[call.alias].wd
  BY <1>1, ForkingFacts DEF Target
<1> QED BY <1>2 DEF ForkSucceeds, Forget, MInv, TypeInv

\* createPod marked its pod alive before the FORK.
LEMMA ForkedByCreateStep ==
    ASSUME MInv, ForkedByCreate
    PROVE  MInv'
<1> USE DEF MInv, ForkedByCreate
<1>0. Forking /\ ForkSucceeds /\ call.op = "create" BY DEF ForkSucceeds
<1>1. call.alias \in pods /\ call.alias \in Aliases /\ status = "running"
  BY <1>0, ForkingFacts
<1>2. TypeInv'
  BY <1>0, ForkSucceedsFacts DEF TypeInv, CallType, Ops, Descriptor, Idle, Call, Blank
<1>3. BoundInv' BY <1>0, ForkSucceedsFacts DEF BoundInv
<1>4. CallInv' BY <1>0 DEF CallInv, Idle, Call
<1>5. LostIsQueued' BY <1>0, ForkSucceedsFacts DEF LostIsQueued
<1>6. AliveInv'
  BY <1>0, <1>1, ForkSucceedsFacts DEF AliveInv, TypeInv, Idle, Call
<1> QED BY <1>2, <1>3, <1>4, <1>5, <1>6

\* createService marks its pod alive once the FORK has succeeded.
LEMMA ForkedBySelectStep ==
    ASSUME MInv, ForkedBySelect
    PROVE  MInv'
<1> USE DEF MInv, ForkedBySelect
<1>0. Forking /\ ForkSucceeds /\ call.op = "select" BY DEF ForkSucceeds
<1>1. call.alias \in pods /\ call.alias \in Aliases /\ status = "running"
  BY <1>0, ForkingFacts
<1>2. TypeInv'
  BY <1>0, <1>1, ForkSucceedsFacts DEF TypeInv, CallType, Ops, Descriptor, Idle, Call, Blank
<1>3. BoundInv' BY <1>0, <1>1, ForkSucceedsFacts DEF BoundInv, TypeInv
<1>4. CallInv' BY <1>0 DEF CallInv, Idle, Call
<1>5. LostIsQueued' BY <1>0, ForkSucceedsFacts DEF LostIsQueued
<1>6. AliveInv'
  BY <1>0, <1>1, ForkSucceedsFacts DEF AliveInv, TypeInv, Idle, Call
<1> QED BY <1>2, <1>3, <1>4, <1>5, <1>6

\* transferDownPod has started the pod again and takes one entry off.
LEMMA ForkedByRestartStep ==
    ASSUME MInv, ForkedByRestart
    PROVE  MInv'
<1> USE DEF MInv, ForkedByRestart
<1>0. Forking /\ ForkSucceeds /\ call.op = "restart" BY DEF ForkSucceeds
<1>1. call.alias \in pods /\ call.alias \in Aliases /\ status = "running"
  BY <1>0, ForkingFacts
<1>2. /\ down' \in Seq(Aliases) /\ status' \in {"running", "crashed"}
      /\ ToSet(down) \ {call.alias} \subseteq ToSet(down')
      /\ call' \in CallType /\ call'.alias = NULL
      /\ call'.op = "idle" \/ (call'.op = "scan" /\ call'.i >= 1)
  BY <1>1, FinishFacts DEF TypeInv
<1>3. TypeInv'
  BY <1>0, <1>1, <1>2, ForkSucceedsFacts DEF TypeInv, Descriptor
<1>4. BoundInv' BY <1>0, <1>1, ForkSucceedsFacts DEF BoundInv, TypeInv
<1>5. CallInv' BY <1>2 DEF CallInv
<1>6. LostIsQueued' BY <1>0, <1>1, <1>2, ForkSucceedsFacts DEF LostIsQueued
<1>7. AliveInv'
  BY <1>0, <1>1, <1>2, ForkSucceedsFacts DEF AliveInv, TypeInv
<1> QED BY <1>3, <1>4, <1>5, <1>6, <1>7

\* A pod that was alive is still to be shut down where it was.
LEMMA ForkedByTransferStep ==
    ASSUME MInv, ForkedByTransfer
    PROVE  MInv'
<1> USE DEF MInv
<1>0. /\ Forking /\ ForkSucceeds /\ call.op = "transfer"
      /\ desc' = [desc EXCEPT ![call.alias].alive = TRUE]
  BY DEF ForkedByTransfer, ForkSucceeds
<1>1. /\ call.alias \in pods /\ call.alias \in Aliases /\ status = "running"
      /\ Target \in Workers /\ call \in CallType
      /\ wpods[Target] \in Seq(Aliases)
  BY <1>0, ForkingFacts DEF TypeInv
<1>2. desc' \in [Aliases -> Descriptor]
  BY <1>0, <1>1 DEF TypeInv, Descriptor
<1>3. BoundInv'
  BY <1>0, <1>1, ForkSucceedsFacts DEF BoundInv, TypeInv
<1>4. \A a \in pods' : desc'[a].alive => startedOn'[a] = desc'[a].wd
  BY <1>0, <1>1, ForkSucceedsFacts, NullAssumption DEF AliveInv, TypeInv
<1>5. CASE call.old.alive
  <2>1. /\ wpods' = [wpods EXCEPT ![call.old.wd] = RemoveFirst(@, call.alias)]
        /\ call' = [call EXCEPT !.op = "shutOld"]
        /\ UNCHANGED <<status, down>>
    BY <1>5 DEF ForkedByTransfer
  <2>2. call.old.wd \in Workers /\ wpods[call.old.wd] \in Seq(Aliases)
    BY <1>0, <1>1, ConnectedFacts DEF CallInv, TypeInv
  <2>3. RemoveFirst(wpods[call.old.wd], call.alias) \in Seq(Aliases)
    BY <2>2, ElementsOfRemoveFirst
  <2>4. TypeInv'
    BY <1>0, <1>1, <1>2, <2>1, <2>3, ForkSucceedsFacts DEF TypeInv, CallType, Ops
  <2>5. CallInv'
    BY <1>0, <1>1, <2>1, ForkSucceedsFacts DEF CallInv, CallType
  <2>6. LostIsQueued' BY <1>0, <2>1, ForkSucceedsFacts DEF LostIsQueued
  <2>7. AliveInv' BY <1>1, <1>4, <2>1 DEF AliveInv, CallType
  <2> QED BY <1>3, <2>4, <2>5, <2>6, <2>7
<1>6. CASE ~call.old.alive
  <2>1. /\ wpods' = [wpods EXCEPT ![Target] = Append(@, call.alias)]
        /\ Finish(down)
    BY <1>6 DEF ForkedByTransfer
  <2>2. Append(wpods[Target], call.alias) \in Seq(Aliases)
    BY <1>1, ElementsOfAppend
  <2>3. /\ down' \in Seq(Aliases) /\ status' \in {"running", "crashed"}
        /\ ToSet(down) \ {call.alias} \subseteq ToSet(down')
        /\ call' \in CallType /\ call'.alias = NULL
        /\ call'.op = "idle" \/ (call'.op = "scan" /\ call'.i >= 1)
    BY <1>1, <2>1, FinishFacts DEF TypeInv
  <2>4. TypeInv'
    BY <1>0, <1>1, <1>2, <2>1, <2>2, <2>3, ForkSucceedsFacts DEF TypeInv
  <2>5. CallInv' BY <2>3 DEF CallInv
  <2>6. LostIsQueued' BY <1>0, <1>1, <2>3, ForkSucceedsFacts DEF LostIsQueued
  <2>7. AliveInv' BY <1>4, <2>3 DEF AliveInv
  <2> QED BY <1>3, <2>4, <2>5, <2>6, <2>7
<1> QED BY <1>5, <1>6

\* The pods of the worker are queued before its list is emptied.
LEMMA ForkManagerDownStep ==
    ASSUME MInv, ForkManagerDown
    PROVE  MInv'
<1> USE DEF MInv, ForkManagerDown
<1>0. Forking BY DEF ForkManagerDown
<1>1. /\ status = "running" /\ call.alias \in pods /\ Target \in Workers
      /\ wpods[Target] \in Seq(Aliases) /\ down \in Seq(Aliases)
  BY <1>0, ForkingFacts DEF TypeInv
<1>2. /\ down \o wpods[Target] \in Seq(Aliases)
      /\ ToSet(down \o wpods[Target]) = ToSet(down) \cup ToSet(wpods[Target])
  BY <1>1, ElementsOfConcat
<1>3. /\ desc' \in [Aliases -> Descriptor]
      /\ \A a \in Aliases : desc'[a].wd = desc[a].wd /\ (desc'[a].alive => desc[a].alive)
  BY <1>1, DownedFacts
<1>4. wpods' \in [Workers -> Seq(Aliases)] /\ hosted' \in [Workers -> SUBSET Aliases]
  BY <1>1, EmptySeq DEF TypeInv
<1>5. faults' \in 0..MaxFaults /\ status' \in {"running", "crashed"}
  BY <1>1, BoundsAssumption DEF TypeInv, Fault, Deref
<1>6. TypeInv' BY <1>2, <1>3, <1>4, <1>5 DEF TypeInv
<1>7. BoundInv' BY <1>1, <1>3 DEF BoundInv, TypeInv
<1>8. CallInv' BY <1>0, <1>1, <1>2 DEF CallInv, Forking
<1>9. LostIsQueued' BY <1>1, <1>2 DEF LostIsQueued
<1>10. AliveInv' BY <1>1, <1>3 DEF AliveInv, TypeInv
<1> QED BY <1>6, <1>7, <1>8, <1>9, <1>10

\* A transfer that fails puts the old descriptor back.
LEMMA ForkFailsStep ==
    ASSUME MInv, ForkFails
    PROVE  MInv'
<1> USE DEF MInv
<1>0. Forking /\ UNCHANGED <<status, workers, walive, down, requests, startedOn>>
  BY DEF ForkFails
<1>1. /\ status = "running" /\ call.alias \in pods /\ call.alias \in Aliases
      /\ Target \in Workers /\ call \in CallType /\ Target = desc[call.alias].wd
  BY <1>0, ForkingFacts DEF TypeInv, Target
<1>2. hosted' \in [Workers -> SUBSET Aliases]
  <2>1. hosted' = hosted \/ hosted' = [hosted EXCEPT ![Target] = @ \cup {call.alias}]
    BY DEF ForkFails
  <2>2. hosted \in [Workers -> SUBSET Aliases] BY DEF TypeInv
  <2>3. [hosted EXCEPT ![Target] = @ \cup {call.alias}] \in [Workers -> SUBSET Aliases]
    BY <1>1, <2>2
  <2> QED BY <2>1, <2>2, <2>3
<1>3. linked' \in [Workers -> BOOLEAN] /\ faults' \in 0..MaxFaults
  <2>1. CASE Fault /\ UNCHANGED linked
    BY <2>1, BoundsAssumption DEF TypeInv, Fault
  <2>2. CASE RpcBroken(Target)
    BY <1>1, <2>2, RpcBrokenFacts
  <2> QED BY <2>1, <2>2 DEF ForkFails
<1>4. CASE Erase(call.alias) /\ call' = Idle
  <2>1. wpods' \in [Workers -> Seq(Aliases)]
    BY <1>1, <1>4, ElementsOfRemoveFirst DEF Erase, TypeInv
  <2>2. TypeInv'
    BY <1>0, <1>2, <1>3, <1>4, <2>1
       DEF TypeInv, Erase, Forget, Idle, Call, Blank, CallType, Ops, Descriptor
  <2>3. BoundInv' BY <1>0, <1>4 DEF BoundInv, Erase, TypeInv
  <2>4. CallInv' BY <1>4 DEF CallInv, Idle, Call
  <2>5. LostIsQueued' BY <1>0, <1>4 DEF LostIsQueued, Erase, Forget
  <2>6. AliveInv' BY <1>0, <1>1, <1>4 DEF AliveInv, Erase, Idle, Call, TypeInv
  <2> QED BY <2>2, <2>3, <2>4, <2>5, <2>6
<1> DEFINE Back == call' = Idle \/ call' = Scan(call.i + 1)
<1>5. ASSUME Back PROVE CallInv' /\ call' \in CallType /\ call'.op \in {"idle", "scan"}
  <2>1. call.i \in Nat BY <1>1 DEF CallType
  <2>2. CASE call' = Idle
    BY <2>2 DEF CallInv, Idle, Call, Blank, CallType, Ops, Descriptor
  <2>3. CASE call' = Scan(call.i + 1)
    BY <2>1, <2>3 DEF CallInv, Scan, Call, Blank, CallType, Ops, Descriptor
  <2> QED BY <1>5, <2>2, <2>3
<1>6. CASE /\ call.op = "transfer"
           /\ desc' = [desc EXCEPT ![call.alias] = call.old]
           /\ Back /\ UNCHANGED <<pods, wpods, lost>>
  <2>1. call.old \in Descriptor BY <1>1 DEF CallType
  <2>2. TypeInv' BY <1>0, <1>1, <1>2, <1>3, <1>5, <1>6, <2>1 DEF TypeInv
  <2>3. BoundInv' BY <1>0, <1>1, <1>6 DEF BoundInv, CallInv, TypeInv
  <2>4. LostIsQueued' BY <1>0, <1>6 DEF LostIsQueued
  <2>5. AliveInv' BY <1>0, <1>1, <1>5, <1>6 DEF AliveInv, TypeInv
  <2> QED BY <1>5, <1>6, <2>2, <2>3, <2>4, <2>5
<1>7. CASE call.op = "restart" /\ Back /\ UNCHANGED <<pods, desc, wpods, lost>>
  <2>2. TypeInv' BY <1>0, <1>1, <1>2, <1>3, <1>5, <1>7 DEF TypeInv
  <2>3. BoundInv' BY <1>0, <1>7 DEF BoundInv
  <2>4. LostIsQueued' BY <1>0, <1>7 DEF LostIsQueued
  <2>5. AliveInv' BY <1>0, <1>1, <1>5, <1>7 DEF AliveInv
  <2> QED BY <1>5, <1>7, <2>2, <2>3, <2>4, <2>5
<1> QED BY <1>4, <1>6, <1>7 DEF ForkFails

-----------------------------------------------------------------------------
(* The answers to SHUTDOWN.                                                *)

\* The locals of an idle manager.
LEMMA IdleFacts ==
    Idle \in CallType /\ Idle.op = "idle" /\ Idle.alias = NULL
BY DEF Idle, Call, Blank, CallType, Ops, Descriptor

\* While stopPod waits, its pod is bound to a connected worker.
LEMMA StoppingFacts ==
    ASSUME MInv, Running("stop")
    PROVE  /\ status = "running" /\ call.op = "stop"
           /\ call.alias \in pods /\ call.alias \in Aliases
           /\ Target \in Workers /\ Target = desc[call.alias].wd
           /\ wpods[Target] \in Seq(Aliases)
<1>1. /\ status = "running" /\ call.op = "stop"
      /\ call.alias \in pods /\ call.alias \in Aliases
  BY DEF MInv, Running, CallInv, TypeInv
<1>2. Target \in Workers /\ Target = desc[call.alias].wd
  BY <1>1, ConnectedFacts DEF MInv, BoundInv, Target
<1> QED BY <1>1, <1>2 DEF MInv, TypeInv

\* A SHUTDOWN that fails leaves the surroundings well typed.
LEMMA ShutdownFailsFacts ==
    ASSUME TypeInv, NEW w \in Workers, ShutdownFails(w)
    PROVE  /\ linked' \in [Workers -> BOOLEAN] /\ faults' \in 0..MaxFaults
           /\ hosted' \in [Workers -> SUBSET Aliases]
<1>1. /\ linked \in [Workers -> BOOLEAN] /\ faults \in 0..MaxFaults
      /\ hosted \in [Workers -> SUBSET Aliases]
  BY DEF TypeInv
<1>2. CASE Fault /\ UNCHANGED <<linked, hosted>>
  BY <1>1, <1>2, BoundsAssumption DEF Fault
<1>3. CASE /\ RpcBroken(w)
           /\ hosted' = hosted \/ hosted' = [hosted EXCEPT ![w] = @ \ {call.alias}]
  <2>1. [hosted EXCEPT ![w] = @ \ {call.alias}] \in [Workers -> SUBSET Aliases]
    BY <1>1
  <2> QED BY <1>1, <1>3, <2>1, RpcBrokenFacts
<1> QED BY <1>2, <1>3 DEF ShutdownFails

\* stopPod erases its pod, and at most one entry of it from the queue.
LEMMA StoppedFacts ==
    ASSUME NEW queue \in Seq(Aliases), Stopped(queue)
    PROVE  /\ pods' = pods \ {call.alias} /\ call' = Idle
           /\ down' \in Seq(Aliases)
           /\ ToSet(queue) \ {call.alias} \subseteq ToSet(down')
<1>1. /\ pods' = pods \ {call.alias} /\ call' = Idle
      /\ down' = queue \/ down' = RemoveFirst(queue, call.alias)
  BY DEF Stopped
<1> QED BY <1>1, ElementsOfRemoveFirst

\* The pod is gone from the map, its worker's list and the history.
LEMMA StopSucceedsStep ==
    ASSUME MInv, StopSucceeds
    PROVE  MInv'
<1> USE DEF MInv
<1>0. /\ Running("stop") /\ Erase(call.alias) /\ Stopped(down)
      /\ hosted' = [hosted EXCEPT ![Target] = @ \ {call.alias}]
      /\ UNCHANGED <<status, workers, walive, linked, requests, faults, startedOn>>
  BY DEF StopSucceeds
<1>1. /\ status = "running" /\ call.alias \in Aliases /\ Target \in Workers
  BY <1>0, StoppingFacts
<1>2. /\ pods' = pods \ {call.alias} /\ call' = Idle /\ down' \in Seq(Aliases)
      /\ ToSet(down) \ {call.alias} \subseteq ToSet(down')
  BY <1>0, StoppedFacts DEF TypeInv
<1>3. /\ wpods' \in [Workers -> Seq(Aliases)]
      /\ desc' \in [Aliases -> Descriptor]
      /\ hosted' \in [Workers -> SUBSET Aliases]
  BY <1>0, <1>1, ElementsOfRemoveFirst DEF Erase, TypeInv, Blank, Descriptor
<1>4. TypeInv' BY <1>0, <1>2, <1>3, IdleFacts DEF TypeInv, Erase, Forget
<1>5. BoundInv' BY <1>0, <1>2 DEF BoundInv, Erase, TypeInv
<1>6. CallInv' BY <1>2, IdleFacts DEF CallInv
<1>7. LostIsQueued' BY <1>0, <1>2 DEF LostIsQueued, Erase, Forget
<1>8. AliveInv' BY <1>0, <1>1, <1>2, StoppingFacts, IdleFacts DEF AliveInv, Erase, TypeInv
<1> QED BY <1>4, <1>5, <1>6, <1>7, <1>8

\* The other pods of the worker are marked dead and queued.
LEMMA StopManagerDownStep ==
    ASSUME MInv, StopManagerDown
    PROVE  MInv'
<1> USE DEF MInv
<1> DEFINE queue == down \o wpods[Target]
<1>0. /\ Running("stop") /\ Fault /\ Stopped(queue)
      /\ hosted' = [hosted EXCEPT ![Target] = {}]
      /\ Deref(ToSet(wpods[Target]))
      /\ desc' = [Downed(Target) EXCEPT ![call.alias] = Blank]
      /\ wpods' = [wpods EXCEPT ![Target] = <<>>]
      /\ lost' = (lost \cup (pods \cap ToSet(wpods[Target]))) \ {call.alias}
      /\ UNCHANGED <<workers, walive, linked, requests, startedOn>>
  BY DEF StopManagerDown
<1>1. /\ status = "running" /\ call.alias \in Aliases /\ Target \in Workers
      /\ wpods[Target] \in Seq(Aliases) /\ down \in Seq(Aliases)
  BY <1>0, StoppingFacts DEF TypeInv
<1>2. queue \in Seq(Aliases) /\ ToSet(queue) = ToSet(down) \cup ToSet(wpods[Target])
  BY <1>1, ElementsOfConcat
<1> HIDE DEF queue
<1>3. /\ pods' = pods \ {call.alias} /\ call' = Idle /\ down' \in Seq(Aliases)
      /\ ToSet(queue) \ {call.alias} \subseteq ToSet(down')
  BY <1>0, <1>2, StoppedFacts
<1>4. /\ desc' \in [Aliases -> Descriptor]
      /\ \A a \in Aliases \ {call.alias} :
            desc'[a].wd = desc[a].wd /\ (desc'[a].alive => desc[a].alive)
  BY <1>0, <1>1, DownedFacts DEF Blank, Descriptor
<1>5. wpods' \in [Workers -> Seq(Aliases)] /\ hosted' \in [Workers -> SUBSET Aliases]
  BY <1>0, <1>1, EmptySeq DEF TypeInv
<1>6. faults' \in 0..MaxFaults /\ status' \in {"running", "crashed"}
  BY <1>0, <1>1, BoundsAssumption DEF TypeInv, Fault, Deref
<1>7. TypeInv' BY <1>0, <1>3, <1>4, <1>5, <1>6, IdleFacts DEF TypeInv
<1>8. BoundInv' BY <1>0, <1>1, <1>3, <1>4 DEF BoundInv, TypeInv
<1>9. CallInv' BY <1>3, IdleFacts DEF CallInv
<1>10. LostIsQueued' BY <1>0, <1>1, <1>2, <1>3 DEF LostIsQueued
<1>11. AliveInv'
  BY <1>0, <1>1, <1>3, <1>4, StoppingFacts, IdleFacts DEF AliveInv, TypeInv
<1> QED BY <1>7, <1>8, <1>9, <1>10, <1>11

\* The pod stays in the map, marked dead.
LEMMA StopFailsStep ==
    ASSUME MInv, StopFails
    PROVE  MInv'
<1> USE DEF MInv
<1>0. /\ Running("stop") /\ ShutdownFails(Target)
      /\ desc' = [desc EXCEPT ![call.alias].alive = FALSE]
      /\ wpods' = [wpods EXCEPT ![Target] = Append(@, call.alias)]
      /\ call' = Idle
      /\ UNCHANGED <<status, workers, walive, pods, down, requests, lost, startedOn>>
  BY DEF StopFails, hist
<1>1. /\ status = "running" /\ call.alias \in Aliases /\ Target \in Workers
      /\ wpods[Target] \in Seq(Aliases)
  BY <1>0, StoppingFacts
<1>2. Append(wpods[Target], call.alias) \in Seq(Aliases)
  BY <1>1, ElementsOfAppend
<1>3. /\ linked' \in [Workers -> BOOLEAN] /\ faults' \in 0..MaxFaults
      /\ hosted' \in [Workers -> SUBSET Aliases]
  BY <1>0, <1>1, ShutdownFailsFacts
<1>4. TypeInv' BY <1>0, <1>1, <1>2, <1>3, IdleFacts DEF TypeInv, Descriptor
<1>5. BoundInv' BY <1>0, <1>1 DEF BoundInv, TypeInv
<1>6. CallInv' BY <1>0, IdleFacts DEF CallInv
<1>7. LostIsQueued' BY <1>0 DEF LostIsQueued
<1>8. AliveInv' BY <1>0, <1>1, StoppingFacts, IdleFacts DEF AliveInv, TypeInv
<1> QED BY <1>4, <1>5, <1>6, <1>7, <1>8

\* While transferPod shuts the old copy down, the pod is alive elsewhere.
LEMMA ShutOldFacts ==
    ASSUME MInv, Running("shutOld")
    PROVE  /\ status = "running" /\ call.op = "shutOld"
           /\ call.alias \in pods /\ call.alias \in Aliases /\ call.alias \notin lost
           /\ call.i # 0 => call.alias \in ToSet(down)
           /\ Target \in Workers /\ call.old.wd \in Workers
           /\ wpods[Target] \in Seq(Aliases) /\ wpods[call.old.wd] \in Seq(Aliases)
<1>1. /\ status = "running" /\ call.op = "shutOld"
      /\ call.alias \in pods /\ call.alias \in Aliases /\ call.alias \notin lost
      /\ call.i # 0 => call.alias \in ToSet(down)
  BY DEF MInv, Running, CallInv, TypeInv
<1>2. Target \in Workers /\ call.old.wd \in Workers
  BY <1>1, ConnectedFacts DEF MInv, BoundInv, CallInv, Target
<1> QED BY <1>1, <1>2 DEF MInv, TypeInv

\* transferDownPod takes an entry of a pod that is up off the queue.
LEMMA OldShutStep ==
    ASSUME MInv, OldShut
    PROVE  MInv'
<1> USE DEF MInv
<1>0. /\ Running("shutOld") /\ Finish(down)
      /\ wpods' = [wpods EXCEPT ![Target] = Append(@, call.alias)]
      /\ UNCHANGED <<workers, walive, pods, desc, requests, lost, startedOn>>
  BY DEF OldShut, hist
<1>1. /\ status = "running" /\ call.op = "shutOld"
      /\ call.alias \in Aliases /\ call.alias \notin lost
      /\ Target \in Workers /\ call.old.wd \in Workers
      /\ wpods[Target] \in Seq(Aliases)
  BY <1>0, ShutOldFacts
<1>2. /\ linked' \in [Workers -> BOOLEAN] /\ faults' \in 0..MaxFaults
      /\ hosted' \in [Workers -> SUBSET Aliases]
  <2>1. CASE /\ hosted' = [hosted EXCEPT ![call.old.wd] = @ \ {call.alias}]
             /\ UNCHANGED <<linked, faults>>
    <3>1. /\ linked \in [Workers -> BOOLEAN] /\ faults \in 0..MaxFaults
          /\ hosted \in [Workers -> SUBSET Aliases]
      BY DEF TypeInv
    <3> QED BY <1>1, <2>1, <3>1
  <2>2. CASE ShutdownFails(call.old.wd)
    BY <1>1, <2>2, ShutdownFailsFacts
  <2> QED BY <2>1, <2>2 DEF OldShut
<1>3. Append(wpods[Target], call.alias) \in Seq(Aliases)
  BY <1>1, ElementsOfAppend
<1>4. /\ down' \in Seq(Aliases) /\ status' \in {"running", "crashed"}
      /\ ToSet(down) \ {call.alias} \subseteq ToSet(down')
      /\ call' \in CallType /\ call'.alias = NULL
      /\ call'.op = "idle" \/ (call'.op = "scan" /\ call'.i >= 1)
  BY <1>0, <1>1, FinishFacts DEF TypeInv
<1>5. TypeInv' BY <1>0, <1>1, <1>2, <1>3, <1>4 DEF TypeInv
<1>6. BoundInv' BY <1>0, <1>1 DEF BoundInv
<1>7. CallInv' BY <1>4 DEF CallInv
<1>8. LostIsQueued' BY <1>0, <1>1, <1>4 DEF LostIsQueued
<1>9. AliveInv' BY <1>0, <1>1, <1>4 DEF AliveInv
<1> QED BY <1>5, <1>6, <1>7, <1>8, <1>9

\* The old worker had given the manager up, and the pod itself may be in its
\* list: it is queued again behind the entry transferDownPod takes off.
LEMMA OldShutManagerDownStep ==
    ASSUME MInv, OldShutManagerDown
    PROVE  MInv'
<1> USE DEF MInv
<1> DEFINE old == call.old.wd
           queue == down \o wpods[old]
<1>0. /\ Running("shutOld") /\ Fault
      /\ hosted' = [hosted EXCEPT ![old] = {}]
      /\ desc' = Downed(old)
      /\ wpods' = [[wpods EXCEPT ![old] = <<>>] EXCEPT ![Target] = Append(@, call.alias)]
      /\ lost' = lost \cup (pods \cap ToSet(wpods[old]))
      /\ \/ Finish(queue)
         \/ status' = "crashed" /\ UNCHANGED <<call, down>>
      /\ UNCHANGED <<workers, walive, pods, linked, requests, startedOn>>
  BY DEF OldShutManagerDown
<1>1. /\ status = "running" /\ call.op = "shutOld"
      /\ call.alias \in Aliases /\ call.alias \notin lost
      /\ call.i # 0 => call.alias \in ToSet(down)
      /\ Target \in Workers /\ old \in Workers
      /\ wpods[Target] \in Seq(Aliases) /\ wpods[old] \in Seq(Aliases)
      /\ down \in Seq(Aliases)
  BY <1>0, ShutOldFacts DEF TypeInv
<1>2. queue \in Seq(Aliases) /\ ToSet(queue) = ToSet(down) \cup ToSet(wpods[old])
  BY <1>1, ElementsOfConcat
<1>3. call.i # 0 => ToSet(wpods[old]) \subseteq ToSet(RemoveFirst(queue, call.alias))
  BY <1>1, RemoveFirstKeepsBack
<1> HIDE DEF old, queue
<1>4. /\ desc' \in [Aliases -> Descriptor]
      /\ \A a \in Aliases : desc'[a].wd = desc[a].wd /\ (desc'[a].alive => desc[a].alive)
  BY <1>0, <1>1, DownedFacts
<1>5. wpods' \in [Workers -> Seq(Aliases)]
  <2>1. wpods \in [Workers -> Seq(Aliases)] BY DEF TypeInv
  <2> DEFINE emptied == [wpods EXCEPT ![old] = <<>>]
  <2>2. emptied \in [Workers -> Seq(Aliases)] BY <1>1, <2>1, EmptySeq
  <2> HIDE DEF emptied
  <2>3. Append(emptied[Target], call.alias) \in Seq(Aliases)
    BY <1>1, <2>2, ElementsOfAppend
  <2>4. wpods' = [emptied EXCEPT ![Target] = Append(emptied[Target], call.alias)]
    BY <1>0, Zenon DEF emptied
  <2> QED BY <2>2, <2>3, <2>4
<1>6. /\ hosted' \in [Workers -> SUBSET Aliases] /\ faults' \in 0..MaxFaults
  BY <1>0, <1>1, BoundsAssumption DEF TypeInv, Fault
<1>7. CASE status' = "crashed" /\ UNCHANGED <<call, down>>
  <2>1. TypeInv' BY <1>0, <1>4, <1>5, <1>6, <1>7 DEF TypeInv
  <2> QED BY <1>7, <2>1 DEF BoundInv, CallInv, LostIsQueued, AliveInv
<1>8. CASE Finish(queue)
  <2>1. /\ down' \in Seq(Aliases) /\ status' \in {"running", "crashed"}
        /\ ToSet(queue) \ {call.alias} \subseteq ToSet(down')
        /\ \/ call.i = 0 /\ down' = queue
           \/ call.i # 0 /\ down' = RemoveFirst(queue, call.alias)
        /\ call' \in CallType /\ call'.alias = NULL
        /\ call'.op = "idle" \/ (call'.op = "scan" /\ call'.i >= 1)
    BY <1>1, <1>2, <1>8, FinishFacts
  <2>2. ToSet(wpods[old]) \subseteq ToSet(down')
    BY <1>2, <1>3, <2>1
  <2>3. TypeInv' BY <1>0, <1>4, <1>5, <1>6, <2>1 DEF TypeInv
  <2>4. BoundInv' BY <1>0, <1>1, <1>4 DEF BoundInv, TypeInv
  <2>5. CallInv' BY <2>1 DEF CallInv
  <2>6. LostIsQueued' BY <1>0, <1>1, <1>2, <2>1, <2>2 DEF LostIsQueued
  <2>7. AliveInv' BY <1>0, <1>1, <1>4, <2>1 DEF AliveInv, TypeInv
  <2> QED BY <2>3, <2>4, <2>5, <2>6, <2>7
<1> QED BY <1>0, <1>7, <1>8

\* Every answer of a worker preserves the invariant.
LEMMA AnswerStep ==
    ASSUME MInv, Answer
    PROVE  MInv'
<1>1. CASE RpcBlocks
  <2>1. TypeInv' BY <1>1 DEF RpcBlocks, MInv, TypeInv, mgr, env, hist
  <2> QED BY <1>1, <2>1 DEF RpcBlocks, MInv, BoundInv, CallInv, LostIsQueued, AliveInv
<1> QED
  BY <1>1, ForkedByCreateStep, ForkedBySelectStep, ForkedByRestartStep,
     ForkedByTransferStep, ForkManagerDownStep, ForkFailsStep, StopSucceedsStep,
     StopManagerDownStep, StopFailsStep, OldShutStep, OldShutManagerDownStep
     DEF Answer

-----------------------------------------------------------------------------
(* The timer functor.                                                      *)

\* Steps that only move `call` to a place of the functor, or end it.
LEMMA MoveStep ==
    ASSUME MInv, UNCHANGED <<status, mgr, env, faults, hist>>,
           call.op \in {"idle", "check", "report", "scan"},
           NEW o \in {"idle", "check", "report", "scan"}, NEW n \in Nat,
           call' = Call(o, NULL, Blank, n),
           o # "idle" => n >= 1, o = "report" => n <= Len(workers)
    PROVE  MInv'
<1> USE DEF MInv, mgr, env, hist
<1>1. /\ call' \in CallType /\ call'.op = o /\ call'.alias = NULL /\ call'.i = n
  BY DEF Call, Blank, CallType, Ops, Descriptor
<1>2. TypeInv' BY <1>1 DEF TypeInv
<1>3. BoundInv' /\ LostIsQueued' BY DEF BoundInv, LostIsQueued
<1>4. CallInv' BY <1>1 DEF CallInv
<1>5. AliveInv' BY <1>1 DEF AliveInv, CallInv
<1> QED BY <1>2, <1>3, <1>4, <1>5

\* While the workers are checked, the position is that of a worker.
LEMMA CheckingFacts ==
    ASSUME MInv, Checking \/ Running("report")
    PROVE  /\ status = "running" /\ call.op \in {"check", "report"}
           /\ call.i \in Nat /\ call.i >= 1 /\ call.i <= Len(workers)
           /\ call.alias = NULL /\ Worker \in Workers
           /\ wpods[Worker] \in Seq(Aliases) /\ ToSet(wpods[Worker]) \subseteq Aliases
<1>1. /\ status = "running" /\ call.op \in {"check", "report"}
      /\ call.i \in Nat /\ call.i >= 1 /\ call.i <= Len(workers)
      /\ call.alias = NULL
  BY DEF MInv, Checking, Running, CallInv, TypeInv, CallType
<1>2. Worker \in Workers
  BY <1>1, ConnectedFacts DEF MInv, Worker
<1>3. wpods[Worker] \in Seq(Aliases) BY <1>2 DEF MInv, TypeInv
<1> QED BY <1>1, <1>2, <1>3, ElementsOf

\* checkServices goes on to the next worker.
LEMMA NextWorkerFacts ==
    ASSUME call.i \in Nat, NextWorker
    PROVE  /\ call' = Call("check", NULL, Blank, call.i + 1)
           /\ call' \in CallType /\ call'.op = "check"
           /\ call'.alias = NULL /\ call'.i >= 1
<1>1. call' = Call("check", NULL, Blank, call.i + 1)
  BY DEF NextWorker, Idle, Call
<1> QED BY <1>1 DEF Call, Blank, CallType, Ops, Descriptor

\* A worker that is not alive is connected to again.
LEMMA ReconnectStep ==
    ASSUME MInv, Reconnect
    PROVE  MInv'
<1> USE DEF MInv
<1>0. /\ Checking /\ NextWorker
      /\ UNCHANGED <<status, workers, wpods, pods, desc, down, hosted, requests,
                     lost, startedOn>>
  BY DEF Reconnect, hist
<1>1. Worker \in Workers /\ call.i \in Nat /\ call.op \in {"check", "report"}
      /\ call.alias = NULL
  BY <1>0, CheckingFacts
<1>2. linked' \in [Workers -> BOOLEAN] /\ walive' \in [Workers -> BOOLEAN]
  BY <1>1, Zenon DEF Reconnect, TypeInv
<1>3. faults' \in 0..MaxFaults
  BY BoundsAssumption DEF Reconnect, Fault, TypeInv
<1>4. TypeInv' BY <1>0, <1>1, <1>2, <1>3, NextWorkerFacts DEF TypeInv
<1>5. BoundInv' /\ LostIsQueued' BY <1>0 DEF BoundInv, LostIsQueued
<1>6. CallInv' BY <1>0, <1>1, NextWorkerFacts DEF CallInv
<1>7. AliveInv' BY <1>0, <1>1, NextWorkerFacts DEF AliveInv
<1> QED BY <1>4, <1>5, <1>6, <1>7

\* A worker that does not answer loses its pods to the queue.
LEMMA CheckBrokenStep ==
    ASSUME MInv, CheckBroken
    PROVE  MInv'
<1> USE DEF MInv
<1>0. /\ Checking /\ NextWorker /\ RpcBroken(Worker)
      /\ walive' = [walive EXCEPT ![Worker] = FALSE]
      /\ Deref(ToSet(wpods[Worker]))
      /\ desc' = Downed(Worker)
      /\ down' = down \o wpods[Worker]
      /\ lost' = lost \cup (pods \cap ToSet(wpods[Worker]))
      /\ UNCHANGED <<workers, wpods, pods, hosted, requests, startedOn>>
  BY DEF CheckBroken
<1>1. /\ status = "running" /\ Worker \in Workers /\ call.i \in Nat
      /\ call.op \in {"check", "report"} /\ call.alias = NULL
      /\ wpods[Worker] \in Seq(Aliases) /\ down \in Seq(Aliases)
  BY <1>0, CheckingFacts DEF TypeInv
<1>2. /\ down' \in Seq(Aliases)
      /\ ToSet(down') = ToSet(down) \cup ToSet(wpods[Worker])
  BY <1>0, <1>1, ElementsOfConcat
<1>3. /\ desc' \in [Aliases -> Descriptor]
      /\ \A a \in Aliases : desc'[a].wd = desc[a].wd /\ (desc'[a].alive => desc[a].alive)
  BY <1>0, <1>1, DownedFacts
<1>4. walive' \in [Workers -> BOOLEAN] BY <1>0, <1>1, Zenon DEF TypeInv
<1>5. linked' \in [Workers -> BOOLEAN] /\ faults' \in 0..MaxFaults
  BY <1>0, <1>1, RpcBrokenFacts
<1>6. status' \in {"running", "crashed"} BY <1>0, <1>1 DEF Deref
<1>7. TypeInv'
  BY <1>0, <1>1, <1>2, <1>3, <1>4, <1>5, <1>6, NextWorkerFacts DEF TypeInv
<1>8. BoundInv' BY <1>0, <1>1, <1>3 DEF BoundInv, TypeInv
<1>9. LostIsQueued' BY <1>0, <1>1, <1>2 DEF LostIsQueued
<1>10. CallInv' BY <1>0, <1>1, NextWorkerFacts DEF CallInv
<1>11. AliveInv' BY <1>0, <1>1, <1>3, NextWorkerFacts DEF AliveInv, TypeInv
<1> QED BY <1>7, <1>8, <1>9, <1>10, <1>11

\* A worker that had given the manager up: its pods are marked dead.
LEMMA CheckExpiredStep ==
    ASSUME MInv, CheckExpired
    PROVE  MInv'
<1> USE DEF MInv
<1>0. /\ Checking /\ NextWorker /\ Fault
      /\ hosted' = [hosted EXCEPT ![Worker] = {}]
      /\ Deref(ToSet(wpods[Worker]))
      /\ desc' = Downed(Worker)
      /\ UNCHANGED <<workers, walive, wpods, pods, down, linked, requests, lost, startedOn>>
  BY DEF CheckExpired, hist
<1>1. /\ status = "running" /\ Worker \in Workers /\ call.i \in Nat
      /\ call.op \in {"check", "report"} /\ call.alias = NULL
  BY <1>0, CheckingFacts
<1>2. /\ desc' \in [Aliases -> Descriptor]
      /\ \A a \in Aliases : desc'[a].wd = desc[a].wd /\ (desc'[a].alive => desc[a].alive)
  BY <1>0, <1>1, DownedFacts
<1>3. /\ hosted' \in [Workers -> SUBSET Aliases] /\ faults' \in 0..MaxFaults
      /\ status' \in {"running", "crashed"}
  BY <1>0, <1>1, BoundsAssumption DEF TypeInv, Fault, Deref
<1>4. TypeInv' BY <1>0, <1>1, <1>2, <1>3, NextWorkerFacts DEF TypeInv
<1>5. BoundInv' BY <1>0, <1>1, <1>2 DEF BoundInv, TypeInv
<1>6. LostIsQueued' BY <1>0, <1>1 DEF LostIsQueued
<1>7. CallInv' BY <1>0, <1>1, NextWorkerFacts DEF CallInv
<1>8. AliveInv' BY <1>0, <1>1, <1>2, NextWorkerFacts DEF AliveInv, TypeInv
<1> QED BY <1>4, <1>5, <1>6, <1>7, <1>8

\* A pod that exited with an error is queued as it is marked dead.
LEMMA CheckExitStep ==
    ASSUME MInv, NEW a \in Aliases, NEW exit \in {0, 1}, CheckExit(a, exit)
    PROVE  MInv'
<1> USE DEF MInv
<1>0. /\ Running("report") /\ Fault
      /\ hosted' = [hosted EXCEPT ![Worker] = @ \ {a}]
      /\ \/ /\ a \in pods /\ desc' = [desc EXCEPT ![a].alive = FALSE]
            /\ down' = IF exit # 0 THEN Append(down, a) ELSE down
            /\ lost' = IF exit # 0 THEN lost \cup {a} ELSE lost
         \/ UNCHANGED <<desc, down, lost>>
      /\ UNCHANGED <<status, call, workers, walive, wpods, pods, linked, requests, startedOn>>
  BY DEF CheckExit
<1>1. status = "running" /\ Worker \in Workers /\ call.op \in {"check", "report"}
  BY <1>0, CheckingFacts
<1>2. /\ Append(down, a) \in Seq(Aliases) /\ down \in Seq(Aliases)
      /\ ToSet(Append(down, a)) = ToSet(down) \cup {a}
  BY ElementsOfAppend DEF TypeInv
<1>3. /\ down' \in Seq(Aliases) /\ lost' \subseteq pods
      /\ \/ lost' = lost /\ down' = down
         \/ lost' = lost \cup {a} /\ ToSet(down') = ToSet(down) \cup {a}
  BY <1>0, <1>2 DEF TypeInv
<1>4. /\ desc' \in [Aliases -> Descriptor]
      /\ \A b \in Aliases : desc'[b].wd = desc[b].wd /\ (desc'[b].alive => desc[b].alive)
  <2>1. desc' = desc \/ desc' = [desc EXCEPT ![a].alive = FALSE]
    BY <1>0
  <2>2. desc \in [Aliases -> Descriptor] BY DEF TypeInv
  <2>3. CASE desc' = [desc EXCEPT ![a].alive = FALSE]
    BY <2>2, <2>3 DEF Descriptor
  <2> QED BY <2>1, <2>2, <2>3
<1>5. hosted' \in [Workers -> SUBSET Aliases] /\ faults' \in 0..MaxFaults
  BY <1>0, <1>1, BoundsAssumption DEF TypeInv, Fault
<1>6. TypeInv' BY <1>0, <1>3, <1>4, <1>5 DEF TypeInv
<1>7. BoundInv' BY <1>0, <1>1, <1>4 DEF BoundInv, TypeInv
<1>8. LostIsQueued' BY <1>1, <1>3 DEF LostIsQueued
<1>9. CallInv' BY <1>0, <1>1 DEF CallInv
<1>10. AliveInv' BY <1>0, <1>1, <1>4 DEF AliveInv, TypeInv
<1> QED BY <1>6, <1>7, <1>8, <1>9, <1>10

\* transferDownPod stands on an entry whose pod is in the map.
LEMMA ScanningFacts ==
    ASSUME MInv, Scanning
    PROVE  /\ status = "running" /\ call.op = "scan" /\ call.alias = NULL
           /\ call.i \in Nat /\ call.i >= 1
           /\ Pod \in Aliases /\ Pod \in ToSet(down)
<1>1. /\ status = "running" /\ call.op = "scan" /\ call.alias = NULL
      /\ call.i \in Nat /\ call.i >= 1 /\ call.i <= Len(down) /\ down \in Seq(Aliases)
  BY DEF MInv, Scanning, Running, CallInv, TypeInv, CallType
<1>2. call.i \in 1..Len(down) BY <1>1, LenProperties
<1> QED BY <1>1, <1>2, ElementOfSeq, ElementsOf DEF Pod

\* The pod is started again where it was.
LEMMA ScanRestartStep ==
    ASSUME MInv, ScanRestart
    PROVE  MInv'
<1> USE DEF MInv
<1>0. /\ Scanning /\ Pod \in pods
      /\ call' = Call("restart", Pod, Blank, call.i)
      /\ UNCHANGED <<status, mgr, env, requests, faults, hist>>
  BY DEF ScanRestart
<1>1. /\ status = "running" /\ call.op = "scan" /\ call.alias = NULL
      /\ call.i \in Nat /\ Pod \in Aliases /\ Pod \in ToSet(down)
  BY <1>0, ScanningFacts
<1>2. /\ call' \in CallType /\ call'.op = "restart" /\ call'.alias = Pod
  BY <1>0, <1>1 DEF Call, Blank, CallType, Ops, Descriptor
<1>3. TypeInv' BY <1>0, <1>2 DEF TypeInv, mgr, env, hist
<1>4. BoundInv' /\ LostIsQueued' BY <1>0 DEF BoundInv, LostIsQueued, mgr, hist
<1>5. CallInv' BY <1>0, <1>1, <1>2 DEF CallInv, mgr, hist
<1>6. AliveInv'
  BY <1>0, <1>1, <1>2, NullAssumption DEF AliveInv, TypeInv, mgr, hist
<1> QED BY <1>3, <1>4, <1>5, <1>6

\* The pod's worker is down: the pod is bound to another one.
LEMMA ScanTransferStep ==
    ASSUME MInv, ScanTransfer
    PROVE  MInv'
<1> USE DEF MInv
<1>0. /\ Scanning /\ Pod \in pods
      /\ UNCHANGED <<workers, walive, pods, down, linked, hosted, requests, faults,
                     lost, startedOn>>
  BY DEF ScanTransfer, env, hist
<1>1. /\ status = "running" /\ call.op = "scan" /\ call.alias = NULL
      /\ call.i \in Nat /\ Pod \in Aliases /\ Pod \in ToSet(down)
  BY <1>0, ScanningFacts
<1>2. CASE status' \in {"spinning", "crashed"} /\ UNCHANGED <<call, wpods, desc>>
  <2>1. TypeInv' BY <1>0, <1>2 DEF TypeInv
  <2> QED BY <1>2, <2>1 DEF BoundInv, CallInv, LostIsQueued, AliveInv
<1>3. ASSUME NEW s, NEW w \in Selectable(s, Pod) \cap Workers,
             BindWorker(Pod, w), Deref(ToSet(wpods[w])),
             call' = Call("transfer", Pod, desc[Pod], call.i)
      PROVE  MInv'
  <2>1. w \in ToSet(workers) BY <1>1, <1>3, ConnectedFacts
  <2>2. wpods' \in [Workers -> Seq(Aliases)]
    BY <1>1, <1>3, ElementsOfAppend DEF BindWorker, TypeInv
  <2>3. /\ call' \in CallType /\ call'.op = "transfer" /\ call'.alias = Pod
        /\ call'.old = desc[Pod]
    BY <1>1, <1>3 DEF Call, CallType, Ops, TypeInv
  <2>4. /\ desc' = [desc EXCEPT ![Pod].wd = w]
        /\ desc' \in [Aliases -> Descriptor]
    BY <1>1, <1>3 DEF BindWorker, TypeInv, Descriptor
  <2>5. status' \in {"running", "crashed"} BY <1>1, <1>3 DEF Deref
  <2>6. TypeInv' BY <1>0, <2>2, <2>3, <2>4, <2>5 DEF TypeInv
  <2>7. BoundInv' BY <1>0, <1>1, <2>1, <2>4 DEF BoundInv, TypeInv
  <2>8. CallInv' BY <1>0, <1>1, <2>3 DEF CallInv, BoundInv
  <2>9. LostIsQueued' BY <1>0, <1>1 DEF LostIsQueued
  <2>10. AliveInv'
    BY <1>0, <1>1, <2>3, <2>4, NullAssumption DEF AliveInv, TypeInv
  <2> QED BY <2>6, <2>7, <2>8, <2>9, <2>10
<1> QED BY <1>2, <1>3 DEF ScanTransfer, SelectSpins

\* Every step of the functor preserves the invariant.
LEMMA FunctorStep ==
    ASSUME MInv, Functor
    PROVE  MInv'
<1>0. call \in CallType /\ workers \in Seq(Workers) /\ Len(workers) \in Nat
  BY LenProperties DEF MInv, TypeInv
<1>1. CASE CheckPodsOnAllWorker \/ TransferDownPod
  <2>1. \E o \in {"check", "scan"} : Running("idle") /\ call' = Call(o, NULL, Blank, 1)
    BY <1>1 DEF CheckPodsOnAllWorker, TransferDownPod, Tick
  <2> QED BY <1>1, <2>1, MoveStep DEF CheckPodsOnAllWorker, TransferDownPod, Tick, Running
<1>2. CASE CheckDone
  BY <1>2, MoveStep DEF CheckDone, Scan, Running
<1>3. CASE CheckAnswered
  <2>1. /\ call.i \in Nat /\ call.i >= 1 /\ call.i <= Len(workers)
        /\ call.op = "check" /\ call.alias = NULL
    BY <1>3, CheckingFacts DEF CheckAnswered, Checking, Running
  <2>2. /\ call' \in CallType /\ call'.op = "report"
        /\ call'.alias = NULL /\ call'.i = call.i
        /\ UNCHANGED <<status, mgr, env, faults, hist>>
    BY <1>0, <1>3, <2>1 DEF CheckAnswered, CallType, Ops
  <2>3. TypeInv' BY <2>2 DEF MInv, TypeInv, mgr, env, hist
  <2>4. BoundInv' /\ LostIsQueued' BY <2>2 DEF MInv, BoundInv, LostIsQueued, mgr, hist
  <2>5. CallInv' BY <2>1, <2>2 DEF CallInv, mgr
  <2>6. AliveInv' BY <2>1, <2>2 DEF MInv, AliveInv, mgr, hist
  <2> QED BY <2>3, <2>4, <2>5, <2>6 DEF MInv
<1>4. CASE CheckReported
  <2>1. call.i \in Nat /\ call.i >= 1 /\ call.op = "report" /\ NextWorker
    BY <1>4, CheckingFacts DEF CheckReported, Running
  <2>2. call' = Call("check", NULL, Blank, call.i + 1) BY <2>1, NextWorkerFacts
  <2> QED BY <1>4, <2>1, <2>2, MoveStep DEF CheckReported
<1>5. CASE ScanEnd
  BY <1>5, MoveStep DEF ScanEnd, Idle, Running
<1>6. CASE ScanDangling
  <2>1. TypeInv' BY <1>6 DEF ScanDangling, MInv, TypeInv, mgr, env, hist
  <2> QED BY <1>6, <2>1 DEF ScanDangling, MInv, BoundInv, CallInv, LostIsQueued, AliveInv
<1> QED BY <1>1, <1>2, <1>3, <1>4, <1>5, <1>6, ReconnectStep, CheckBrokenStep,
           CheckExpiredStep, CheckExitStep, ScanRestartStep, ScanTransferStep
        DEF Functor

-----------------------------------------------------------------------------
(* The specification.                                                      *)

\* The scheduler's counter, and the pods a worker's "*" took down.
HistoryInv == last \in Nat /\ expired \subseteq Aliases

\* Only the user's requests are counted, and within their bound.
RequestsInv == requests \in 0..MaxRequests

IInv == MInv /\ HistoryInv /\ RequestsInv

\* Only a selection counts, and only a "*" adds to the history.
LEMMA HistoryStep ==
    ASSUME TypeInv, HistoryInv,
           \/ \E w \in Workers : ConnectToWorker(w)
           \/ \E w \in Workers, a \in Aliases : CreatePod(w, a) \/ TransferPod(a, w)
           \/ \E a \in Aliases : SelectWorkerToCreatePod(a) \/ StopPod(a)
           \/ Answer \/ Functor
    PROVE  HistoryInv'
<1> USE DEF HistoryInv
<1>1. CASE \/ \E w \in Workers : ConnectToWorker(w)
           \/ \E w \in Workers, a \in Aliases : CreatePod(w, a) \/ TransferPod(a, w)
           \/ \E a \in Aliases : SelectWorkerToCreatePod(a) \/ StopPod(a)
  <2>1. CASE \E a \in Aliases : SelectWorkerToCreatePod(a)
    <3>1. last' \in {last, last + 1} BY <2>1 DEF SelectWorkerToCreatePod, Select
    <3>2. expired' \subseteq expired BY <2>1 DEF SelectWorkerToCreatePod, Forget
    <3> QED BY <3>1, <3>2
  <2>2. CASE \E w \in Workers : ConnectToWorker(w)
    BY <2>2 DEF ConnectToWorker, hist
  <2>3. CASE \E w \in Workers, a \in Aliases : CreatePod(w, a) \/ TransferPod(a, w)
    BY <2>3 DEF CreatePod, TransferPod, hist
  <2>4. CASE \E a \in Aliases : StopPod(a)
    BY <2>4 DEF StopPod, hist
  <2> QED BY <1>1, <2>1, <2>2, <2>3, <2>4
<1>2. CASE Answer
  <2>1. last' = last
    BY <1>2 DEF Answer, RpcBlocks, ForkedByCreate, ForkedBySelect, ForkedByRestart,
                ForkedByTransfer, ForkSucceeds, ForkManagerDown, ForkFails, StopSucceeds,
                StopManagerDown, StopFails, OldShut, OldShutManagerDown, mgr
  <2>2. expired' \subseteq expired
    BY <1>2 DEF Answer, RpcBlocks, ForkedByCreate, ForkedBySelect, ForkedByRestart,
                ForkedByTransfer, ForkSucceeds, ForkManagerDown, ForkFails, StopSucceeds,
                StopManagerDown, StopFails, OldShut, OldShutManagerDown, Erase, Forget, hist
  <2> QED BY <2>1, <2>2
<1>3. CASE Functor
  <2>1. last' \in {last, last + 1}
    BY <1>3 DEF Functor, CheckPodsOnAllWorker, TransferDownPod, Tick, CheckDone, Reconnect,
                CheckBroken, CheckExpired, CheckAnswered, CheckReported, CheckExit,
                ScanEnd, ScanDangling, ScanRestart, ScanTransfer, Select, mgr
  <2>2. expired' \subseteq expired \cup pods
    BY <1>3 DEF Functor, CheckPodsOnAllWorker, TransferDownPod, Tick, CheckDone, Reconnect,
                CheckBroken, CheckExpired, CheckAnswered, CheckReported, CheckExit,
                ScanEnd, ScanDangling, ScanRestart, ScanTransfer, hist
  <2> QED BY <2>1, <2>2 DEF TypeInv
<1> QED BY <1>1, <1>2, <1>3

\* No step of the manager leaves the invariant: nothing the user asks for,
\* no answer of a worker and no round of the functor.
THEOREM Inductive == Spec => []IInv
<1>1. Init => IInv
  BY InitMInv, BoundsAssumption DEF Init, IInv, HistoryInv, RequestsInv
<1>2. IInv /\ [Next]_vars => IInv'
  <2> SUFFICES ASSUME IInv, [Next]_vars PROVE IInv' OBVIOUS
  <2> USE DEF IInv
  <2>1. CASE UserRequest
    <3>1. RequestsInv'
      BY <2>1, BoundsAssumption DEF UserRequest, Budget, RequestsInv
    <3>2. MInv'
      BY <2>1, ConnectStep, CreateStep, SelectStep, TransferStep, StopStep DEF UserRequest
    <3>3. HistoryInv' BY <2>1, HistoryStep DEF UserRequest, MInv
    <3> QED BY <3>1, <3>2, <3>3
  <2>2. CASE Answer
    <3>1. requests' = requests
      BY <2>2 DEF Answer, RpcBlocks, ForkedByCreate, ForkedBySelect, ForkedByRestart, ForkedByTransfer,
                  ForkSucceeds, ForkManagerDown, ForkFails, StopSucceeds, StopManagerDown,
                  StopFails, OldShut, OldShutManagerDown
    <3> QED BY <2>2, <3>1, AnswerStep, HistoryStep DEF MInv, RequestsInv
  <2>3. CASE Functor
    <3>1. requests' = requests
      BY <2>3 DEF Functor, CheckPodsOnAllWorker, TransferDownPod, Tick, CheckDone, Reconnect,
                  CheckBroken, CheckExpired, CheckAnswered, CheckReported, CheckExit,
                  ScanEnd, ScanDangling, ScanRestart, ScanTransfer
    <3> QED BY <2>3, <3>1, FunctorStep, HistoryStep DEF MInv, RequestsInv
  <2>4. CASE UNCHANGED vars
    BY <2>4 DEF vars, mgr, env, hist, MInv, TypeInv, BoundInv, CallInv, LostIsQueued,
                AliveInv, HistoryInv, RequestsInv
  <2> QED BY <2>1, <2>2, <2>3, <2>4 DEF Next
<1> QED BY <1>1, <1>2, PTL DEF Spec

\* Type correctness, with every pod of the map bound to a connected worker
\* while the manager runs (PodDescriptor::bindWorker, Manager.cpp 118-167).
THEOREM TypeCorrect == Spec => []TypeOK
<1>1. IInv => TypeOK
  BY DEF IInv, MInv, TypeInv, BoundInv, HistoryInv, RequestsInv, TypeOK, CallType
<1> QED BY <1>1, Inductive, PTL

\* A pod that went down because its worker did not answer a CHECK or
\* answered "Manager Down", or that exited with an error, stays in
\* down_services until it has been started again or stopped (Manager.cpp
\* 86-91, 252-277, 365-373, 394-410, 625-629).  Nothing is said of the pods
\* that the answer "*" marks dead (381-391), which are not queued.
THEOREM LostPodsAreQueued == Spec => []LostIsQueued
<1>1. IInv => LostIsQueued BY DEF IInv, MInv
<1> QED BY <1>1, Inductive, PTL

\* A pod recorded as alive is on the worker where it was last started, also
\* after a transfer that failed half-way (Manager.cpp 139-167).
THEOREM AlivePodsAreWhereStarted == Spec => []AliveWhereStarted
<1>1. IInv => AliveWhereStarted
  BY DEF IInv, MInv, AliveInv, AliveWhereStarted
<1> QED BY <1>1, Inductive, PTL
=============================================================================
