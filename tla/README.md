# Verification of TinySwarm

TinySwarm starts processes ("pods") on worker nodes on behalf of a manager
node. This directory holds TLA+ models of its components, the TLC
configurations that check them on small instances, and TLAPS proofs of what
holds for every instance. `PROJECT.json` maps each definition to the lines it
models and lists runs, mutants, findings, hazards and theorems.

## Inventory

| part | state | operations | interacts with |
|---|---|---|---|
| `manager/LogQueue` | list of slices, spin lock, flag, output stream | `append`, `flush`, `LoopFlush`, destructor | the manager thread and its own log thread |
| `manager/Manager` | map of pods, list of workers with a list of pods each, `down_services` | `createPod`, `selectWorkerToCreatePod`, `transferPod`, `stopPod`, `checkPodsOnAllWorker`, `transferDownPod`, `connectToWorker` | RPCs FORK, SHUTDOWN, CHECK to workers; `LogQueue`; scheduler |
| `manager/Scheduler` | a counter | `getBestWorker` | reads the manager's workers |
| manager recovery | `snapshot`, `snapshot.backup`, `manager.log` | `snapshot`, `recover`, `parseLogLine` | files, `LogQueue`, FORK |
| `manager/ServiceManager`, `ServiceDescriptor` | services by token, `start_list_`, `end_list_` | `createService`, `deleteService`, `startFailedPod`, `shutdownFailedPod`, `removeService` | `Manager`, proxies |
| `manager/Proxy` | address pools | insert, update, delete | nginx, ipvs (shell commands) |
| `worker/WorkerNode` | pods, managers with their pods, `down_pods` | `createProcess`, `stopPod`, `checkIfPodsRunning`, `checkPodsUsingProbe`, `removeManagerNotUsed`, `collectExitInformation` | SIGCHLD handler, RPC threads, event loop |
| `worker/util/LockFreeQueue` | linked list with two atomics | `push`, `pop` | SIGCHLD handler and event loop |
| `worker/recorder` | record files, time stamp | `addPodRecord`, `removePodRecord`, `checkPodRecord` | `WorkerNode`, files |
| `Common` RPC client | connection, alarm, one asynchronous call | `CallMethod`, `reconnect`, `RpcAsyncSession::run` | sockets, signals |
| `Common` RPC server, framing | none | dispatch | event loop library (not in the repository) |
| `ErrorReporter`, etcd registration, publisher, status, logging | buffers, leases | thin wrappers | mongodb, etcd, redis |

What is hard: two threads around the log queue; a signal handler around the
exit queue; failures of an RPC in the middle of an operation that has already
changed the manager's lists, with raw pointers in three containers; a manager
that expires on a worker while it is still talking to it; crashes between the
steps of snapshot and recovery; a late answer, or an answer to bytes that were
no request, read by the next call; a selection or an RPC that never returns.

What makes each part correct: no slice lost, reordered or stuck (log queue);
every exit delivered once, in order, no freed node touched (exit queue); a pod
that fails is found, queued and started again, a worker is found for it, and
what is recorded of a pod agrees with where it runs (manager); state at restart is the state that was
logged (recovery); a deleted service is eventually gone (service layer); an
exit is reported once and to its own manager, and no lock is taken twice
(worker); an answer belongs to its call (RPC).

## Modules

| module | models |
|---|---|
| `LogQueue` | `manager/LogQueue.cpp`: owner thread and log thread, one step per access to shared state |
| `LogQueueProofs` | its inductive invariant and theorems |
| `FifoQueue` | what the exit queue promises: put at the end, take from the front |
| `LockFreeQueue` | `worker/util/LockFreeQueue.h`: producers and one consumer, one step per shared access, an allocator that reuses freed addresses |
| `LockFreeQueueProofs` | its inductive invariant, memory safety, no leak, and the refinement of `FifoQueue` |
| `Manager` | `manager/Manager.cpp` with `PodDescriptor`, `WorkerDescriptor` and `RoundRobin`, or any scheduler |
| `ManagerProofs` | its inductive invariant and theorems |
| `ListTheorems` | lemmas about the elements of a list and about `RemoveAt` and `RemoveFirst` of `SequencesExt` |
| `ServiceManager` | `manager/ServiceManager`, `ServiceDescriptor`: extends `Manager` and calls its actions |
| `ServiceManagerProofs` | its inductive invariant and theorems, on top of `ManagerProofs` |
| `RpcChannel` | `Common/RpcClientChannel.h` with `Session::run`: threads that share one connection |
| `RpcChannelProofs` | its inductive invariant and theorems |
| `Recovery` | the manager's files: `snapshot`, `recover`, `parseLogLine`, the log file, and crashes |
| `WorkerNode` | the worker's FORK, SHUTDOWN and CHECK handlers, its table of pods and its managers |
| `MC...` | model values and constants for TLC |

**LogQueue.** `owner` and `flusher` are the program counters of the two
threads. `AppendAcquire` to `AppendNotify` are `append`, `DtorBegin` to
`DtorJoin` the destructor, `LoopTest`, `LoopWait` and the `Flush` actions the
log thread. `good` is the state of the stream: for a file that does not exist
the constructor opens it twice, the second `open` sets failbit, and everything
written later is dropped. The properties about the file are therefore stated
for a good stream. `appended` is a history variable.

**LockFreeQueue.** `prod[h].pc` and `cons.pc` are the program counters; `live`
the allocated nodes; `chain`, `pushed` and `taken` are history variables. The
destructor is left out: the queue is a static object.

**Manager.** `call` holds the operation that is running and its locals; a step
ends where the code sends an RPC, and each answer (success, refusal, "Manager
Down", broken connection) is an action. `pods`/`desc` are the map, `wpods[w]`
the list of `WorkerDescriptor` w, `down` is `down_services`. A pointer to a map
element is modelled by its alias and dangles when the alias is not in the map;
following a dangling pointer ends in `status = "crashed"`, as does every other
step C++ leaves undefined. The event loop is one thread, as the comment at
`Manager.h` 200 says. An RPC returns, fails, or never returns (`RpcBlocks`,
status "blocked"): the alarm is one for the process and may interrupt another
thread. `Init` is a first start, with no snapshot. The model leaves out what the
log lines say, the gossip message and the exit texts. `linked` and `hosted` are
external: the connection, and the pods the worker really runs. `lost`, `expired`
and `startedOn` are history variables; `expired` has the pods a worker's "*"
took down, `lost` those every other failure did.

The constant `Schedulers` says who may make a selection. "RoundRobin" is the
code: the loop of `getBestWorker` undoes its own count and never advances its
iterator, so it returns the first worker when `last % size` is 1 and that worker
is alive with the port free, divides by zero when there is no worker, and
otherwise never ends (status "spinning"; C++ lets a compiler assume that such a
loop ends, and the build files ask for no optimisation). At the first selection
`last` is 0: in the program as written no selection ever returns, although
`Manager.h` 55 says that a worker is selected from the alive ones, and only
`createPod` and `transferPod` with an explicit worker start pods. "Interface" is
any strategy that keeps to the description of the `Scheduler` base class: it
returns a worker that is alive with the port free, or null. The passing run
allows both, and the proofs hold for either, so that they also cover what the
manager does after a selection; every violation run of `Manager` has
"RoundRobin" alone, and shows what the program does as it is.

**ServiceManager.** The composition of the service layer with `Manager`. `op`
is the service operation that is running; at "call" it begins
`selectWorkerToCreatePod` or `stopPod` for one pod, `Manager` then takes its own
steps (RPC answers and failures included), and at "ret" the result is used. The
functors run only between requests, as in the event loop. `group[t]` is
`ServiceDescriptor::pods_`, a list of pointers into the manager's map. Where the
code uses what it has freed (`removeService`, `stopPod` of a dangling pointer)
the model crashes or goes on; `EraseService` is the loop that goes on, a recursive
function as the loop is. `deleting` and `reused` are history variables. The run
uses the scheduler "Interface", since with `RoundRobin` the first service
created spins.

**RpcChannel.** Each caller is a thread in `Session::run` with its own session;
`mtx` is the channel's mutex, and `reconnect` ignores it, as in the code. A
message carries no number that anyone compares, so the pairing of answers with
calls rests on the mutex and on closing the socket after a failure. `eintr` is
the thread's errno: `waitResponse` tests it even after a read that succeeded.
The alarm belongs to the process and reaches any thread. The peer, the sockets
and `Buffer::readToBuffer` are external; since the repository does not say what
a failed `readToBuffer` returns, both outcomes are in the model. A SIGPIPE is
taken to be ignored.

`sendMessages` may write a request in parts. A write that fails after a partial
one subtracts 1 from `pos` and is not recognised: it may fail until `pos` has
walked down to -1 (`SendFails`), or succeed one byte too early, so that the
request has a byte twice (`SendRepeats`); a reconnect in between sends the rest
to another socket ("split"). After an answer `waitResponse` writes one more byte
(`WriteSpace`). All bytes that are not a whole request are 0 in `asked`. What
the peer does with them depends on the event loop library: it keeps them until a
whole request has come, as `Buffer` does on the client's side, or it hands them
to `rpcWriteCallBack`, which answers whatever it gets (`RPCServer.h` 119-190).
`AnswersStray` is that choice. With `FALSE` an answer belongs to its call (run
`rpc`, and the theorems); with `TRUE` it does not (run `rpc_stray`).

**Recovery.** The steps of the constructors and of `recover`, with a crash
possible between any two changes of a file. `stream` says where the log stream
writes: nowhere after the double open, into the file, or into a file whose name
has been removed. Each operation of the serving manager is one step that logs
the lines of its success; `Manager` has its failures.

**WorkerNode.** One step per request. `answer` records the last request with
whether a pod had its alias.

## Runs

| run | result | shows |
|---|---|---|
| `logqueue` | pass | exclusion, nothing lost or reordered, no missed notification of a sleeping thread, everything written at close, the destructor's loop ends |
| `logqueue_wakeup` | violation of `QueuedIsFlushed` | `flush` clears the flag an `append` has just set; the slice stays queued until the next `append`. The last log line before a quiet period reaches the disk only with the next request |
| `lockfree` | pass | with one handler at a time: no use after free, no leak, FIFO, and everything pushed comes out if someone keeps popping |
| `manager` | pass | with the scheduler of the code or any that keeps to the interface: a pod lost to an unanswered CHECK, a "Manager Down" or an exit with an error is queued until started again; an alive pod is recorded where it was started; an unreachable worker becomes alive again, unless the event loop ends in a selection, an RPC that never returns or a crash |
| `manager_worker_down` | violation of `WorkerDownMarksPods` | pods made by `createPod` stay alive when their worker goes down |
| `manager_down_list` | violation of `DownServiceDeleted` | a pod started on the retry after "Manager Down" is up and still queued |
| `manager_expired` | violation of `FailedIsQueued` | pods that a CHECK answered "*" takes down are marked dead and not queued; nothing starts them again |
| `service` | pass | over every failure of `Manager` a service with pods missing stays in `start_list_`, a deletion that failed stays in `end_list_`, and every pod in the map is in the group of a service unless its token was given twice |
| `rpc` | pass | with a peer that keeps bytes that are no request: an answer is returned only to the call that asked for it, across partial and doubled writes, the byte after each answer, timeouts, late answers, a stale EINTR and unlocked reconnects |
| `rpc_stray` | violation of `ResultIsOwn` | with a peer that answers every read: the byte written after an answer gets an error response, which the next call returns |
| `recovery` | violation of `PodsPutBack` | nothing that was logged while serving is found after a crash |
| `worker_alias` | violation of `RefusedAliasIsTaken` | FORK refuses every alias no pod has, so the worker as written starts no pod |

**Bounds.** Three appends of two slices let an append meet every step of a
flush while a batch is being written and another slice is queued. Four nodes
and four pushes make freed addresses come back while the consumer still holds
one. Two workers, two pods, four requests and three failures suffice for a
transfer that fails after a "Manager Down" of one worker and a broken
connection to the other, duplicates in `down_services`, and a pod alive on one
worker with an entry left in the list of another. `ServiceManager` has one
worker, a service of three pods and one of a single pod, five requests and two
failures: enough for a creation that loses its middle pod, a restart, a
deletion that fails on one pod and a second creation with the same token.
`RpcChannel` has two threads, four calls and three sockets: a call that times
out, a reconnect while the other thread is waiting, and a late answer on each
earlier socket; its callers are symmetric. `rpc_stray` leaves partial writes out
(`WholeWrites`), so that its trace shows the byte after the answer alone. `Recovery` needs one pod, two workers, three
operations and one crash; two are allowed. In `WorkerNode` the first request
suffices. No symmetry is used elsewhere.

**Fairness.** `LogQueue`: a thread that can run is scheduled; whether the
manager appends again or destroys the queue is its own choice.
`LockFreeQueue`: a handler that has begun its push ends it, and a `pop` that has
begun ends; no new exit and no new `pop` is required. That somebody pops again
and again is the hypothesis of `PushedIsTaken`, not fairness: the worker's event
loop may stay in `checkPodsUsingProbe`, whose `continue` does not advance
(`WorkerNode.cpp` 427-428). `Manager`: the event loop goes on, where an RPC
returns, fails, or blocks it for ever (after which nothing is claimed), and the
check, which becomes due every five seconds, happens infinitely often (strong
fairness, because the loop is busy in between). The number of failures is
bounded, so the liveness property says what happens once failures stop.

The four other modules state no fairness: their properties are invariants. That
a deleted service is removed in the end is not claimed, because a pod whose
shutdown failed is marked dead and refused from then on (`Manager.h` 182). That
an RPC returns is not claimed in `RpcChannel` either: the alarm fires once, and
may reach another thread than the one that reads.

Deadlock is checked only for `LockFreeQueue` and `WorkerNode`: a queue may be destroyed, pushes and requests are
bounded, and the manager may spin, block or crash.

## Proofs

Every invariant of a passing run, and the refinement, is a theorem, proved for
every value of the constants under the assumptions the modules name: `NULL` is
no member of the sets it is added to, `Schedulers` has members of its two values
and `AnswersStray` is a Boolean, bounds are natural numbers (`MaxSockets` positive), sets that the code takes an element from are not empty, a service
asks for at least one pod and each of its pods has a name (`NumAssumption`,
`PodNameAssumption`; names need not differ). The bounds on requests and failures appear in guards only: no proof uses their size.

In each `...Proofs` module the invariants are strengthened to one that is
inductive, there is one lemma per action or group of actions, and the theorems follow from `Inductive`.

* `LogQueueProofs`: `TypeCorrect`, `MutualExclusion`, `NothingLost`,
  `NotifyReachesSleeper`, `DurableAtClose`. The lock bit has to be
  tied to the two program counters, the batch has to be empty outside the write
  loop, the queue empty once the destructor has seen it empty (nobody appends
  then), and `quit` tied to the destructor's progress.
* `LockFreeQueueProofs`, assuming there is one producer (two handlers in two
  threads would load the same tail, fill one node and lose an exit): `TypeCorrect`, `MemorySafe`, `NothingLost`, `NothingLeaks`,
  `Refinement`. The inductive invariant says that `chain` is a duplicate-free
  path along `next` from `head` to `tail`, that the node a push holds is not on
  it nor the one a pop is about to delete, and that the data of the nodes before
  the tail are the values pushed and not yet taken. `NoLeak` is inductive
  relative to it: a node passes from the push that holds it to the chain and
  from there to the pop, and has one owner at a time. Under the refinement
  mapping a push takes effect at `PushStore` and a pop at `PopAdvance`; every
  other step is a stutter.
* `RpcChannelProofs`, for any number of threads: `TypeCorrect`,
  `AnswerBelongsToCall`, `GivingUpClosesSocket`, each of the form
  `~AnswersStray /\ Spec => []...`: the peer keeps bytes that are no request
  (the run `rpc_stray` shows that without this the second is false). The mutex is
  tied to the program counters (`LockInv`); on the socket in use nothing is
  outstanding but bytes that are no request and the request of the thread that
  holds the mutex, at most once, either with the peer or on its way back
  (`OutstandingInv`). An unlocked `reconnect` is harmless to it because a socket
  not opened yet has carried nothing (`SocketInv`).
* `ManagerProofs`, for either scheduler: `TypeCorrect`, `LostPodsAreQueued`,
  `AlivePodsAreWhereStarted`. `LostIsQueued` is about every way a pod goes down
  but the answer "*", whose pods `manager_expired` shows to be forgotten; it
  needs to know that a pod `transferDownPod` works on is still queued when the
  call ends, and that only one of its entries is erased then. `AliveWhereStarted`
  says nothing about the pod of the running call, so `AliveInv` adds what holds
  of it at each stage, and of the old descriptor that a failed transfer puts back
  (`CallInv` and `BoundInv` say whose it is). What `RemoveFirst` and `RemoveAt`
  leave in a list is in `ListTheorems`.
* `ServiceManagerProofs`: `ServiceTypeCorrect`, `IncompleteServicesAreQueued`,
  `DeletedServicesAreQueued`, `EveryPodIsOwned`, over every step of `Manager`
  (whose own invariant is carried along). The properties speak of the state
  between operations. During one, `QueuedInv` and `OwnedInv` except the service
  `deleteService` has not queued yet and the pods created and not yet put into a
  group, and `OpInv` says that the service of a running restart or reap is still
  the first of its list, which is what is taken off at the end.
  `removeService` is a loop over a list: that its recursive function exists and
  removes exactly the entries of the service is shown by a least counterexample
  (`LeftExists`, `EraseFacts`), since the induction rules are out of reach.

Model-checked only: the liveness properties `DtorDrains`, `PushedIsTaken` and
`DownWorkerRejoins`, since the prover does not handle
fairness. `Recovery` and `WorkerNode` have runs that refute what the code's
comments promise, and no theorem.

## Plan

Left for the proofs: an abstract specification of a supervised pod (started,
lost, queued, started again, stopped) that `Manager` refines; action properties
of the service layer (what a step may never take out of a list); and what the
recovery does guarantee, which is that no pod is put back that no snapshot and
no log line names.

## Not modelled

* Worker: exits and their collection, restarts of a pod, probes, docker pods and
  the start recorder. All of it works on pods in the table, and the program as
  written never has one: FORK refuses a fresh alias (`worker_alias`) and nothing
  else starts a pod. Past that point the host path copies a `PodDescriptor`
  whose destructor deletes its probe, and the recorder holds a pointer read
  before it was assigned; a model would show only that. What to look at when
  FORK is corrected, in `WorkerNode.cpp`: a child may exit before it is in the
  table (208); the list of exits ends with the null pointer of the last `pop`
  (374); a restart under `mtx1` locks `mtx1` again (389); the probe loop
  continues without advancing (428) and erases a pod its manager still points to
  (440); the expiry of a manager races its requests (529). The SIGCHLD handler
  calls `wait` once per signal (`WorkerNode.h` 43).
* RPC client: the asynchronous session (nothing calls it; a second call would
  assign to a thread that was not joined, `Session.h` 55) and
  `removeChannelLNU`, which subtracts the present from the past and so never
  removes a channel.
* Proxies: the one constructed is `NoProxy`, which does nothing; the others are
  shell commands. The error reporter: nothing starts its thread. etcd
  registration and the publisher: wrappers of client libraries.
* RPC dispatch and HTTP framing (stateless, over an event loop that is not in
  the repository), configuration, addresses, logging, generated protobuf code.
  `worker/PodRecorder.*` is an unused old copy of the start recorder.
* `src/docs`: the pages, search index and JavaScript that Doxygen generates from
  the headers. These scripts are the only JavaScript in the repository; the
  program is C++, and all modules model its C++.
