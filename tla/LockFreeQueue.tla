--------------------------- MODULE LockFreeQueue ----------------------------
(***************************************************************************)
(* The linked queue through which the SIGCHLD handler hands exit           *)
(* information to the event loop (src/worker/util/LockFreeQueue.h, the     *)
(* static queue `infos` of WorkerNode.h).                                  *)
(*                                                                         *)
(* Producers are the contexts that push: invocations of childExitHandler.  *)
(* signal() blocks SIGCHLD only in the thread that runs the handler, so a  *)
(* worker with several threads can have several of them at once.  There is *)
(* one consumer, checkIfPodsRunning in the event loop.                     *)
(*                                                                         *)
(* Each load, store or access to a node that two threads share is a step.  *)
(* Nodes are addresses: `new` returns any address that is not allocated, a *)
(* freed one included.                                                     *)
(***************************************************************************)
EXTENDS Naturals, Sequences

CONSTANTS
    Producers,   \* threads that may run the signal handler
    Values,      \* exit information
    Nodes,       \* addresses the allocator may return
    NULL,
    MaxPushes    \* bound on the number of calls of push

ASSUME NullAssumption == NULL \notin Nodes /\ NULL \notin Values
ASSUME MaxPushesAssumption == MaxPushes \in Nat
ASSUME NodesAssumption == Nodes # {}

VARIABLES
    head, tail,     \* the two atomics
    next, data,     \* the fields of every node
    live,           \* addresses that are allocated
    prod,           \* producer -> [pc, value, p, old_tail]
    cons,           \* [pc, old_head]
    pushed,         \* history: values whose push has returned, in order
    taken,          \* history: values pop has read, in order
    chain           \* history: the nodes from head to tail

vars == <<head, tail, next, data, live, prod, cons, pushed, taken, chain>>

IdleProducer == [pc |-> "idle", value |-> NULL, p |-> NULL, old_tail |-> NULL]

\* LockFreeQueue(): head and tail are the same empty node.
Init ==
    /\ head \in Nodes /\ tail = head
    /\ live = {head} /\ chain = <<head>>
    /\ next = [n \in Nodes |-> NULL] /\ data = [n \in Nodes |-> NULL]
    /\ prod = [h \in Producers |-> IdleProducer]
    /\ cons = [pc |-> "idle", old_head |-> NULL]
    /\ pushed = <<>> /\ taken = <<>>

(***************************************************************************)
(* push(new_value)                                                         *)
(***************************************************************************)
\* node *p = new node;
PushAlloc(h) ==
    /\ prod[h].pc = "idle" /\ Len(pushed) < MaxPushes
    /\ \E p \in Nodes \ live, v \in Values :
          /\ live' = live \cup {p}
          /\ next' = [next EXCEPT ![p] = NULL]
          /\ data' = [data EXCEPT ![p] = NULL]
          /\ prod' = [prod EXCEPT ![h] =
                        [pc |-> "load", value |-> v, p |-> p, old_tail |-> NULL]]
    /\ UNCHANGED <<head, tail, cons, pushed, taken, chain>>

\* node *const old_tail = tail.load();
PushLoad(h) ==
    /\ prod[h].pc = "load"
    /\ prod' = [prod EXCEPT ![h].old_tail = tail, ![h].pc = "data"]
    /\ UNCHANGED <<head, tail, next, data, live, cons, pushed, taken, chain>>

\* Mutant: the value goes into the new node instead of the old tail.
PushDataInNew(h) ==
    /\ prod[h].pc = "data"
    /\ data' = [data EXCEPT ![prod[h].p] = prod[h].value]
    /\ prod' = [prod EXCEPT ![h].pc = "link"]
    /\ UNCHANGED <<head, tail, next, live, cons, pushed, taken, chain>>

\* old_tail->data.swap(new_data);
PushData(h) ==
    /\ prod[h].pc = "data"
    /\ data' = [data EXCEPT ![prod[h].old_tail] = prod[h].value]
    /\ prod' = [prod EXCEPT ![h].pc = "link"]
    /\ UNCHANGED <<head, tail, next, live, cons, pushed, taken, chain>>

\* old_tail->next = p;
PushLink(h) ==
    /\ prod[h].pc = "link"
    /\ next' = [next EXCEPT ![prod[h].old_tail] = prod[h].p]
    /\ prod' = [prod EXCEPT ![h].pc = "store"]
    /\ UNCHANGED <<head, tail, data, live, cons, pushed, taken, chain>>

\* Mutant: the new tail is not published.
PushNoStore(h) ==
    /\ prod[h].pc = "store"
    /\ pushed' = Append(pushed, prod[h].value)
    /\ prod' = [prod EXCEPT ![h] = IdleProducer]
    /\ UNCHANGED <<head, tail, next, data, live, cons, taken, chain>>

\* tail.store(p);
PushStore(h) ==
    /\ prod[h].pc = "store"
    /\ tail' = prod[h].p
    /\ chain' = Append(chain, prod[h].p)
    /\ pushed' = Append(pushed, prod[h].value)
    /\ prod' = [prod EXCEPT ![h] = IdleProducer]
    /\ UNCHANGED <<head, next, data, live, cons, taken>>

(***************************************************************************)
(* pop(), with pop_head() inlined                                          *)
(***************************************************************************)
\* node *const old_head = head.load();
PopLoad ==
    /\ cons.pc = "idle"
    /\ cons' = [pc |-> "test", old_head |-> head]
    /\ UNCHANGED <<head, tail, next, data, live, prod, pushed, taken, chain>>

\* Mutant: the queue is never taken for empty.
PopNoTest ==
    /\ cons.pc = "test"
    /\ cons' = [cons EXCEPT !.pc = "advance"]
    /\ UNCHANGED <<head, tail, next, data, live, prod, pushed, taken, chain>>

\* Mutant: a queue of one value is taken for empty.
PopTestShort ==
    /\ cons.pc = "test"
    /\ cons' = IF tail \in {cons.old_head, next[cons.old_head]}
               THEN [pc |-> "idle", old_head |-> NULL]
               ELSE [cons EXCEPT !.pc = "advance"]
    /\ UNCHANGED <<head, tail, next, data, live, prod, pushed, taken, chain>>

\* if (old_head == tail.load()) return nullptr;
PopTest ==
    /\ cons.pc = "test"
    /\ cons' = IF cons.old_head = tail
               THEN [pc |-> "idle", old_head |-> NULL]
               ELSE [cons EXCEPT !.pc = "advance"]
    /\ UNCHANGED <<head, tail, next, data, live, prod, pushed, taken, chain>>

\* Mutant: the node is freed as soon as head has moved on, before it is read.
PopAdvanceFree ==
    /\ cons.pc = "advance"
    /\ head' = next[cons.old_head]
    /\ chain' = Tail(chain)
    /\ live' = live \ {cons.old_head}
    /\ cons' = [cons EXCEPT !.pc = "read"]
    /\ UNCHANGED <<tail, next, data, prod, pushed, taken>>

\* head.store(old_head->next);
PopAdvance ==
    /\ cons.pc = "advance"
    /\ head' = next[cons.old_head]
    /\ chain' = Tail(chain)
    /\ cons' = [cons EXCEPT !.pc = "read"]
    /\ UNCHANGED <<tail, next, data, live, prod, pushed, taken>>

\* std::shared_ptr<T> const res(old_head->data);
PopRead ==
    /\ cons.pc = "read"
    /\ taken' = Append(taken, data[cons.old_head])
    /\ cons' = [cons EXCEPT !.pc = "delete"]
    /\ UNCHANGED <<head, tail, next, data, live, prod, pushed, chain>>

\* Mutant: the node is forgotten.
PopNoDelete ==
    /\ cons.pc = "delete"
    /\ cons' = [pc |-> "idle", old_head |-> NULL]
    /\ UNCHANGED <<head, tail, next, data, live, prod, pushed, taken, chain>>

\* delete old_head;
PopDelete ==
    /\ cons.pc = "delete"
    /\ live' = live \ {cons.old_head}
    /\ cons' = [pc |-> "idle", old_head |-> NULL]
    /\ UNCHANGED <<head, tail, next, data, prod, pushed, taken, chain>>

-----------------------------------------------------------------------------
Push(h) == PushAlloc(h) \/ PushLoad(h) \/ PushData(h) \/ PushLink(h) \/ PushStore(h)
Pop == PopLoad \/ PopTest \/ PopAdvance \/ PopRead \/ PopDelete

Next == (\E h \in Producers : Push(h)) \/ Pop

Spec == Init /\ [][Next]_vars

\* A handler that has begun its push ends it, and so does a pop that has
\* begun.  Nothing makes either be called.
FairSpec ==
    /\ Spec
    /\ \A h \in Producers :
          WF_vars(PushLoad(h) \/ PushData(h) \/ PushLink(h) \/ PushStore(h))
    /\ WF_vars(PopTest \/ PopAdvance \/ PopRead \/ PopDelete)

-----------------------------------------------------------------------------
ProducerPC == {"idle", "load", "data", "link", "store"}
ConsumerPC == {"idle", "test", "advance", "read", "delete"}

TypeOK ==
    /\ head \in Nodes /\ tail \in Nodes
    /\ next \in [Nodes -> Nodes \cup {NULL}]
    /\ data \in [Nodes -> Values \cup {NULL}]
    /\ live \subseteq Nodes
    /\ prod \in [Producers -> [pc : ProducerPC, value : Values \cup {NULL},
                               p : Nodes \cup {NULL}, old_tail : Nodes \cup {NULL}]]
    /\ cons \in [pc : ConsumerPC, old_head : Nodes \cup {NULL}]
    /\ pushed \in Seq(Values) /\ taken \in Seq(Values)
    /\ chain \in Seq(Nodes)

(***************************************************************************)
(* No node is touched after it was deleted: the node a producer fills and  *)
(* links and the node the consumer reads are allocated (LockFreeQueue.h    *)
(* 28, 51, 61, 62).                                                        *)
(***************************************************************************)
NoUseAfterFree ==
    /\ \A h \in Producers :
          prod[h].pc \in {"data", "link"} => prod[h].old_tail \in live
    /\ cons.pc \in {"advance", "read", "delete"} => cons.old_head \in live

(***************************************************************************)
(* Nothing leaks: the allocated nodes are those from head to tail and the  *)
(* ones a running push or pop still holds (LockFreeQueue.h 52, 59).        *)
(***************************************************************************)
NoLeak ==
    live = {chain[i] : i \in 1..Len(chain)}
             \cup {prod[h].p : h \in {g \in Producers : prod[g].pc # "idle"}}
             \cup (IF cons.pc \in {"read", "delete"} THEN {cons.old_head} ELSE {})

(***************************************************************************)
(* The refinement: the values in the nodes from head up to, and without,   *)
(* the tail are the abstract queue; a value leaves it when head moves past *)
(* its node.                                                               *)
(***************************************************************************)
AbstractQueue == [i \in 1..(Len(chain) - 1) |-> data[chain[i]]]
AbstractTaken == IF cons.pc = "read" THEN Append(taken, data[cons.old_head]) ELSE taken

Fifo == INSTANCE FifoQueue WITH queue <- AbstractQueue, taken <- AbstractTaken

ImplementsFifo == Fifo!Spec

(***************************************************************************)
(* If pop is called again and again, every value that was pushed is handed *)
(* to a caller: no value stays behind in a queue whose pops find it empty  *)
(* (LockFreeQueue.h 24-30, 45-53).  That the worker does go on calling pop *)
(* is a hypothesis; its loop in checkIfPodsRunning may not.                *)
(***************************************************************************)
PushedIsTaken ==
    []<><<PopLoad>>_vars => \A n \in 1..MaxPushes : (Len(pushed) >= n) ~> (Len(taken) >= n)

\* No push is under way and the next pop returns nullptr.
Drained ==
    /\ \A h \in Producers : prod[h].pc = "idle"
    /\ cons.pc = "idle"
    /\ head = tail

(***************************************************************************)
(* WorkerNode.h 39: childExitHandler receives the SIGCHLD and collects the *)
(* exit information.  When no handler is running and pop finds the queue   *)
(* empty, checkIfPodsRunning has been given everything that was pushed.    *)
(***************************************************************************)
NoExitLost == Drained => Len(taken) = Len(pushed)
=============================================================================
