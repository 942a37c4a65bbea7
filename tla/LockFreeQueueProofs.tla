------------------------- MODULE LockFreeQueueProofs ------------------------
(***************************************************************************)
(* TLAPS proofs about LockFreeQueue with a single producer, for every set  *)
(* of values, every set of addresses and every number of pushes: no node   *)
(* is used after it was freed, none leaks, nothing pushed is lost, and the *)
(* queue implements FifoQueue.                                             *)
(***************************************************************************)
EXTENDS LockFreeQueue, SequenceTheorems, TLAPS

-----------------------------------------------------------------------------
(* The inductive invariant.  chain is the list of nodes a reader would     *)
(* walk from head to tail.                                                 *)

ChainInv ==
    /\ Len(chain) >= 1
    /\ head = chain[1] /\ tail = chain[Len(chain)]
    /\ \A i, j \in 1..Len(chain) : chain[i] = chain[j] => i = j
    /\ \A i \in 1..Len(chain) : chain[i] \in live
    /\ \A i \in 1..(Len(chain) - 1) : next[chain[i]] = chain[i + 1]
    /\ \A i \in 1..(Len(chain) - 1) : data[chain[i]] \in Values

\* What a push that is under way owns and has already written.
ProdInv ==
    \A h \in Producers :
        /\ prod[h].pc # "idle" =>
              /\ prod[h].p \in live /\ prod[h].value \in Values
              /\ \A i \in 1..Len(chain) : chain[i] # prod[h].p
              /\ cons.pc \in {"read", "delete"} => cons.old_head # prod[h].p
        /\ prod[h].pc \in {"data", "link", "store"} => prod[h].old_tail = tail
        /\ prod[h].pc \in {"link", "store"} => data[tail] = prod[h].value
        /\ prod[h].pc = "store" => next[tail] = prod[h].p

\* What a pop that is under way knows about the node it has loaded.
ConsInv ==
    /\ cons.pc \in {"test", "advance"} => cons.old_head = head
    /\ cons.pc = "advance" => head # tail
    /\ cons.pc \in {"read", "delete"} =>
          /\ cons.old_head \in live
          /\ \A i \in 1..Len(chain) : chain[i] # cons.old_head
    /\ cons.pc = "read" => data[cons.old_head] \in Values

CountInv ==
    Len(pushed) = Len(taken) + (IF cons.pc = "read" THEN 1 ELSE 0) + Len(chain) - 1

IInv == TypeOK /\ ChainInv /\ ProdInv /\ ConsInv /\ CountInv

-----------------------------------------------------------------------------
(* The constructor establishes the invariant: one node, head and tail.     *)
LEMMA InitIInv == Init => IInv
  <1> SUFFICES ASSUME Init PROVE IInv
    OBVIOUS
  <1>1. chain \in Seq(Nodes) /\ Len(chain) = 1 /\ chain[1] = head
    BY DEF Init
  <1>2. TypeOK
    BY <1>1, EmptySeq DEF Init, TypeOK, IdleProducer, ProducerPC, ConsumerPC
  <1>3. ChainInv /\ ConsInv /\ CountInv
    BY <1>1 DEF Init, ChainInv, ConsInv, CountInv
  <1>4. ProdInv
    BY DEF Init, ProdInv, IdleProducer
  <1> QED
    BY <1>2, <1>3, <1>4 DEF IInv

(* With one producer every step of push preserves the invariant.           *)
LEMMA PushStep ==
    ASSUME NEW h, Producers = {h}, IInv, Push(h)
    PROVE  IInv'
  <1> USE NullAssumption DEF IInv, ProducerPC, ConsumerPC
  <1>0. /\ prod[h] \in [pc : ProducerPC, value : Values \cup {NULL},
                        p : Nodes \cup {NULL}, old_tail : Nodes \cup {NULL}]
        /\ Len(chain) \in Nat /\ chain \in Seq(Nodes)
    BY DEF TypeOK
  <1>1. CASE PushAlloc(h)
    <2>1. PICK p \in Nodes \ live, v \in Values :
            /\ live' = live \cup {p}
            /\ next' = [next EXCEPT ![p] = NULL]
            /\ data' = [data EXCEPT ![p] = NULL]
            /\ prod' = [prod EXCEPT ![h] =
                          [pc |-> "load", value |-> v, p |-> p, old_tail |-> NULL]]
      BY <1>1 DEF PushAlloc
    <2>2. UNCHANGED <<head, tail, cons, pushed, taken, chain>>
      BY <1>1 DEF PushAlloc
    <2>3. TypeOK'
      BY <2>1, <2>2 DEF TypeOK
    <2>4. \A i \in 1..Len(chain) : chain[i] # p
      BY <2>1 DEF ChainInv
    <2>5. ChainInv'
      BY <1>0, <2>1, <2>2, <2>4 DEF ChainInv, TypeOK
    <2>6. ConsInv' /\ CountInv'
      BY <1>0, <2>1, <2>2, <2>4 DEF ConsInv, CountInv, TypeOK
    <2>7. ProdInv'
      BY <1>0, <2>1, <2>2, <2>4 DEF ProdInv, ConsInv, TypeOK
    <2> QED
      BY <2>3, <2>5, <2>6, <2>7
  <1>2. CASE PushLoad(h)
    <2>1. TypeOK' /\ ChainInv' /\ ConsInv' /\ CountInv'
      BY <1>0, <1>2 DEF PushLoad, TypeOK, ChainInv, ConsInv, CountInv
    <2>2. ProdInv'
      BY <1>0, <1>2 DEF PushLoad, TypeOK, ProdInv
    <2> QED
      BY <2>1, <2>2
  <1>3. CASE PushData(h)
    <2>1. data' = [data EXCEPT ![tail] = prod[h].value] /\ prod[h].value \in Values
      BY <1>3 DEF PushData, ProdInv
    <2>2. TypeOK' /\ CountInv'
      BY <1>0, <1>3, <2>1 DEF PushData, TypeOK, CountInv
    <2>3. ChainInv'
      BY <1>0, <1>3, <2>1 DEF PushData, TypeOK, ChainInv
    <2>4. ConsInv'
      BY <1>0, <1>3, <2>1 DEF PushData, TypeOK, ConsInv, ChainInv
    <2>5. ProdInv'
      BY <1>0, <1>3, <2>1 DEF PushData, TypeOK, ProdInv
    <2> QED
      BY <2>2, <2>3, <2>4, <2>5
  <1>4. CASE PushLink(h)
    <2>1. next' = [next EXCEPT ![tail] = prod[h].p] /\ prod[h].p \in live
      BY <1>4 DEF PushLink, ProdInv
    <2>2. TypeOK' /\ CountInv' /\ ConsInv'
      BY <1>0, <1>4, <2>1 DEF PushLink, TypeOK, CountInv, ConsInv
    <2>3. ChainInv'
      <3>1. \A i \in 1..(Len(chain) - 1) : chain[i] # tail
        BY <1>0 DEF ChainInv
      <3>2. \A i \in 1..(Len(chain) - 1) : next'[chain[i]] = next[chain[i]]
        BY <1>0, <2>1, <3>1 DEF TypeOK
      <3>3. UNCHANGED <<chain, head, tail, live, data>>
        BY <1>4 DEF PushLink
      <3> QED
        BY <3>2, <3>3 DEF ChainInv
    <2>4. ProdInv'
      BY <1>0, <1>4, <2>1 DEF PushLink, TypeOK, ProdInv
    <2> QED
      BY <2>2, <2>3, <2>4
  <1>5. CASE PushStore(h)
    <2> DEFINE p == prod[h].p
               n == Len(chain)
    <2>1. /\ tail' = p /\ chain' = Append(chain, p)
          /\ pushed' = Append(pushed, prod[h].value)
          /\ prod' = [prod EXCEPT ![h] = IdleProducer]
          /\ UNCHANGED <<head, next, data, live, cons, taken>>
      BY <1>5 DEF PushStore
    <2>2. /\ p \in live /\ p \in Nodes /\ prod[h].value \in Values
          /\ data[tail] = prod[h].value /\ next[tail] = p
          /\ \A i \in 1..n : chain[i] # p
          /\ cons.pc \in {"read", "delete"} => cons.old_head # p
      BY <1>5 DEF PushStore, ProdInv, TypeOK
    <2>3. /\ chain' \in Seq(Nodes) /\ Len(chain') = n + 1 /\ chain'[n + 1] = p
          /\ \A i \in 1..n : chain'[i] = chain[i]
      BY <1>0, <2>1, <2>2, AppendProperties
    <2>4. TypeOK' /\ CountInv'
      BY <1>0, <2>1, <2>2, <2>3 DEF TypeOK, CountInv, IdleProducer
    <2>5. ChainInv'
      BY <1>0, <2>1, <2>2, <2>3 DEF ChainInv
    <2>6. ConsInv'
      BY <1>0, <2>1, <2>2, <2>3 DEF ConsInv, ChainInv
    <2>7. ProdInv'
      BY <2>1 DEF ProdInv, IdleProducer, TypeOK
    <2> QED
      BY <2>4, <2>5, <2>6, <2>7
  <1> QED
    BY <1>1, <1>2, <1>3, <1>4, <1>5 DEF Push

(* Every step of pop preserves the invariant.                              *)
LEMMA PopStep ==
    ASSUME IInv, Pop
    PROVE  IInv'
  <1> USE NullAssumption DEF IInv, ProducerPC, ConsumerPC
  <1>0. /\ cons \in [pc : ConsumerPC, old_head : Nodes \cup {NULL}]
        /\ Len(chain) \in Nat /\ chain \in Seq(Nodes)
    BY DEF TypeOK
  <1>1. CASE PopLoad
    <2>1. TypeOK' /\ ChainInv' /\ CountInv' /\ ConsInv'
      BY <1>0, <1>1 DEF PopLoad, TypeOK, ChainInv, CountInv, ConsInv
    <2>2. ProdInv'
      BY <1>0, <1>1 DEF PopLoad, ProdInv
    <2> QED
      BY <2>1, <2>2
  <1>2. CASE PopTest
    <2>1. TypeOK' /\ ChainInv' /\ CountInv' /\ ConsInv'
      BY <1>0, <1>2 DEF PopTest, TypeOK, ChainInv, CountInv, ConsInv
    <2>2. ProdInv'
      BY <1>0, <1>2 DEF PopTest, ProdInv
    <2> QED
      BY <2>1, <2>2
  <1>3. CASE PopAdvance
    <2> DEFINE n == Len(chain)
    <2>1. cons.old_head = chain[1] /\ n >= 2 /\ head' = chain[2]
      BY <1>0, <1>3 DEF PopAdvance, ConsInv, ChainInv
    <2>2. /\ chain' = Tail(chain) /\ cons' = [cons EXCEPT !.pc = "read"]
          /\ UNCHANGED <<tail, next, data, live, prod, pushed, taken>>
      BY <1>3 DEF PopAdvance
    <2>3. /\ chain' \in Seq(Nodes) /\ Len(chain') = n - 1
          /\ \A i \in 1..(n - 1) : chain'[i] = chain[i + 1]
      BY <1>0, <2>1, <2>2
    <2>4. TypeOK' /\ CountInv'
      <3>1. chain[2] \in Nodes /\ cons.pc = "advance" /\ cons'.pc = "read"
        BY <1>0, <1>3, <2>1, <2>2 DEF PopAdvance
      <3>2. Len(pushed) \in Nat /\ Len(taken) \in Nat
        BY DEF TypeOK
      <3>3. CountInv'
        BY <1>0, <2>2, <2>3, <3>1, <3>2 DEF CountInv
      <3>4. TypeOK'
        BY <1>0, <2>1, <2>2, <2>3, <3>1 DEF TypeOK
      <3> QED
        BY <3>3, <3>4
    <2>5. ChainInv'
      <3>1. Len(chain') >= 1 /\ head' = chain'[1] /\ tail' = chain'[Len(chain')]
        BY <1>0, <2>1, <2>2, <2>3 DEF ChainInv
      <3>2. \A i, j \in 1..Len(chain') : chain'[i] = chain'[j] => i = j
        <4> SUFFICES ASSUME NEW i \in 1..(n - 1), NEW j \in 1..(n - 1),
                            chain[i + 1] = chain[j + 1]
                     PROVE  i = j
          BY <2>3
        <4>1. i + 1 \in 1..n /\ j + 1 \in 1..n
          BY <1>0
        <4>2. i + 1 = j + 1
          BY <4>1 DEF ChainInv
        <4> QED
          BY <1>0, <4>2
      <3>3. \A i \in 1..Len(chain') : chain'[i] \in live'
        <4> SUFFICES ASSUME NEW i \in 1..(n - 1) PROVE chain[i + 1] \in live
          BY <2>2, <2>3
        <4> QED
          BY <1>0 DEF ChainInv
      <3>4. \A i \in 1..(Len(chain') - 1) :
              next'[chain'[i]] = chain'[i + 1] /\ data'[chain'[i]] \in Values
        <4> SUFFICES ASSUME NEW i \in 1..(n - 2)
                     PROVE  next[chain[i + 1]] = chain[i + 2] /\ data[chain[i + 1]] \in Values
          BY <1>0, <2>1, <2>2, <2>3
        <4>1. i + 1 \in 1..(n - 1) /\ (i + 1) + 1 = i + 2
          BY <1>0
        <4> QED
          BY <4>1 DEF ChainInv
      <3> QED
        BY <3>1, <3>2, <3>3, <3>4 DEF ChainInv
    <2>6. ConsInv'
      BY <1>0, <2>1, <2>2, <2>3 DEF ConsInv, ChainInv
    <2>7. ProdInv'
      <3> SUFFICES ASSUME NEW g \in Producers
                   PROVE  (/\ prod[g].pc # "idle" =>
                               /\ prod[g].p \in live /\ prod[g].value \in Values
                               /\ \A i \in 1..Len(chain) : chain[i] # prod[g].p
                               /\ cons.pc \in {"read", "delete"} => cons.old_head # prod[g].p
                           /\ prod[g].pc \in {"data", "link", "store"} => prod[g].old_tail = tail
                           /\ prod[g].pc \in {"link", "store"} => data[tail] = prod[g].value
                           /\ prod[g].pc = "store" => next[tail] = prod[g].p)'
        BY <2>2 DEF ProdInv
      <3> QED
        BY <1>0, <2>1, <2>2, <2>3 DEF ProdInv
    <2> QED
      BY <2>4, <2>5, <2>6, <2>7
  <1>4. CASE PopRead
    <2>1. data[cons.old_head] \in Values
      BY <1>4 DEF PopRead, ConsInv
    <2>2. TypeOK' /\ CountInv'
      <3>1. /\ taken' \in Seq(Values) /\ Len(taken') = Len(taken) + 1
            /\ Len(taken) \in Nat /\ Len(pushed) \in Nat
        BY <1>4, <2>1, AppendProperties DEF PopRead, TypeOK
      <3>2. cons.pc = "read" /\ cons'.pc = "delete" /\ chain' = chain /\ pushed' = pushed
        BY <1>0, <1>4 DEF PopRead
      <3>3. CountInv'
        BY <1>0, <3>1, <3>2 DEF CountInv
      <3>4. TypeOK'
        BY <1>0, <1>4, <3>1 DEF PopRead, TypeOK
      <3> QED
        BY <3>3, <3>4
    <2>3. ChainInv' /\ ConsInv'
      BY <1>0, <1>4 DEF PopRead, ChainInv, ConsInv
    <2>4. ProdInv'
      BY <1>0, <1>4 DEF PopRead, ProdInv
    <2> QED
      BY <2>2, <2>3, <2>4
  <1>5. CASE PopDelete
    <2>1. TypeOK' /\ CountInv'
      BY <1>0, <1>5 DEF PopDelete, TypeOK, CountInv
    <2>2. ChainInv'
      BY <1>0, <1>5 DEF PopDelete, ChainInv, ConsInv
    <2>3. ConsInv'
      BY <1>0, <1>5 DEF PopDelete, ConsInv
    <2>4. ProdInv'
      BY <1>0, <1>5 DEF PopDelete, ProdInv
    <2> QED
      BY <2>1, <2>2, <2>3, <2>4
  <1> QED
    BY <1>1, <1>2, <1>3, <1>4, <1>5 DEF Pop

(* IInv holds in every reachable state when one handler pushes.            *)
THEOREM Inductive ==
    ASSUME NEW h, Producers = {h}
    PROVE  Spec => []IInv
  <1>1. IInv /\ [Next]_vars => IInv'
    <2> SUFFICES ASSUME IInv, [Next]_vars PROVE IInv'
      OBVIOUS
    <2>1. CASE Push(h)
      BY <2>1, PushStep
    <2>2. CASE Pop
      BY <2>2, PopStep
    <2>3. CASE UNCHANGED vars
      BY <2>3 DEF vars, IInv, TypeOK, ChainInv, ProdInv, ConsInv, CountInv
    <2> QED
      BY <2>1, <2>2, <2>3 DEF Next
  <1> QED
    BY InitIInv, <1>1, PTL DEF Spec

-----------------------------------------------------------------------------
(* What the runs check, for every value of the constants.                  *)

(* Every variable keeps its type.                                          *)
THEOREM TypeCorrect ==
    ASSUME NEW h, Producers = {h}
    PROVE  Spec => []TypeOK
  BY Inductive, PTL DEF IInv

(* Neither push nor pop touches a freed node.                              *)
THEOREM MemorySafe ==
    ASSUME NEW h, Producers = {h}
    PROVE  Spec => []NoUseAfterFree
  <1>1. IInv => NoUseAfterFree
    <2> SUFFICES ASSUME IInv PROVE NoUseAfterFree
      OBVIOUS
    <2>1. head \in live /\ tail \in live
      BY DEF IInv, ChainInv, TypeOK
    <2> QED
      BY <2>1 DEF IInv, NoUseAfterFree, ProdInv, ConsInv
  <1> QED
    BY Inductive, <1>1, PTL

(* Once drained, everything pushed by the handler was popped.              *)
THEOREM NothingLost ==
    ASSUME NEW h, Producers = {h}
    PROVE  Spec => []NoExitLost
  <1>1. IInv => NoExitLost
    <2> SUFFICES ASSUME IInv, Drained PROVE Len(taken) = Len(pushed)
      BY DEF NoExitLost
    <2>1. Len(chain) = 1
      <3>1. Len(chain) \in Nat /\ Len(chain) >= 1
        BY DEF IInv, ChainInv, TypeOK
      <3>2. 1 \in 1..Len(chain) /\ Len(chain) \in 1..Len(chain)
        BY <3>1
      <3>3. chain[1] = chain[Len(chain)]
        BY DEF IInv, ChainInv, Drained
      <3> QED
        BY <3>2, <3>3 DEF IInv, ChainInv
    <2> QED
      BY <2>1 DEF IInv, CountInv, Drained, TypeOK
  <1> QED
    BY Inductive, <1>1, PTL

-----------------------------------------------------------------------------
(* No leak: the allocated addresses are those a reader reaches from head   *)
(* and those a running push or pop holds.                                  *)

InChain(x) == \E i \in 1..Len(chain) : chain[i] = x
HeldByPush(x) == \E h \in Producers : prod[h].pc # "idle" /\ prod[h].p = x
HeldByPop(x) == cons.pc \in {"read", "delete"} /\ cons.old_head = x

LiveIsHeld == \A x : x \in live <=> InChain(x) \/ HeldByPush(x) \/ HeldByPop(x)

(* LiveIsHeld is NoLeak, address by address.                               *)
LEMMA NoLeakByAddress == NoLeak <=> LiveIsHeld
  <1> DEFINE A == {chain[i] : i \in 1..Len(chain)}
             B == {prod[h].p : h \in {g \in Producers : prod[g].pc # "idle"}}
             C == IF cons.pc \in {"read", "delete"} THEN {cons.old_head} ELSE {}
  <1>1. \A x : x \in A <=> InChain(x)
    BY DEF InChain
  <1>2. \A x : x \in B <=> HeldByPush(x)
    BY DEF HeldByPush
  <1>3. \A x : x \in C <=> HeldByPop(x)
    BY DEF HeldByPop
  <1>4. NoLeak <=> live = A \cup B \cup C
    BY DEF NoLeak
  <1> HIDE DEF A, B, C
  <1> QED
    BY <1>1, <1>2, <1>3, <1>4 DEF LiveIsHeld

(* A push allocates the node it holds and hands it over to the chain.      *)
LEMMA PushKeepsNoLeak ==
    ASSUME NEW h, Producers = {h}, IInv, LiveIsHeld, Push(h)
    PROVE  LiveIsHeld'
  <1>0. /\ \A x : x \in live <=> InChain(x) \/ HeldByPush(x) \/ HeldByPop(x)
        /\ prod \in [Producers -> [pc : ProducerPC, value : Values \cup {NULL},
                                   p : Nodes \cup {NULL}, old_tail : Nodes \cup {NULL}]]
        /\ chain \in Seq(Nodes)
    BY DEF LiveIsHeld, IInv, TypeOK
  <1>1. SUFFICES \A x : x \in live' <=> InChain(x)' \/ HeldByPush(x)' \/ HeldByPop(x)'
    BY DEF LiveIsHeld
  <1>2. CASE PushAlloc(h)
    <2>1. PICK p \in Nodes \ live, v \in Values :
            /\ live' = live \cup {p}
            /\ prod' = [prod EXCEPT ![h] =
                          [pc |-> "load", value |-> v, p |-> p, old_tail |-> NULL]]
      BY <1>2 DEF PushAlloc
    <2>2. \A x : HeldByPush(x)' <=> x = p
      BY <1>0, <2>1 DEF HeldByPush
    <2>3. \A x : ~HeldByPush(x)
      BY <1>2 DEF PushAlloc, HeldByPush
    <2>4. \A x : (InChain(x)' <=> InChain(x)) /\ (HeldByPop(x)' <=> HeldByPop(x))
      BY <1>2 DEF PushAlloc, InChain, HeldByPop
    <2> QED
      BY <1>0, <2>1, <2>2, <2>3, <2>4
  <1>3. CASE PushLoad(h) \/ PushData(h) \/ PushLink(h)
    <2>1. /\ prod'[h].p = prod[h].p /\ prod[h].pc # "idle" /\ prod'[h].pc # "idle"
          /\ UNCHANGED <<live, chain, cons>>
      BY <1>0, <1>3 DEF PushLoad, PushData, PushLink
    <2> QED
      BY <1>0, <2>1 DEF InChain, HeldByPush, HeldByPop
  <1>4. CASE PushStore(h)
    <2>1. /\ chain' = Append(chain, prod[h].p) /\ prod[h].pc # "idle"
          /\ prod'[h].pc = "idle" /\ UNCHANGED <<live, cons>>
      BY <1>0, <1>4 DEF PushStore, IdleProducer
    <2>2. \A x : InChain(x)' <=> InChain(x) \/ x = prod[h].p
      <3>1. prod[h].p \in Nodes /\ Len(chain) \in Nat
        BY <1>0, <2>1 DEF IInv, ProdInv, TypeOK
      <3>2. /\ Len(chain') = Len(chain) + 1 /\ chain'[Len(chain) + 1] = prod[h].p
            /\ \A i \in 1..Len(chain) : chain'[i] = chain[i]
        BY <1>0, <2>1, <3>1, AppendProperties
      <3> QED
        BY <3>1, <3>2 DEF InChain
    <2>3. \A x : ~HeldByPush(x)' /\ (HeldByPush(x) <=> x = prod[h].p)
      BY <2>1 DEF HeldByPush
    <2>4. \A x : HeldByPop(x)' <=> HeldByPop(x)
      BY <2>1 DEF HeldByPop
    <2> QED
      BY <1>0, <2>1, <2>2, <2>3, <2>4
  <1> QED
    BY <1>2, <1>3, <1>4 DEF Push

(* A pop takes the first node out of the chain and holds it until it has   *)
(* deleted it; nobody else holds that node.                                *)
LEMMA PopKeepsNoLeak ==
    ASSUME IInv, LiveIsHeld, Pop
    PROVE  LiveIsHeld'
  <1>0. /\ \A x : x \in live <=> InChain(x) \/ HeldByPush(x) \/ HeldByPop(x)
        /\ cons \in [pc : ConsumerPC, old_head : Nodes \cup {NULL}]
        /\ chain \in Seq(Nodes) /\ Len(chain) \in Nat
    BY DEF LiveIsHeld, IInv, TypeOK
  <1>1. SUFFICES \A x : x \in live' <=> InChain(x)' \/ HeldByPush(x)' \/ HeldByPop(x)'
    BY DEF LiveIsHeld
  <1>2. \A x : HeldByPush(x)' <=> HeldByPush(x)
    BY DEF Pop, PopLoad, PopTest, PopAdvance, PopRead, PopDelete, HeldByPush
  <1>3. CASE PopLoad \/ PopTest \/ PopRead
    <2>1. /\ UNCHANGED <<live, chain>>
          /\ \/ cons.pc \notin {"read", "delete"} /\ cons'.pc \notin {"read", "delete"}
             \/ /\ cons.pc = "read" /\ cons'.pc = "delete"
                /\ cons'.old_head = cons.old_head
      BY <1>0, <1>3 DEF PopLoad, PopTest, PopRead
    <2> QED
      BY <1>0, <1>2, <2>1 DEF InChain, HeldByPop
  <1>4. CASE PopAdvance
    <2>1. /\ chain' = Tail(chain) /\ live' = live /\ cons.pc = "advance"
          /\ cons'.pc = "read" /\ cons'.old_head = chain[1] /\ Len(chain) >= 2
      BY <1>0, <1>4 DEF PopAdvance, IInv, ConsInv, ChainInv
    <2>2. /\ Len(chain') = Len(chain) - 1
          /\ \A i \in 1..(Len(chain) - 1) : chain'[i] = chain[i + 1]
      BY <1>0, <2>1
    <2>3. \A x : InChain(x) <=> x = chain[1] \/ InChain(x)'
      <3> SUFFICES ASSUME NEW x PROVE InChain(x) <=> x = chain[1] \/ InChain(x)'
        OBVIOUS
      <3>1. ASSUME InChain(x), x # chain[1] PROVE InChain(x)'
        <4>1. PICK i \in 1..Len(chain) : chain[i] = x
          BY <3>1 DEF InChain
        <4>2. i - 1 \in 1..(Len(chain) - 1) /\ chain'[i - 1] = chain[i]
          BY <1>0, <2>2, <3>1, <4>1
        <4> QED
          BY <2>2, <4>1, <4>2 DEF InChain
      <3>2. ASSUME InChain(x)' PROVE InChain(x)
        <4>1. PICK i \in 1..(Len(chain) - 1) : chain[i + 1] = x
          BY <2>2, <3>2 DEF InChain
        <4> QED
          BY <1>0, <4>1 DEF InChain
      <3>3. InChain(chain[1])
        BY <2>1, <1>0 DEF InChain
      <3> QED
        BY <3>1, <3>2, <3>3
    <2>4. \A x : ~HeldByPop(x) /\ (HeldByPop(x)' <=> x = chain[1])
      BY <2>1 DEF HeldByPop
    <2> QED
      BY <1>0, <1>2, <2>1, <2>3, <2>4
  <1>5. CASE PopDelete
    <2>1. /\ live' = live \ {cons.old_head} /\ chain' = chain
          /\ cons.pc = "delete" /\ cons'.pc = "idle"
      BY <1>5 DEF PopDelete
    <2>2. \A x : ~HeldByPop(x)' /\ (HeldByPop(x) <=> x = cons.old_head)
      BY <2>1 DEF HeldByPop
    <2>3. ~InChain(cons.old_head) /\ ~HeldByPush(cons.old_head)
      BY <2>1 DEF IInv, ConsInv, ProdInv, InChain, HeldByPush
    <2>4. \A x : InChain(x)' <=> InChain(x)
      BY <2>1 DEF InChain
    <2> QED
      BY <1>0, <1>2, <2>1, <2>2, <2>3, <2>4
  <1> QED
    BY <1>3, <1>4, <1>5 DEF Pop

(* Every allocated node is in the queue or in the hands of a push or a pop *)
(* that has not ended.                                                     *)
THEOREM NothingLeaks ==
    ASSUME NEW h, Producers = {h}
    PROVE  Spec => []NoLeak
  <1>1. Init => LiveIsHeld
    <2> SUFFICES ASSUME Init
                 PROVE  \A x : x \in live <=> InChain(x) \/ HeldByPush(x) \/ HeldByPop(x)
      BY DEF LiveIsHeld
    <2>1. live = {head} /\ Len(chain) = 1 /\ chain[1] = head /\ cons.pc = "idle"
      BY DEF Init
    <2>2. \A x : ~HeldByPush(x)
      BY DEF Init, HeldByPush, IdleProducer
    <2> QED
      BY <2>1, <2>2 DEF InChain, HeldByPop
  <1>2. IInv /\ LiveIsHeld /\ [Next]_vars => LiveIsHeld'
    <2> SUFFICES ASSUME IInv, LiveIsHeld, [Next]_vars PROVE LiveIsHeld'
      OBVIOUS
    <2>1. CASE Push(h)
      BY <2>1, PushKeepsNoLeak
    <2>2. CASE Pop
      BY <2>2, PopKeepsNoLeak
    <2>3. CASE UNCHANGED vars
      BY <2>3 DEF vars, LiveIsHeld, InChain, HeldByPush, HeldByPop
    <2> QED
      BY <2>1, <2>2, <2>3 DEF Next
  <1> QED
    BY Inductive, NoLeakByAddress, <1>1, <1>2, PTL DEF Spec

-----------------------------------------------------------------------------
(* The refinement.                                                         *)

(* The values before the last node of a chain form a sequence.             *)
LEMMA ChainValues ==
    ASSUME NEW c \in Seq(Nodes), NEW d, Len(c) >= 1,
           \A i \in 1..(Len(c) - 1) : d[c[i]] \in Values
    PROVE  /\ [i \in 1..(Len(c) - 1) |-> d[c[i]]] \in Seq(Values)
           /\ Len([i \in 1..(Len(c) - 1) |-> d[c[i]]]) = Len(c) - 1
  <1>1. Len(c) - 1 \in Nat
    OBVIOUS
  <1> QED
    BY <1>1

(* Each step of LockFreeQueue is a step of FifoQueue or changes nothing    *)
(* there: push takes effect when tail is stored, pop when head is.         *)
LEMMA StepRefines ==
    ASSUME NEW h, Producers = {h}, IInv, IInv', [Next]_vars
    PROVE  [Fifo!Next]_<<AbstractQueue, AbstractTaken>>
  <1> DEFINE n == Len(chain)
  <1>0. /\ chain \in Seq(Nodes) /\ n \in Nat /\ n >= 1
        /\ \A i \in 1..n : chain[i] \in Nodes
        /\ AbstractQueue \in Seq(Values) /\ Len(AbstractQueue) = n - 1
        /\ \A i \in 1..(n - 1) : AbstractQueue[i] = data[chain[i]]
        /\ AbstractQueue' \in Seq(Values)
        /\ Len(AbstractQueue') = Len(chain') - 1
        /\ \A i \in 1..(Len(chain') - 1) : AbstractQueue'[i] = data'[chain'[i]]
    <2>1. /\ chain \in Seq(Nodes) /\ n \in Nat /\ n >= 1
          /\ chain' \in Seq(Nodes) /\ Len(chain') \in Nat /\ Len(chain') >= 1
      BY DEF IInv, ChainInv, TypeOK
    <2>2. /\ \A i \in 1..(n - 1) : data[chain[i]] \in Values
          /\ \A i \in 1..(Len(chain') - 1) : data'[chain'[i]] \in Values
      BY DEF IInv, ChainInv
    <2>3. AbstractQueue \in Seq(Values) /\ Len(AbstractQueue) = n - 1
      BY <2>1, <2>2, ChainValues DEF AbstractQueue
    <2>4. AbstractQueue' \in Seq(Values) /\ Len(AbstractQueue') = Len(chain') - 1
      BY <2>1, <2>2, ChainValues DEF AbstractQueue
    <2>5. \A i \in 1..(n - 1) : AbstractQueue[i] = data[chain[i]]
      BY DEF AbstractQueue
    <2>6. \A i \in 1..(Len(chain') - 1) : AbstractQueue'[i] = data'[chain'[i]]
      BY DEF AbstractQueue
    <2>7. \A i \in 1..n : chain[i] \in Nodes
      BY <2>1
    <2> QED
      BY <2>1, <2>3, <2>4, <2>5, <2>6, <2>7
  <1>1. CASE PushAlloc(h) \/ PushData(h)
    <2>1. chain' = chain /\ cons' = cons /\ taken' = taken
      BY <1>1 DEF PushAlloc, PushData
    <2>2. \A i \in 1..(n - 1) : data'[chain[i]] = data[chain[i]]
      BY <1>0, <1>1 DEF PushAlloc, PushData, IInv, ChainInv, ProdInv, TypeOK
    <2>3. cons.pc = "read" => data'[cons.old_head] = data[cons.old_head]
      BY <1>0, <1>1 DEF PushAlloc, PushData, IInv, ChainInv, ProdInv, ConsInv, TypeOK
    <2>4. AbstractQueue' = AbstractQueue
      BY <2>1, <2>2 DEF AbstractQueue
    <2>5. AbstractTaken' = AbstractTaken
      BY <2>1, <2>3 DEF AbstractTaken
    <2> QED
      BY <2>4, <2>5
  <1>2. CASE PushLoad(h) \/ PushLink(h) \/ PopLoad \/ PopTest \/ PopDelete
    <2>1. chain' = chain /\ data' = data /\ taken' = taken
      BY <1>2 DEF PushLoad, PushLink, PopLoad, PopTest, PopDelete
    <2>2. cons' = cons \/ (cons.pc # "read" /\ cons'.pc # "read")
      BY <1>2 DEF PushLoad, PushLink, PopLoad, PopTest, PopDelete, IInv, TypeOK
    <2> QED
      BY <2>1, <2>2 DEF AbstractQueue, AbstractTaken
  <1>3. CASE PushStore(h)
    <2>1. /\ chain' = Append(chain, prod[h].p) /\ data' = data
          /\ taken' = taken /\ cons' = cons
          /\ prod[h].value \in Values /\ data[chain[n]] = prod[h].value
      BY <1>3 DEF PushStore, IInv, ProdInv, ChainInv
    <2>2. Len(chain') = n + 1 /\ \A i \in 1..n : chain'[i] = chain[i]
      BY <1>0, <2>1
    <2>3. AbstractQueue' = Append(AbstractQueue, prod[h].value)
      <3>1. /\ Append(AbstractQueue, prod[h].value) \in Seq(Values)
            /\ Len(Append(AbstractQueue, prod[h].value)) = n
            /\ \A i \in 1..(n - 1) :
                  Append(AbstractQueue, prod[h].value)[i] = AbstractQueue[i]
            /\ Append(AbstractQueue, prod[h].value)[n] = prod[h].value
        BY <1>0, <2>1
      <3>2. \A i \in 1..n : AbstractQueue'[i] = Append(AbstractQueue, prod[h].value)[i]
        BY <1>0, <2>1, <2>2, <3>1
      <3> QED
        BY <1>0, <2>2, <3>1, <3>2, SeqEqual
    <2>4. AbstractTaken' = AbstractTaken
      BY <2>1 DEF AbstractTaken
    <2> QED
      BY <2>1, <2>3, <2>4 DEF Fifo!Next, Fifo!Push
  <1>4. CASE PopAdvance
    <2>1. /\ chain' = Tail(chain) /\ data' = data /\ taken' = taken
          /\ cons.pc = "advance" /\ cons' = [cons EXCEPT !.pc = "read"]
          /\ cons.old_head = chain[1] /\ n >= 2
      BY <1>0, <1>4 DEF PopAdvance, IInv, ConsInv, ChainInv
    <2>2. Len(chain') = n - 1 /\ \A i \in 1..(n - 1) : chain'[i] = chain[i + 1]
      BY <1>0, <2>1
    <2>3. AbstractQueue # <<>> /\ Head(AbstractQueue) = data[chain[1]]
      <3>1. Len(AbstractQueue) >= 1 /\ AbstractQueue[1] = data[chain[1]]
        BY <1>0, <2>1
      <3> QED
        BY <3>1
    <2>4. AbstractQueue' = Tail(AbstractQueue)
      <3>1. /\ Tail(AbstractQueue) \in Seq(Values)
            /\ Len(Tail(AbstractQueue)) = n - 2
            /\ \A i \in 1..(n - 2) : Tail(AbstractQueue)[i] = AbstractQueue[i + 1]
        BY <1>0, <2>1, <2>3
      <3>2. \A i \in 1..(n - 2) : AbstractQueue'[i] = Tail(AbstractQueue)[i]
        BY <1>0, <2>1, <2>2, <3>1
      <3>3. Len(AbstractQueue') = n - 2
        BY <1>0, <2>2
      <3> QED
        BY <1>0, <3>1, <3>2, <3>3, SeqEqual
    <2>5. AbstractTaken = taken /\ AbstractTaken' = Append(taken, data[chain[1]])
      BY <2>1 DEF AbstractTaken, IInv, TypeOK
    <2> QED
      BY <2>3, <2>4, <2>5 DEF Fifo!Next, Fifo!Pop
  <1>5. CASE PopRead
    <2>1. chain' = chain /\ data' = data /\ cons.pc = "read" /\ cons'.pc = "delete"
          /\ taken' = Append(taken, data[cons.old_head])
      BY <1>5 DEF PopRead, IInv, TypeOK
    <2> QED
      BY <2>1 DEF AbstractQueue, AbstractTaken
  <1>6. CASE UNCHANGED vars
    BY <1>6 DEF vars, AbstractQueue, AbstractTaken
  <1> QED
    BY <1>1, <1>2, <1>3, <1>4, <1>5, <1>6 DEF Next, Push, Pop

(* With one producer LockFreeQueue implements the FIFO queue.              *)
THEOREM Refinement ==
    ASSUME NEW h, Producers = {h}
    PROVE  Spec => ImplementsFifo
  <1>1. Init => Fifo!Init
    BY DEF Init, Fifo!Init, AbstractQueue, AbstractTaken
  <1>2. IInv /\ IInv' /\ [Next]_vars => [Fifo!Next]_<<AbstractQueue, AbstractTaken>>
    BY StepRefines
  <1> QED
    BY Inductive, <1>1, <1>2, PTL DEF Spec, ImplementsFifo, Fifo!Spec
=============================================================================
