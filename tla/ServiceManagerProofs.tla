------------------------ MODULE ServiceManagerProofs ------------------------
(***************************************************************************)
(* TLAPS proofs about ServiceManager, for every set of services, pods and  *)
(* workers: the service layer forgets no service that lacks pods, none     *)
(* that is to be deleted, and no pod it has had created.                   *)
(***************************************************************************)
EXTENDS ServiceManager, ManagerProofs

-----------------------------------------------------------------------------
(* The inductive invariant of the service layer.                           *)

OpType == [do : {"none", "create", "restart", "delete", "reap"}, at : {"call", "ret"},
           tok : Tokens \cup {NULL}, i : Nat, size : Nat, made : Seq(Aliases)]

\* STypeOK without Manager's part and with what is a function said to be one.
STypeInv ==
    /\ op \in OpType
    /\ op.do # "none" => op.tok \in Tokens
    /\ services \subseteq Tokens /\ st \in [Tokens -> {"prepare", "ready", "hung", "close"}]
    /\ group \in [Tokens -> Seq(Aliases)]
    /\ startList \in Seq(services) /\ endList \in Seq(services)
    /\ deleting \subseteq services /\ reused \subseteq Tokens

\* The pods of service t are being stopped.
StoppingPodsOf(t) == op.do \in {"delete", "reap"} /\ op.tok = t

NameOf(t, a) == \E i \in DOMAIN PodName[t] : PodName[t][i] = a

\* The locals of the operation under way: its loop is within its bounds and
\* its service is still the one at the front of the list it was taken from.
OpInv ==
    /\ op.do = "create" =>
          /\ op.tok \in services => op.tok \in reused
          /\ \A a \in ToSet(op.made) : NameOf(op.tok, a)
          /\ op.at = "ret" => op.i < Num[op.tok]
    /\ op.do = "restart" =>
          /\ startList # <<>> /\ op.tok = Head(startList)
          /\ op.at = "ret" => Len(group[op.tok]) < Num[op.tok]
    /\ op.do = "reap" => endList # <<>> /\ op.tok = Head(endList)
    /\ op.do = "delete" => op.tok \in services
    /\ op.do \in {"delete", "reap"} => op.i >= 1
    /\ op.do \in {"delete", "reap"} /\ op.at = "ret" => op.i <= Len(group[op.tok])

\* A service has a pod, and one that counts as ready has them all.
GroupInv ==
    \A t \in services : ~StoppingPodsOf(t) =>
        /\ group[t] # <<>>
        /\ st[t] = "ready" => Len(group[t]) >= Num[t]

\* IncompleteIsQueued and DeletingIsQueued while an operation is under way:
\* deleteService queues its service at its end only.
QueuedInv ==
    /\ \A t \in services : Len(group[t]) < Num[t] =>
          t \in ToSet(startList) \cup ToSet(endList) \/ (op.do = "delete" /\ op.tok = t)
    /\ \A t \in deleting : t \in ToSet(endList) \/ (op.do = "delete" /\ op.tok = t)

\* PodsAreOwned while an operation is under way: a pod just created is in no
\* group yet.
OwnedBy(a, t) ==
    \/ t \in services /\ a \in ToSet(group[t])
    \/ t \in reused /\ NameOf(t, a)
UnderWay(a) ==
    \/ op.do = "create" /\ a \in ToSet(op.made)
    \/ op.do = "create" /\ op.at = "ret" /\ a = PodName[op.tok][op.i]
    \/ op.do = "restart" /\ op.at = "ret" /\ a = PodName[op.tok][Len(group[op.tok]) - 1]
OwnedInv == \A a \in pods : UnderWay(a) \/ \E t \in Tokens : OwnedBy(a, t)

SInv == STypeInv /\ OpInv /\ GroupInv /\ QueuedInv /\ OwnedInv

-----------------------------------------------------------------------------
(* The loop of removeService.                                              *)

\* What is left of a list of which n entries have been looked at.
LeftOf(list, t, left, n) ==
    IF n = 0 THEN <<>>
    ELSE IF list[n] = t THEN left[n - 1] ELSE Append(left[n - 1], list[n])

\* The loop computes something: the recursive function exists.  A shortest
\* list without one could be extended from the list one shorter.
LEMMA LeftExists ==
    ASSUME NEW list, NEW t, NEW m \in Nat
    PROVE  \E left : left = [n \in 0..m |-> LeftOf(list, t, left, n)]
<1> DEFINE Bad == {k \in Nat : ~\E left : left = [n \in 0..k |-> LeftOf(list, t, left, n)]}
<1>1. CASE Bad # {}
  <2>1. PICK k \in Bad : \A y \in Bad : k <= y
    <3>1. Bad \subseteq Nat OBVIOUS
    <3> HIDE DEF Bad
    <3> QED BY <1>1, <3>1, MinOfNaturals
  <2>2. CASE k = 0
    <3> DEFINE g == [n \in 0..0 |-> <<>>]
    <3>1. g = [n \in 0..k |-> LeftOf(list, t, g, n)]
      BY <2>2 DEF LeftOf
    <3> QED BY <3>1
  <2>3. CASE k # 0
    <3>1. k - 1 \in Nat /\ k - 1 < k /\ k \in Nat BY <2>3
    <3>2. PICK g : g = [n \in 0..(k - 1) |-> LeftOf(list, t, g, n)]
      <4>1. k - 1 \notin Bad
        BY <2>1, <3>1
      <4> QED BY <3>1, <4>1
    <3> DEFINE h == [n \in 0..k |-> IF n = k THEN LeftOf(list, t, g, k) ELSE g[n]]
    <3>3. ASSUME NEW n \in 0..k PROVE h[n] = LeftOf(list, t, h, n)
      <4>1. CASE n = 0
        BY <3>1, <3>2, <4>1 DEF LeftOf
      <4>2. CASE n # 0
        <5>1. n - 1 \in 0..k /\ n - 1 # k /\ h[n - 1] = g[n - 1] BY <3>1, <4>2
        <5>2. LeftOf(list, t, h, n) = LeftOf(list, t, g, n) BY <5>1 DEF LeftOf
        <5>3. CASE n = k BY <5>2, <5>3
        <5>4. CASE n # k
          <6>1. n \in 0..(k - 1) BY <3>1, <5>4
          <6>2. g[n] = LeftOf(list, t, g, n) BY <3>2, <6>1
          <6> QED BY <5>2, <5>4, <6>2
        <5> QED BY <5>3, <5>4
      <4> QED BY <4>1, <4>2
    <3>4. h = [n \in 0..k |-> LeftOf(list, t, h, n)]
      BY <3>3, Zenon
    <3> QED BY <3>4
  <2> QED BY <2>2, <2>3
<1>2. CASE Bad = {}
  <2>1. m \notin Bad BY <1>2
  <2> QED BY <2>1
<1> QED BY <1>1, <1>2

\* removeService takes the entries of its service off a list, and no other.
LEMMA EraseFacts ==
    ASSUME NEW S, NEW list \in Seq(S), NEW t
    PROVE  /\ EraseService(list, t) \in Seq(S)
           /\ ToSet(EraseService(list, t)) = ToSet(list) \ {t}
<1> DEFINE left == CHOOSE f : f = [n \in 0..Len(list) |-> LeftOf(list, t, f, n)]
<1>1. Len(list) \in Nat /\ \A i \in 1..Len(list) : list[i] \in S
  BY LenProperties, ElementOfSeq
<1>2. EraseService(list, t) = left[Len(list)]
  BY Zenon DEF EraseService, LeftOf
<1>3. left = [n \in 0..Len(list) |-> LeftOf(list, t, left, n)]
  BY <1>1, LeftExists, Zenon
<1> HIDE DEF left
<1> DEFINE Good(n) == /\ left[n] \in Seq(S)
                      /\ \A x : x \in ToSet(left[n])
                                   <=> x # t /\ \E i \in 1..n : list[i] = x
           Bad == {n \in 0..Len(list) : ~Good(n)}
<1>4. CASE Bad # {}
  <2>1. PICK n \in Bad : \A y \in Bad : n <= y
    <3>1. Bad \subseteq Nat BY <1>1
    <3> HIDE DEF Bad
    <3> QED BY <1>4, <3>1, MinOfNaturals
  <2>2. n \in 0..Len(list) /\ ~Good(n) OBVIOUS
  <2>3. left[n] = LeftOf(list, t, left, n) BY <1>3, <2>2
  <2>4. CASE n = 0
    <3>1. left[n] = <<>> BY <2>3, <2>4 DEF LeftOf
    <3>2. Good(n) BY <2>4, <3>1, EmptySeq, ElementsOfEmpty
    <3> QED BY <2>2, <3>2
  <2>5. CASE n # 0
    <3> DEFINE p == n - 1
    <3>1. p \in 0..Len(list) /\ p < n /\ n \in 1..Len(list) BY <1>1, <2>2, <2>5
    <3>2. \A i : i \in 1..n <=> i \in 1..p \/ i = n BY <1>1, <3>1
    <3>3. /\ left[n] = IF list[n] = t THEN left[p] ELSE Append(left[p], list[n])
          /\ list[n] \in S
      BY <1>1, <2>3, <2>5, <3>1 DEF LeftOf
    <3> HIDE DEF p
    <3>4. Good(p)
      <4>1. p \notin Bad
        <5> HIDE DEF Bad
        <5> QED BY <1>1, <2>1, <2>2, <3>1
      <4> QED BY <3>1, <4>1
    <3>5. CASE list[n] = t
      <4>1. left[n] = left[p] BY <3>3, <3>5
      <4>2. Good(n) BY <3>2, <3>4, <3>5, <4>1
      <4> QED BY <2>2, <4>2
    <3>6. CASE list[n] # t
      <4>1. left[n] = Append(left[p], list[n]) BY <3>3, <3>6
      <4>2. left[n] \in Seq(S) /\ ToSet(left[n]) = ToSet(left[p]) \cup {list[n]}
        BY <3>3, <3>4, <4>1, ElementsOfAppend
      <4>3. Good(n) BY <3>2, <3>4, <3>6, <4>2
      <4> QED BY <2>2, <4>3
    <3> QED BY <3>5, <3>6
  <2> QED BY <2>4, <2>5
<1>5. CASE Bad = {}
  <2>1. Good(Len(list))
    <3> HIDE DEF Good
    <3>1. Len(list) \in 0..Len(list) BY <1>1
    <3>2. Len(list) \notin Bad
      <4> HIDE DEF Bad
      <4> QED BY <1>5
    <3> QED BY <3>1, <3>2
  <2>2. \A x : x \in ToSet(list) <=> \E i \in 1..Len(list) : list[i] = x
    BY ElementsOf
  <2> QED BY <1>2, <2>1, <2>2
<1> QED BY <1>4, <1>5

\* An operation that goes on to its next pod is still well typed.
LEMMA NextPodType ==
    ASSUME op \in OpType, NEW made \in Seq(Aliases),
           op' = [op EXCEPT !.at = "call", !.i = op.i + 1, !.made = made]
    PROVE  /\ op' \in OpType /\ op'.do = op.do /\ op'.tok = op.tok /\ op'.at = "call"
           /\ op'.i = op.i + 1 /\ op'.size = op.size /\ op'.made = made
<1>1. op' = [do |-> op.do, at |-> "call", tok |-> op.tok, i |-> op.i + 1,
             size |-> op.size, made |-> made]
  BY DEF OpType
<1>2. /\ op.do \in {"none", "create", "restart", "delete", "reap"}
      /\ op.tok \in Tokens \cup {NULL} /\ op.size \in Nat /\ op.i \in Nat
  BY DEF OpType
<1> QED BY <1>1, <1>2 DEF OpType

-----------------------------------------------------------------------------
(* Manager under the service layer.                                        *)

\* Manager's invariant outlives a step that leaves Manager alone or crashes.
LEMMA ManagerAlone ==
    ASSUME MInv, UNCHANGED <<call, mgr, env, faults, hist>>,
           status' = status \/ status' = "crashed"
    PROVE  MInv'
<1> USE DEF MInv, mgr, env, hist
<1>1. TypeInv' BY DEF TypeInv
<1>2. BoundInv' /\ LostIsQueued' BY DEF BoundInv, LostIsQueued
<1>3. CallInv' /\ AliveInv' BY DEF CallInv, AliveInv
<1> QED BY <1>1, <1>2, <1>3

\* No answer and no functor puts a pod into the map.
LEMMA ManagerAddsNoPod ==
    ASSUME Answer \/ Functor
    PROVE  pods' \subseteq pods /\ UNCHANGED requests
<1>1. CASE Answer
  BY <1>1 DEF Answer, RpcBlocks, ForkedByCreate, ForkedBySelect, ForkedByRestart,
              ForkedByTransfer, ForkSucceeds, ForkManagerDown, ForkFails, Erase, StopSucceeds,
              StopManagerDown, Stopped, StopFails, OldShut, OldShutManagerDown, mgr
<1>2. CASE Functor
  BY <1>2 DEF Functor, CheckPodsOnAllWorker, TransferDownPod, Tick, CheckDone, Reconnect,
              CheckBroken, CheckExpired, CheckAnswered, CheckReported, CheckExit,
              ScanEnd, ScanDangling, ScanRestart, ScanTransfer, mgr
<1> QED BY <1>1, <1>2

\* Manager's steps leave the service layer's invariant alone.
LEMMA ManagerStepKeeps ==
    ASSUME SInv, UNCHANGED svc, pods' \subseteq pods
    PROVE  SInv'
<1> USE DEF SInv, svc, map
<1>1. STypeInv' BY DEF STypeInv
<1>2. OpInv' BY DEF OpInv, NameOf
<1>3. GroupInv' /\ QueuedInv' BY DEF GroupInv, QueuedInv, StoppingPodsOf
<1>4. OwnedInv' BY DEF OwnedInv, OwnedBy, UnderWay, NameOf
<1> QED BY <1>1, <1>2, <1>3, <1>4

-----------------------------------------------------------------------------
(* createService.                                                          *)

\* The names of a service's pods are aliases.
LEMMA NamesAreAliases ==
    ASSUME NEW t \in Tokens
    PROVE  /\ Num[t] \in Nat /\ Num[t] >= 1
           /\ DOMAIN PodName[t] = 0..(Num[t] - 1)
           /\ \A i \in 0..(Num[t] - 1) : PodName[t][i] \in Aliases
BY NumAssumption, PodNameAssumption

\* A new operation finds every service queued that must be.
LEMMA CreateServiceKeeps ==
    ASSUME SInv, NEW t \in Tokens, CreateService(t)
    PROVE  SInv'
<1> USE DEF SInv, CreateService, map, mgr
<1>1. op.do = "none" BY DEF Quiet, None, Op
<1>2. /\ op' \in OpType /\ op'.do = "create" /\ op'.at = "call" /\ op'.tok = t
      /\ op'.made = <<>>
  BY EmptySeq DEF Op, OpType
<1>3. STypeInv' BY <1>2 DEF STypeInv
<1>4. OpInv' BY <1>2, ElementsOfEmpty DEF OpInv
<1>5. GroupInv' BY <1>1, <1>2 DEF GroupInv, StoppingPodsOf
<1>6. QueuedInv' BY <1>1, <1>2 DEF QueuedInv
<1>7. OwnedInv' BY <1>1 DEF OwnedInv, OwnedBy, UnderWay, NameOf
<1> QED BY <1>3, <1>4, <1>5, <1>6, <1>7

\* The pod that is being created is under way.
LEMMA CreateCallKeeps ==
    ASSUME SInv, CreateCall
    PROVE  SInv'
<1> USE DEF SInv
<1>0. /\ At({"create"}, "call") /\ op.i < Num[op.tok]
      /\ SelectWorkerToCreatePod(PodName[op.tok][op.i])
      /\ op' = [op EXCEPT !.at = "ret"]
      /\ UNCHANGED <<services, group, st, startList, endList, deleting, reused>>
  BY DEF CreateCall, Tok, map
<1>1. op.do = "create" /\ op.at = "call" /\ op.tok \in Tokens /\ op \in OpType
  BY <1>0 DEF At, STypeInv
<1>2. /\ op' \in OpType /\ op'.do = "create" /\ op'.at = "ret" /\ op'.tok = op.tok
      /\ op'.made = op.made /\ op'.i = op.i
  BY <1>0, <1>1 DEF OpType
<1>3. pods' \subseteq pods \cup {PodName[op.tok][op.i]}
  <2>1. ASSUME NEW a, SelectWorkerToCreatePod(a) PROVE pods' \subseteq pods \cup {a}
    BY <2>1 DEF SelectWorkerToCreatePod
  <2> QED BY <1>0, <2>1
<1>4. STypeInv' BY <1>0, <1>1, <1>2 DEF STypeInv
<1>5. OpInv' BY <1>0, <1>1, <1>2 DEF OpInv, NameOf
<1>6. GroupInv' BY <1>0, <1>1, <1>2 DEF GroupInv, StoppingPodsOf
<1>7. QueuedInv' BY <1>0, <1>1, <1>2 DEF QueuedInv
<1>8. OwnedInv' BY <1>0, <1>1, <1>2, <1>3 DEF OwnedInv, OwnedBy, UnderWay, NameOf
<1> QED BY <1>4, <1>5, <1>6, <1>7, <1>8

\* A pod that was created is in the local group, one that was not is gone.
LEMMA CreateReturnKeeps ==
    ASSUME SInv, CreateReturn
    PROVE  SInv'
<1> USE DEF SInv, map, StillManager, mgr
<1> DEFINE pod == PodName[op.tok][op.i]
<1>0. /\ op' = [op EXCEPT !.at = "call", !.i = @ + 1,
                          !.made = IF pod \in pods THEN Append(@, pod) ELSE @]
      /\ UNCHANGED <<services, group, st, startList, endList, deleting, reused, pods>>
  BY DEF CreateReturn, Tok
<1>1. /\ op.do = "create" /\ op.at = "ret" /\ op.tok \in Tokens /\ op.i < Num[op.tok]
      /\ op \in OpType /\ op.i \in Nat /\ op.made \in Seq(Aliases)
  BY DEF CreateReturn, At, STypeInv, OpInv, OpType
<1>2. NameOf(op.tok, pod) /\ pod \in Aliases
  BY <1>1, NamesAreAliases DEF NameOf
<1> HIDE DEF pod
<1>3. /\ op'.do = "create" /\ op'.at = "call" /\ op'.tok = op.tok
      /\ op'.made = IF pod \in pods THEN Append(op.made, pod) ELSE op.made
  BY <1>0, <1>1 DEF OpType
<1>4. /\ Append(op.made, pod) \in Seq(Aliases)
      /\ ToSet(Append(op.made, pod)) = ToSet(op.made) \cup {pod}
  BY <1>1, <1>2, ElementsOfAppend
<1>5. op' \in OpType
  <2> DEFINE made == IF pod \in pods THEN Append(op.made, pod) ELSE op.made
  <2>1. made \in Seq(Aliases)
    BY <1>1, <1>4
  <2>2. op' = [op EXCEPT !.at = "call", !.i = op.i + 1, !.made = made]
    BY <1>0
  <2> HIDE DEF made
  <2> QED BY <1>1, <2>1, <2>2, NextPodType
<1>6. /\ ToSet(op'.made) \subseteq ToSet(op.made) \cup {pod}
      /\ ToSet(op.made) \subseteq ToSet(op'.made)
      /\ pod \in pods => pod \in ToSet(op'.made)
  BY <1>3, <1>4
<1>7. STypeInv' BY <1>0, <1>1, <1>3, <1>5 DEF STypeInv
<1>8. OpInv' BY <1>0, <1>1, <1>2, <1>3, <1>6 DEF OpInv, NameOf
<1>9. GroupInv' BY <1>0, <1>1, <1>3 DEF GroupInv, StoppingPodsOf
<1>10. QueuedInv' BY <1>0, <1>1, <1>3 DEF QueuedInv
<1>11. OwnedInv'
  <2> SUFFICES ASSUME NEW a \in pods
               PROVE  UnderWay(a)' \/ \E t \in Tokens : OwnedBy(a, t)'
    BY <1>0 DEF OwnedInv
  <2>1. CASE UnderWay(a) BY <1>1, <1>3, <1>6, <2>1 DEF UnderWay, pod
  <2>2. ASSUME NEW t \in Tokens, OwnedBy(a, t) PROVE OwnedBy(a, t)'
    BY <1>0, <2>2 DEF OwnedBy, NameOf
  <2> QED BY <2>1, <2>2 DEF OwnedInv
<1> QED BY <1>7, <1>8, <1>9, <1>10, <1>11

\* A service that lacks pods is queued as it enters the map.
LEMMA CreateEndKeeps ==
    ASSUME SInv, CreateEnd
    PROVE  SInv'
<1> USE DEF SInv
<1>0. /\ At({"create"}, "call") /\ op' = None
      /\ UNCHANGED <<pods, endList, deleting, reused>>
  BY DEF CreateEnd, map, StillManager, mgr
<1>1. /\ op.do = "create" /\ op.at = "call" /\ op.tok \in Tokens /\ op \in OpType
      /\ op.made \in Seq(Aliases) /\ Len(op.made) \in Nat
      /\ Num[op.tok] \in Nat
  BY <1>0, LenProperties, NamesAreAliases DEF At, STypeInv, OpType
<1>2. op'.do = "none" /\ op' \in OpType
  BY <1>0, EmptySeq DEF None, Op, OpType
<1>3. CASE op.made = <<>>
  <2>1. UNCHANGED <<services, group, st, startList>>
    BY <1>3 DEF CreateEnd, map
  <2>2. STypeInv' BY <1>0, <1>2, <2>1 DEF STypeInv
  <2>3. OpInv' BY <1>2 DEF OpInv
  <2>4. GroupInv' BY <1>0, <1>1, <1>2, <2>1 DEF GroupInv, StoppingPodsOf
  <2>5. QueuedInv' BY <1>0, <1>1, <1>2, <2>1 DEF QueuedInv
  <2>6. OwnedInv'
    BY <1>0, <1>1, <1>3, <2>1, ElementsOfEmpty DEF OwnedInv, OwnedBy, UnderWay, NameOf
  <2> QED BY <2>2, <2>3, <2>4, <2>5, <2>6
<1>4. CASE op.made # <<>>
  <2>1. /\ services' = services \cup {op.tok}
        /\ startList' = IF Len(op.made) < Num[op.tok] THEN Append(startList, op.tok)
                                                      ELSE startList
    BY <1>4 DEF CreateEnd, Tok
  <2>2. /\ startList \in Seq(services') /\ endList \in Seq(services')
        /\ Append(startList, op.tok) \in Seq(services')
        /\ ToSet(Append(startList, op.tok)) = ToSet(startList) \cup {op.tok}
    <3>1. startList \in Seq(services') /\ endList \in Seq(services') /\ op.tok \in services'
      BY <2>1, SeqMonotonic DEF STypeInv
    <3> QED BY <3>1, ElementsOfAppend
  <2>3. /\ startList' \in Seq(services') /\ ToSet(startList) \subseteq ToSet(startList')
        /\ Len(op.made) < Num[op.tok] => op.tok \in ToSet(startList')
    BY <2>1, <2>2
  <2>4. OpInv' BY <1>2 DEF OpInv
  <2>5. CASE op.tok \in services
    <3>1. UNCHANGED <<group, st>> /\ services' = services
      BY <1>4, <2>1, <2>5 DEF CreateEnd, Tok
    <3>2. STypeInv' BY <1>0, <1>2, <2>3, <3>1 DEF STypeInv
    <3>3. GroupInv' BY <1>0, <1>1, <1>2, <3>1 DEF GroupInv, StoppingPodsOf
    <3>4. QueuedInv' BY <1>0, <1>1, <1>2, <2>3, <3>1 DEF QueuedInv
    <3>5. OwnedInv'
      <4> SUFFICES ASSUME NEW a \in pods PROVE \E t \in Tokens : OwnedBy(a, t)'
        BY <1>0 DEF OwnedInv
      <4>1. CASE UnderWay(a)
        <5>1. op.tok \in reused /\ NameOf(op.tok, a)
          BY <1>1, <2>5, <4>1 DEF OpInv, UnderWay
        <5> QED BY <1>0, <1>1, <5>1 DEF OwnedBy, NameOf
      <4>2. ASSUME NEW t \in Tokens, OwnedBy(a, t) PROVE OwnedBy(a, t)'
        BY <1>0, <3>1, <4>2 DEF OwnedBy, NameOf
      <4> QED BY <4>1, <4>2 DEF OwnedInv
    <3> QED BY <2>4, <3>2, <3>3, <3>4, <3>5
  <2>6. CASE op.tok \notin services
    <3>1. /\ group' = [group EXCEPT ![op.tok] = op.made]
          /\ st' = [st EXCEPT ![op.tok] = IF Len(op.made) = Num[op.tok] THEN "ready"
                                                                       ELSE "prepare"]
      BY <1>4, <2>6 DEF CreateEnd, Tok
    <3>2. STypeInv' BY <1>0, <1>1, <1>2, <2>1, <2>2, <2>3, <3>1 DEF STypeInv
    <3>3. GroupInv'
      BY <1>0, <1>1, <1>2, <1>4, <2>1, <3>1 DEF GroupInv, StoppingPodsOf, STypeInv
    <3>4. QueuedInv' BY <1>0, <1>1, <1>2, <2>1, <2>3, <3>1 DEF QueuedInv, STypeInv
    <3>5. OwnedInv'
      <4> SUFFICES ASSUME NEW a \in pods PROVE \E t \in Tokens : OwnedBy(a, t)'
        BY <1>0 DEF OwnedInv
      <4>1. CASE UnderWay(a)
        <5>1. a \in ToSet(op.made) BY <1>1, <4>1 DEF UnderWay
        <5> QED BY <1>1, <2>1, <3>1, <5>1 DEF OwnedBy, STypeInv
      <4>2. ASSUME NEW t \in Tokens, OwnedBy(a, t) PROVE OwnedBy(a, t)'
        BY <1>0, <2>1, <2>6, <3>1, <4>2 DEF OwnedBy, NameOf, STypeInv
      <4> QED BY <4>1, <4>2 DEF OwnedInv
    <3> QED BY <2>4, <3>2, <3>3, <3>4, <3>5
  <2> QED BY <2>5, <2>6
<1> QED BY <1>3, <1>4

-----------------------------------------------------------------------------
(* deleteService and shutdownFailedPod.                                    *)

\* The service to be deleted is the one under way.
LEMMA DeleteServiceKeeps ==
    ASSUME SInv, NEW t \in Tokens, DeleteService(t)
    PROVE  SInv'
<1> USE DEF SInv
<1>0. /\ op = None /\ t \in services /\ op' = Op("delete", t, 1)
      /\ deleting' = deleting \cup {t}
      /\ UNCHANGED <<services, group, st, startList, endList, reused, pods>>
  BY DEF DeleteService, Quiet, map, mgr
<1>1. op.do = "none" BY <1>0 DEF None, Op
<1>2. /\ op' \in OpType /\ op'.do = "delete" /\ op'.at = "call" /\ op'.tok = t /\ op'.i = 1
  BY <1>0, EmptySeq DEF Op, OpType
<1>3. STypeInv' BY <1>0, <1>2 DEF STypeInv
<1>4. OpInv' BY <1>0, <1>2 DEF OpInv
<1>5. GroupInv' BY <1>0, <1>1, <1>2 DEF GroupInv, StoppingPodsOf
<1>6. QueuedInv' BY <1>0, <1>1, <1>2 DEF QueuedInv
<1>7. OwnedInv' BY <1>0, <1>1 DEF OwnedInv, OwnedBy, UnderWay, NameOf
<1> QED BY <1>3, <1>4, <1>5, <1>6, <1>7

\* The service whose pods are being stopped.
LEMMA StoppingService ==
    ASSUME SInv, NEW at, Stopping(at)
    PROVE  /\ op.do \in {"delete", "reap"} /\ op.at = at /\ op \in OpType
           /\ op.tok \in Tokens /\ op.tok \in services /\ op.i \in Nat /\ op.i >= 1
           /\ group[op.tok] \in Seq(Aliases) /\ Len(group[op.tok]) \in Nat
<1>1. /\ op.do \in {"delete", "reap"} /\ op.at = at /\ op \in OpType
      /\ op.tok \in Tokens /\ op.i \in Nat /\ op.i >= 1
  BY DEF SInv, Stopping, At, STypeInv, OpType, OpInv
<1>2. op.tok \in services
  <2>1. CASE op.do = "delete" BY <2>1 DEF SInv, OpInv
  <2>2. CASE op.do = "reap"
    BY <2>2, ElementsOfTail DEF SInv, OpInv, STypeInv
  <2> QED BY <1>1, <2>1, <2>2
<1>3. group[op.tok] \in Seq(Aliases) BY <1>1 DEF SInv, STypeInv
<1> QED BY <1>1, <1>2, <1>3, LenProperties

\* A step of the loop over the pods that only moves `op`.
LEMMA StoppingMoves ==
    ASSUME SInv, NEW at, Stopping(at),
           UNCHANGED <<services, group, st, startList, endList, deleting, reused, pods>>,
           op' \in OpType, op'.do = op.do, op'.tok = op.tok, op'.i >= 1,
           op'.at = "ret" => op'.i <= Len(group[op.tok])
    PROVE  SInv'
<1> USE DEF SInv
<1>1. op.do \in {"delete", "reap"} /\ op.tok \in Tokens BY StoppingService
<1>2. STypeInv' BY <1>1 DEF STypeInv
<1>3. OpInv' BY <1>1 DEF OpInv
<1>4. GroupInv' BY DEF GroupInv, StoppingPodsOf
<1>5. QueuedInv' BY DEF QueuedInv
<1>6. OwnedInv' BY <1>1 DEF OwnedInv, OwnedBy, UnderWay, NameOf
<1> QED BY <1>2, <1>3, <1>4, <1>5, <1>6

\* stopPod is called for a pod of the group.
LEMMA StopCallKeeps ==
    ASSUME SInv, StopCall
    PROVE  SInv'
<1>1. /\ Stopping("call") /\ op.i <= Len(group[op.tok])
      /\ op' = [op EXCEPT !.at = "ret"]
      /\ UNCHANGED <<services, group, st, startList, endList, deleting, reused>>
  BY DEF StopCall, Tok, map
<1>2. pods' = pods
  <2>1. ASSUME NEW a, StopPod(a) PROVE pods' = pods BY <2>1 DEF StopPod
  <2> QED BY <2>1 DEF StopCall
<1>3. op \in OpType /\ op.i >= 1 BY <1>1, StoppingService
<1>4. /\ op' \in OpType /\ op'.do = op.do /\ op'.tok = op.tok /\ op'.i = op.i
  BY <1>1, <1>3 DEF OpType
<1> QED BY <1>1, <1>2, <1>3, <1>4, StoppingMoves

\* A pointer that dangles is followed, or skipped.
LEMMA StopDanglingKeeps ==
    ASSUME SInv, StopDangling
    PROVE  SInv'
<1>1. /\ Stopping("call")
      /\ op' = op \/ op' = [op EXCEPT !.i = op.i + 1]
      /\ UNCHANGED <<services, group, st, startList, endList, deleting, reused, pods>>
  BY DEF StopDangling, map, StillManager, mgr
<1>2. op \in OpType /\ op.i \in Nat /\ op.i >= 1 /\ op.at = "call" BY <1>1, StoppingService
<1>3. CASE op' = op
  BY <1>1, <1>2, <1>3, StoppingMoves
<1>4. CASE op' = [op EXCEPT !.i = op.i + 1]
  <2>1. /\ op' \in OpType /\ op'.do = op.do /\ op'.tok = op.tok /\ op'.i >= 1
        /\ op'.at = "call"
    BY <1>2, <1>4 DEF OpType
  <2> QED BY <1>1, <2>1, StoppingMoves
<1> QED BY <1>1, <1>3, <1>4

\* A pod leaves the group only once Manager has erased it.
LEMMA StopReturnKeeps ==
    ASSUME SInv, StopReturn
    PROVE  SInv'
<1> USE DEF SInv
<1>0. /\ Stopping("ret")
      /\ UNCHANGED <<services, st, startList, endList, deleting, reused, pods>>
  BY DEF StopReturn, StillManager, mgr
<1>1. /\ op.do \in {"delete", "reap"} /\ op.at = "ret" /\ op \in OpType
      /\ op.tok \in Tokens /\ op.tok \in services /\ op.i \in Nat /\ op.i >= 1
      /\ group[op.tok] \in Seq(Aliases)
      /\ op.i \in 1..Len(group[op.tok])
  BY <1>0, StoppingService DEF OpInv
<1>2. CASE op' = [op EXCEPT !.at = "call", !.i = op.i + 1] /\ UNCHANGED group
  <2>1. /\ op.made \in Seq(Aliases)
        /\ op' = [op EXCEPT !.at = "call", !.i = op.i + 1, !.made = op.made]
    BY <1>1, <1>2 DEF OpType
  <2>2. /\ op' \in OpType /\ op'.do = op.do /\ op'.tok = op.tok
        /\ op'.at = "call" /\ op'.i = op.i + 1
    <3>1. op \in OpType BY <1>1
    <3> QED BY <3>1, <2>1, NextPodType
  <2>3. op'.i >= 1 BY <1>1, <2>2
  <2> QED BY <1>0, <1>2, <2>2, <2>3, StoppingMoves
<1>3. CASE /\ group[op.tok][op.i] \notin pods
           /\ group' = [group EXCEPT ![op.tok] = RemoveAt(@, op.i)]
           /\ op' = [op EXCEPT !.at = "call"]
  <2> DEFINE rest == RemoveAt(group[op.tok], op.i)
  <2>1. /\ rest \in Seq(Aliases)
        /\ ToSet(group[op.tok]) \ {group[op.tok][op.i]} \subseteq ToSet(rest)
    BY <1>1, ElementsOfRemoveAt
  <2>2. group' = [group EXCEPT ![op.tok] = rest] BY <1>3
  <2> HIDE DEF rest
  <2>3. /\ op' \in OpType /\ op'.do = op.do /\ op'.tok = op.tok /\ op'.i = op.i
        /\ op'.at = "call"
    BY <1>1, <1>3 DEF OpType
  <2>4. STypeInv' BY <1>0, <1>1, <2>1, <2>2, <2>3 DEF STypeInv
  <2>5. OpInv' BY <1>0, <1>1, <2>3 DEF OpInv
  <2>6. GroupInv' BY <1>0, <1>1, <2>2, <2>3 DEF GroupInv, StoppingPodsOf, STypeInv
  <2>7. QueuedInv'
    <3>1. op.do = "reap" => op.tok \in ToSet(endList)
      BY HeadIsElement DEF OpInv, STypeInv
    <3> QED BY <1>0, <1>1, <2>2, <2>3, <3>1 DEF QueuedInv, STypeInv
  <2>8. OwnedInv'
    <3> SUFFICES ASSUME NEW a \in pods PROVE \E t \in Tokens : OwnedBy(a, t)'
      BY <1>0 DEF OwnedInv
    <3>1. PICK t \in Tokens : OwnedBy(a, t) BY <1>1 DEF OwnedInv, UnderWay
    <3>2. OwnedBy(a, t)'
      BY <1>0, <1>1, <1>3, <2>1, <2>2, <3>1 DEF OwnedBy, NameOf, STypeInv
    <3> QED BY <3>2
  <2> QED BY <2>4, <2>5, <2>6, <2>7, <2>8
<1> QED BY <1>2, <1>3 DEF StopReturn, Tok

\* With its last pod the service goes, and every entry of it in the lists.
LEMMA RemoveServiceKeeps ==
    ASSUME SInv, Stopping("call"), group[op.tok] = <<>>, RemoveService(op.tok),
           st' = [st EXCEPT ![op.tok] = "close"],
           op' = None, UNCHANGED <<group, reused, pods>>
    PROVE  SInv'
<1> USE DEF SInv
<1>1. /\ op.do \in {"delete", "reap"} /\ op.tok \in Tokens /\ op.tok \in services
  BY StoppingService
<1>2. op' \in OpType /\ op'.do = "none" BY EmptySeq DEF None, Op, OpType
<1>3. /\ services' = services \ {op.tok} /\ deleting' = deleting \ {op.tok}
      /\ startList' = EraseService(startList, op.tok)
      /\ endList' = EraseService(endList, op.tok)
  BY DEF RemoveService
<1>4. /\ startList' \in Seq(services) /\ ToSet(startList') = ToSet(startList) \ {op.tok}
      /\ endList' \in Seq(services) /\ ToSet(endList') = ToSet(endList) \ {op.tok}
  BY <1>3, EraseFacts DEF STypeInv
<1>5. startList' \in Seq(services') /\ endList' \in Seq(services')
  <2>1. ToSet(startList') \subseteq services' /\ ToSet(endList') \subseteq services'
    BY <1>3, <1>4, ElementsOf DEF STypeInv
  <2> QED BY <1>4, <2>1, ListOverElements
<1>6. STypeInv' BY <1>1, <1>2, <1>3, <1>5 DEF STypeInv
<1>7. OpInv' BY <1>2 DEF OpInv
<1>8. GroupInv' BY <1>1, <1>3 DEF GroupInv, StoppingPodsOf, STypeInv
<1>9. QueuedInv' BY <1>1, <1>3, <1>4 DEF QueuedInv
<1>10. OwnedInv'
  <2> SUFFICES ASSUME NEW a \in pods PROVE \E t \in Tokens : OwnedBy(a, t)'
    BY DEF OwnedInv
  <2>1. PICK t \in Tokens : OwnedBy(a, t) BY <1>1 DEF OwnedInv, UnderWay
  <2>2. OwnedBy(a, t)' BY <1>3, <2>1, ElementsOfEmpty DEF OwnedBy, NameOf
  <2> QED BY <2>2
<1> QED BY <1>6, <1>7, <1>8, <1>9, <1>10

\* A service that keeps pods is at the end of end_list_, marked hung.
LEMMA KeptServiceKeeps ==
    ASSUME SInv, Stopping("call"), group[op.tok] # <<>>,
           st' = [st EXCEPT ![op.tok] = "hung"],
           endList' \in Seq(services), op.tok \in ToSet(endList'),
           ToSet(endList) \subseteq ToSet(endList'),
           op' = None, UNCHANGED <<services, group, startList, deleting, reused, pods>>
    PROVE  SInv'
<1> USE DEF SInv
<1>1. /\ op.do \in {"delete", "reap"} /\ op.tok \in Tokens /\ op.tok \in services
  BY StoppingService
<1>2. op' \in OpType /\ op'.do = "none" BY EmptySeq DEF None, Op, OpType
<1>3. STypeInv' BY <1>1, <1>2 DEF STypeInv
<1>4. OpInv' BY <1>2 DEF OpInv
<1>5. GroupInv' BY <1>1 DEF GroupInv, StoppingPodsOf, STypeInv
<1>6. QueuedInv' BY <1>1 DEF QueuedInv
<1>7. OwnedInv' BY <1>1, <1>2 DEF OwnedInv, OwnedBy, UnderWay, NameOf
<1> QED BY <1>3, <1>4, <1>5, <1>6, <1>7

\* The front of a list moved to its end is still in the list.
LEMMA RotateFacts ==
    ASSUME NEW S, NEW list \in Seq(S), list # <<>>
    PROVE  Rotate(list) \in Seq(S) /\ ToSet(Rotate(list)) = ToSet(list)
<1> DEFINE h == Head(list)
           t == Tail(list)
<1>1. /\ h \in S /\ t \in Seq(S) /\ h \in ToSet(list)
      /\ ToSet(list) \ {h} \subseteq ToSet(t) /\ ToSet(t) \subseteq ToSet(list)
  BY ElementsOfTail, HeadIsElement
<1>2. Rotate(list) = Append(t, h) BY DEF Rotate
<1> HIDE DEF h, t
<1>3. Append(t, h) \in Seq(S) /\ ToSet(Append(t, h)) = ToSet(t) \cup {h}
  BY <1>1, ElementsOfAppend
<1> QED BY <1>1, <1>2, <1>3

\* deleteService queues the service it could not close.
LEMMA DeleteEndKeeps ==
    ASSUME SInv, DeleteEnd
    PROVE  SInv'
<1>1. /\ Stopping("call") /\ op.do = "delete"
      /\ st' = [st EXCEPT ![op.tok] = IF group[op.tok] = <<>> THEN "close" ELSE "hung"]
      /\ op' = None /\ UNCHANGED <<group, reused, pods>>
  BY DEF DeleteEnd, Stopping, At, Tok, StillManager, mgr
<1>2. CASE group[op.tok] = <<>>
  BY <1>1, <1>2, RemoveServiceKeeps DEF DeleteEnd, Tok
<1>3. CASE group[op.tok] # <<>>
  <2>1. endList' = Append(endList, op.tok) /\ UNCHANGED <<services, startList, deleting>>
    BY <1>3 DEF DeleteEnd, Tok
  <2>2. endList' \in Seq(services) /\ ToSet(endList') = ToSet(endList) \cup {op.tok}
    BY <1>1, <2>1, StoppingService, ElementsOfAppend DEF SInv, STypeInv
  <2> QED BY <1>1, <1>3, <2>1, <2>2, KeptServiceKeeps
<1> QED BY <1>2, <1>3

\* shutdownFailedPod puts it back at the end.
LEMMA ReapEndKeeps ==
    ASSUME SInv, ShutdownFailedPodEnd
    PROVE  SInv'
<1>1. /\ Stopping("call") /\ op.do = "reap"
      /\ st' = [st EXCEPT ![op.tok] = IF group[op.tok] = <<>> THEN "close" ELSE "hung"]
      /\ op' = None /\ UNCHANGED <<group, reused, pods>>
  BY DEF ShutdownFailedPodEnd, Stopping, At, Tok, StillManager, mgr
<1>2. CASE group[op.tok] = <<>>
  BY <1>1, <1>2, RemoveServiceKeeps DEF ShutdownFailedPodEnd, Tok
<1>3. CASE group[op.tok] # <<>>
  <2>1. endList' = Rotate(endList) /\ UNCHANGED <<services, startList, deleting>>
    BY <1>3 DEF ShutdownFailedPodEnd, Tok
  <2>2. endList # <<>> /\ op.tok = Head(endList) /\ endList \in Seq(services)
    BY <1>1 DEF SInv, OpInv, STypeInv
  <2>3. endList' \in Seq(services) /\ ToSet(endList') = ToSet(endList)
        /\ op.tok \in ToSet(endList)
    BY <2>1, <2>2, RotateFacts, HeadIsElement
  <2> QED BY <1>1, <1>3, <2>1, <2>3, KeptServiceKeeps
<1> QED BY <1>2, <1>3

-----------------------------------------------------------------------------
(* startFailedPod.                                                         *)

\* The operation shutdownFailedPod begins with, or none.
LEMMA ShutdownFailedPodFacts ==
    ASSUME STypeInv
    PROVE  /\ ShutdownFailedPod \in OpType
           /\ \/ ShutdownFailedPod.do = "none"
              \/ /\ ShutdownFailedPod.do = "reap" /\ ShutdownFailedPod.at = "call"
                 /\ ShutdownFailedPod.i = 1
                 /\ endList # <<>> /\ ShutdownFailedPod.tok = Head(endList)
                 /\ Head(endList) \in services /\ Head(endList) \in Tokens
<1>1. CASE endList = <<>>
  BY <1>1, EmptySeq DEF ShutdownFailedPod, None, Op, OpType
<1>2. CASE endList # <<>>
  <2>1. Head(endList) \in services /\ Head(endList) \in Tokens
    BY <1>2, ElementsOfTail DEF STypeInv
  <2>2. ShutdownFailedPod = Op("reap", Head(endList), 1)
    BY <1>2 DEF ShutdownFailedPod
  <2> QED BY <1>2, <2>1, <2>2, EmptySeq DEF Op, OpType
<1> QED BY <1>1, <1>2

\* The service at the front of a list is taken up.
LEMMA StartFailedPodKeeps ==
    ASSUME SInv, StartFailedPod
    PROVE  SInv'
<1> USE DEF SInv
<1>0. /\ op.do = "none"
      /\ UNCHANGED <<services, group, st, startList, endList, deleting, reused, pods>>
  BY DEF StartFailedPod, Quiet, None, Op, map, StillManager, mgr
<1>1. /\ op' \in OpType
      /\ \/ op'.do = "none"
         \/ /\ op'.do = "reap" /\ op'.at = "call" /\ op'.i = 1
            /\ endList # <<>> /\ op'.tok = Head(endList) /\ op'.tok \in Tokens
         \/ /\ op'.do = "restart" /\ op'.at = "call"
            /\ startList # <<>> /\ op'.tok = Head(startList) /\ op'.tok \in Tokens
  <2>1. CASE startList = <<>>
    <3>1. op' = ShutdownFailedPod BY <2>1 DEF StartFailedPod
    <3> QED BY <3>1, ShutdownFailedPodFacts
  <2>2. CASE startList # <<>>
    <3> DEFINE t == Head(startList)
    <3>1. t \in Tokens BY <2>2, ElementsOfTail DEF STypeInv
    <3>2. Len(group[t]) \in Nat BY <3>1, LenProperties DEF STypeInv
    <3>3. op' = [Op("restart", t, 0) EXCEPT !.size = Len(group[t])]
      BY <2>2 DEF StartFailedPod
    <3> HIDE DEF t
    <3>4. op' = [do |-> "restart", at |-> "call", tok |-> t, i |-> 0,
                 size |-> Len(group[t]), made |-> <<>>]
      BY <3>3 DEF Op
    <3>5. op' \in OpType BY <3>1, <3>2, <3>4, EmptySeq DEF OpType
    <3>6. op'.do = "restart" /\ op'.at = "call" /\ op'.tok = t BY <3>4
    <3> QED BY <2>2, <3>1, <3>5, <3>6 DEF t
  <2> QED BY <2>1, <2>2
<1>2. STypeInv' BY <1>0, <1>1 DEF STypeInv
<1>3. OpInv' BY <1>0, <1>1 DEF OpInv
<1>4. GroupInv' BY <1>0, <1>1 DEF GroupInv, StoppingPodsOf
<1>5. QueuedInv' BY <1>0, <1>1 DEF QueuedInv
<1>6. OwnedInv' BY <1>0, <1>1 DEF OwnedInv, OwnedBy, UnderWay, NameOf
<1> QED BY <1>2, <1>3, <1>4, <1>5, <1>6

\* The service whose missing pods are being started: it has a pod, so that
\* the alias restartFailedPods puts together is one of its names.
LEMMA RestartingService ==
    ASSUME SInv, NEW at, At({"restart"}, at)
    PROVE  /\ op.do = "restart" /\ op.at = at /\ op \in OpType
           /\ op.tok \in Tokens /\ op.tok \in services
           /\ startList # <<>> /\ op.tok = Head(startList)
           /\ group[op.tok] \in Seq(Aliases) /\ Len(group[op.tok]) \in Nat
           /\ Len(group[op.tok]) >= 1 /\ Num[op.tok] \in Nat
           /\ Len(group[op.tok]) < Num[op.tok]
                 => PodName[op.tok][Len(group[op.tok]) - 1] \in Aliases
<1>1. /\ op.do = "restart" /\ op.at = at /\ op \in OpType /\ op.tok \in Tokens
      /\ startList # <<>> /\ op.tok = Head(startList)
  BY DEF SInv, At, STypeInv, OpInv
<1>2. op.tok \in services BY <1>1, ElementsOfTail DEF SInv, STypeInv
<1>3. group[op.tok] \in Seq(Aliases) /\ group[op.tok] # <<>>
  BY <1>1, <1>2 DEF SInv, STypeInv, GroupInv, StoppingPodsOf
<1>4. Len(group[op.tok]) \in Nat /\ Len(group[op.tok]) >= 1
  BY <1>3, EmptySeq
<1>5. /\ Num[op.tok] \in Nat
      /\ \A i \in 0..(Num[op.tok] - 1) : PodName[op.tok][i] \in Aliases
  BY <1>1, NamesAreAliases
<1>6. Len(group[op.tok]) < Num[op.tok] => Len(group[op.tok]) - 1 \in 0..(Num[op.tok] - 1)
  BY <1>4, <1>5
<1> QED BY <1>1, <1>2, <1>3, <1>4, <1>5, <1>6

\* The pod that is being created is under way.
LEMMA RestartCallKeeps ==
    ASSUME SInv, RestartCall
    PROVE  SInv'
<1> USE DEF SInv
<1> DEFINE pod == PodName[op.tok][Len(group[op.tok]) - 1]
<1>0. /\ At({"restart"}, "call") /\ op.i < Num[op.tok] - Len(group[op.tok])
      /\ SelectWorkerToCreatePod(pod)
      /\ op' = [op EXCEPT !.at = "ret"]
      /\ UNCHANGED <<services, group, st, startList, endList, deleting, reused>>
  BY DEF RestartCall, Tok, map
<1>1. /\ op.do = "restart" /\ op.at = "call" /\ op \in OpType /\ op.tok \in Tokens
      /\ Len(group[op.tok]) \in Nat /\ Num[op.tok] \in Nat
      /\ startList # <<>> /\ op.tok = Head(startList)
  BY <1>0, RestartingService
<1>2. /\ op' \in OpType /\ op'.do = "restart" /\ op'.at = "ret" /\ op'.tok = op.tok
  BY <1>0, <1>1 DEF OpType
<1>3. pods' \subseteq pods \cup {pod}
  <2>1. ASSUME NEW a, SelectWorkerToCreatePod(a) PROVE pods' \subseteq pods \cup {a}
    BY <2>1 DEF SelectWorkerToCreatePod
  <2> QED BY <1>0, <2>1
<1>4. Len(group[op.tok]) < Num[op.tok]
  <2>1. op.i \in Nat BY <1>1 DEF OpType
  <2> QED BY <1>0, <1>1, <2>1
<1>5. STypeInv' BY <1>0, <1>1, <1>2 DEF STypeInv
<1>6. OpInv' BY <1>0, <1>1, <1>2, <1>4 DEF OpInv
<1>7. GroupInv' BY <1>0, <1>1, <1>2 DEF GroupInv, StoppingPodsOf
<1>8. QueuedInv' BY <1>0, <1>1, <1>2 DEF QueuedInv
<1>9. OwnedInv' BY <1>0, <1>1, <1>2, <1>3 DEF OwnedInv, OwnedBy, UnderWay, NameOf
<1> QED BY <1>5, <1>6, <1>7, <1>8, <1>9

\* A pod that was started joins the group; one that was not is in no map.
LEMMA RestartReturnKeeps ==
    ASSUME SInv, RestartReturn
    PROVE  SInv'
<1> USE DEF SInv
<1> DEFINE pod == PodName[op.tok][Len(group[op.tok]) - 1]
           more == IF pod \in pods THEN Append(group[op.tok], pod) ELSE group[op.tok]
<1>0. /\ At({"restart"}, "ret")
      /\ group' = [group EXCEPT ![op.tok] = more]
      /\ op' = [op EXCEPT !.at = "call", !.i = op.i + 1]
      /\ UNCHANGED <<services, st, startList, endList, deleting, reused, pods>>
  BY DEF RestartReturn, Tok, StillManager, mgr
<1>1. /\ op.do = "restart" /\ op.at = "ret" /\ op \in OpType /\ op.tok \in Tokens
      /\ op.tok \in services
      /\ group[op.tok] \in Seq(Aliases) /\ Len(group[op.tok]) \in Nat
      /\ Len(group[op.tok]) >= 1 /\ Num[op.tok] \in Nat
      /\ startList # <<>> /\ op.tok = Head(startList)
      /\ pod \in Aliases
  BY <1>0, RestartingService DEF OpInv
<1> HIDE DEF pod
<1>2. /\ more \in Seq(Aliases) /\ ToSet(group[op.tok]) \subseteq ToSet(more)
      /\ pod \in pods => pod \in ToSet(more)
      /\ Len(more) \in Nat /\ Len(more) >= Len(group[op.tok])
  BY <1>1, ElementsOfAppend, AppendProperties
<1> HIDE DEF more
<1>3. more # <<>> BY <1>1, <1>2, EmptySeq
<1>4. op' \in OpType /\ op'.do = "restart" /\ op'.at = "call" /\ op'.tok = op.tok
  <2>1. /\ op.made \in Seq(Aliases)
        /\ op' = [op EXCEPT !.at = "call", !.i = op.i + 1, !.made = op.made]
    BY <1>0, <1>1 DEF OpType
  <2>2. op \in OpType /\ op.do = "restart" BY <1>1
  <2> QED BY <2>1, <2>2, NextPodType
<1>5. STypeInv' BY <1>0, <1>1, <1>2, <1>4 DEF STypeInv
<1>6. OpInv' BY <1>0, <1>1, <1>4 DEF OpInv
<1>7. GroupInv'
  <2> SUFFICES ASSUME NEW t \in services
               PROVE  group'[t] # <<>> /\ (st[t] = "ready" => Len(group'[t]) >= Num[t])
    BY <1>0, <1>1 DEF GroupInv, STypeInv
  <2>1. group[t] # <<>> /\ (st[t] = "ready" => Len(group[t]) >= Num[t])
    BY <1>1 DEF GroupInv, StoppingPodsOf
  <2>2. CASE t = op.tok
    <3>1. group'[t] = more BY <1>0, <1>1, <2>2 DEF STypeInv
    <3> QED BY <1>1, <1>2, <1>3, <2>1, <2>2, <3>1
  <2>3. CASE t # op.tok
    <3>1. group'[t] = group[t] BY <1>0, <1>1, <2>3 DEF STypeInv
    <3> QED BY <2>1, <3>1
  <2> QED BY <2>2, <2>3
<1>8. QueuedInv'
  <2>1. ASSUME NEW t \in services, Len(group'[t]) < Num[t]
        PROVE  t \in ToSet(startList) \cup ToSet(endList)
    <3>1. CASE t = op.tok
      BY <1>1, <3>1, HeadIsElement DEF STypeInv
    <3>2. CASE t # op.tok
      <4>1. group'[t] = group[t] BY <1>0, <1>1, <3>2 DEF STypeInv
      <4> QED BY <1>1, <2>1, <4>1 DEF QueuedInv
    <3> QED BY <3>1, <3>2
  <2>2. \A t \in deleting : t \in ToSet(endList) BY <1>1 DEF QueuedInv
  <2> QED BY <1>0, <2>1, <2>2 DEF QueuedInv
<1>9. OwnedInv'
  <2> SUFFICES ASSUME NEW a \in pods PROVE \E t \in Tokens : OwnedBy(a, t)'
    BY <1>0 DEF OwnedInv
  <2>1. CASE UnderWay(a)
    <3>1. a = pod BY <1>1, <2>1 DEF UnderWay, pod
    <3>2. group'[op.tok] = more BY <1>0, <1>1 DEF STypeInv
    <3> QED BY <1>0, <1>1, <1>2, <3>1, <3>2 DEF OwnedBy
  <2>2. ASSUME NEW t \in Tokens, OwnedBy(a, t) PROVE OwnedBy(a, t)'
    <3>1. ToSet(group[t]) \subseteq ToSet(group'[t])
      BY <1>0, <1>1, <1>2 DEF STypeInv
    <3> QED BY <1>0, <2>2, <3>1 DEF OwnedBy, NameOf
  <2> QED BY <2>1, <2>2 DEF OwnedInv
<1> QED BY <1>5, <1>6, <1>7, <1>8, <1>9

\* A service leaves start_list_ only when it has all its pods.
LEMMA RestartEndKeeps ==
    ASSUME SInv, RestartEnd
    PROVE  SInv'
<1> USE DEF SInv
<1>0. /\ At({"restart"}, "call")
      /\ st' = IF op.size < Num[op.tok] /\ Len(group[op.tok]) = Num[op.tok]
               THEN [st EXCEPT ![op.tok] = "ready"] ELSE st
      /\ startList' = IF st'[op.tok] = "ready" THEN Tail(startList) ELSE Rotate(startList)
      /\ op' = ShutdownFailedPod
      /\ UNCHANGED <<services, group, endList, deleting, reused, pods>>
  BY DEF RestartEnd, Tok, StillManager, mgr
<1>1. /\ op.do = "restart" /\ op.at = "call" /\ op.tok \in Tokens /\ op.tok \in services
      /\ Len(group[op.tok]) \in Nat /\ Num[op.tok] \in Nat
      /\ startList # <<>> /\ op.tok = Head(startList) /\ startList \in Seq(services)
  BY <1>0, RestartingService DEF STypeInv
<1>2. /\ op' \in OpType
      /\ \/ op'.do = "none"
         \/ /\ op'.do = "reap" /\ op'.at = "call" /\ op'.i = 1
            /\ endList # <<>> /\ op'.tok = Head(endList) /\ op'.tok \in Tokens
  BY <1>0, ShutdownFailedPodFacts
<1>3. /\ st' \in [Tokens -> {"prepare", "ready", "hung", "close"}]
      /\ \A t \in Tokens \ {op.tok} : st'[t] = st[t]
      /\ st'[op.tok] = "ready" => st[op.tok] = "ready" \/ Len(group[op.tok]) = Num[op.tok]
  BY <1>0, <1>1 DEF STypeInv
<1>4. st'[op.tok] = "ready" => Len(group[op.tok]) >= Num[op.tok]
  BY <1>1, <1>3 DEF GroupInv, StoppingPodsOf
<1>5. /\ startList' \in Seq(services)
      /\ ToSet(startList) \ {op.tok} \subseteq ToSet(startList')
      /\ st'[op.tok] # "ready" => op.tok \in ToSet(startList')
  <2>1. /\ Tail(startList) \in Seq(services) /\ op.tok \in ToSet(startList)
        /\ ToSet(startList) \ {op.tok} \subseteq ToSet(Tail(startList))
        /\ Rotate(startList) \in Seq(services)
        /\ ToSet(Rotate(startList)) = ToSet(startList)
    BY <1>1, ElementsOfTail, HeadIsElement, RotateFacts
  <2>2. startList' = Tail(startList) \/ startList' = Rotate(startList)
    BY <1>0
  <2>3. st'[op.tok] # "ready" => startList' = Rotate(startList)
    BY <1>0
  <2> QED BY <2>1, <2>2, <2>3
<1>6. STypeInv' BY <1>0, <1>2, <1>3, <1>5 DEF STypeInv
<1>7. OpInv' BY <1>0, <1>2 DEF OpInv
<1>8. GroupInv'
  <2>1. \A t \in services :
           group[t] # <<>> /\ (st'[t] = "ready" => Len(group[t]) >= Num[t])
    BY <1>1, <1>3, <1>4 DEF GroupInv, StoppingPodsOf, STypeInv
  <2> QED BY <1>0, <2>1 DEF GroupInv
<1>9. QueuedInv'
  <2>1. ASSUME NEW t \in services, Len(group[t]) < Num[t]
        PROVE  t \in ToSet(startList') \cup ToSet(endList)
    <3>1. CASE t = op.tok
      <4>1. st'[op.tok] # "ready" BY <1>1, <1>4, <2>1, <3>1
      <4> QED BY <1>5, <3>1, <4>1
    <3>2. CASE t # op.tok
      BY <1>1, <1>5, <2>1, <3>2 DEF QueuedInv
    <3> QED BY <3>1, <3>2
  <2>2. \A t \in deleting : t \in ToSet(endList) BY <1>1 DEF QueuedInv
  <2> QED BY <1>0, <2>1, <2>2 DEF QueuedInv
<1>10. OwnedInv' BY <1>0, <1>1 DEF OwnedInv, OwnedBy, UnderWay, NameOf
<1> QED BY <1>6, <1>7, <1>8, <1>9, <1>10

-----------------------------------------------------------------------------
(* The specification.                                                      *)

SIInv == IInv /\ SInv

\* No step leaves the invariant: no request, no round of the functor, and
\* nothing Manager does while it works on a call of the service layer.
THEOREM ServiceInductive == SSpec => []SIInv
<1>1. SInit => SIInv
  <2> SUFFICES ASSUME SInit PROVE SIInv OBVIOUS
  <2>1. IInv BY InitMInv, BoundsAssumption DEF SInit, Init, IInv, HistoryInv, RequestsInv
  <2>2. op \in OpType /\ op.do = "none" BY EmptySeq DEF SInit, None, Op, OpType
  <2>3. STypeInv BY <2>2, EmptySeq DEF SInit, STypeInv
  <2>4. OpInv /\ GroupInv /\ QueuedInv /\ OwnedInv
    BY <2>2 DEF SInit, Init, OpInv, GroupInv, QueuedInv, OwnedInv
  <2> QED BY <2>1, <2>3, <2>4 DEF SIInv, SInv
<1>2. SIInv /\ [SNext]_svars => SIInv'
  <2> SUFFICES ASSUME SIInv, [SNext]_svars PROVE SIInv' OBVIOUS
  <2> USE DEF SIInv, IInv
  <2>0. HistoryInv'
    <3>1. CASE UNCHANGED <<mgr, hist>>
      BY <3>1 DEF HistoryInv, mgr, hist
    <3>2. CASE (\E w \in Workers : ConnectToWorker(w)) \/ Answer \/ Functor
      BY <3>2, HistoryStep DEF MInv
    <3>3. ASSUME NEW a, SelectWorkerToCreatePod(a) PROVE HistoryInv'
      <4>1. last' \in {last, last + 1} BY <3>3 DEF SelectWorkerToCreatePod, Select
      <4>2. expired' \subseteq expired BY <3>3 DEF SelectWorkerToCreatePod, Forget
      <4> QED BY <4>1, <4>2 DEF HistoryInv
    <3>4. ASSUME NEW a, StopPod(a) PROVE HistoryInv'
      BY <3>4 DEF StopPod, HistoryInv, hist
    <3>5. CASE CreateCall \/ RestartCall \/ StopCall
      BY <3>3, <3>4, <3>5 DEF CreateCall, RestartCall, StopCall
    <3>6. CASE StillManager \/ UNCHANGED svars \/ \E t \in Tokens : CreateService(t) \/ DeleteService(t)
      <4>1. UNCHANGED <<mgr, hist>>
        BY <3>6 DEF StillManager, svars, vars, CreateService, DeleteService
      <4> QED BY <3>1, <4>1
    <3> QED
      BY <3>2, <3>5, <3>6
         DEF SNext, ServiceRequest, ServiceStep, ManagerStep, CreateReturn, CreateEnd,
             StopDangling, StopReturn, DeleteEnd, ShutdownFailedPodEnd, StartFailedPod,
             RestartReturn, RestartEnd
  <2>1. CASE ServiceRequest
    <3>1. ASSUME NEW w \in Workers, Quiet /\ Budget /\ ConnectToWorker(w) /\ UNCHANGED svc
          PROVE  SIInv'
      <4>1. pods' \subseteq pods BY <3>1 DEF ConnectToWorker
      <4>2. RequestsInv' BY <3>1, BoundsAssumption DEF Budget, RequestsInv
      <4> QED BY <2>0, <3>1, <4>1, <4>2, ConnectStep, ManagerStepKeeps
    <3>2. ASSUME NEW t \in Tokens, CreateService(t) \/ DeleteService(t)
          PROVE  SIInv'
      <4>1. RequestsInv'
        BY <3>2, BoundsAssumption DEF CreateService, DeleteService, Budget, RequestsInv
      <4>2. MInv' BY <3>2, ManagerAlone DEF CreateService, DeleteService
      <4> QED BY <2>0, <3>2, <4>1, <4>2, CreateServiceKeeps, DeleteServiceKeeps
    <3> QED BY <2>1, <3>1, <3>2 DEF ServiceRequest
  <2>2. CASE ServiceStep
    <3>1. SInv'
      BY <2>2, CreateCallKeeps, CreateReturnKeeps, CreateEndKeeps, StopCallKeeps,
         StopDanglingKeeps, StopReturnKeeps, DeleteEndKeeps, ReapEndKeeps,
         StartFailedPodKeeps, RestartCallKeeps, RestartReturnKeeps, RestartEndKeeps
         DEF ServiceStep
    <3>2. requests' = requests
      BY <2>2 DEF ServiceStep, CreateCall, CreateReturn, CreateEnd, StopCall, StopDangling,
                  StopReturn, DeleteEnd, ShutdownFailedPodEnd, StartFailedPod, RestartCall,
                  RestartReturn, RestartEnd, StillManager
    <3>3. CASE CreateCall
      <4>1. PodName[op.tok][op.i] \in Aliases
        <5>1. op.tok \in Tokens /\ op.i \in Nat /\ op.i < Num[op.tok]
          BY <3>3 DEF CreateCall, At, Tok, SInv, STypeInv, OpType
        <5> QED BY <5>1, NamesAreAliases
      <4>2. MInv' BY <3>3, <4>1, SelectStep DEF CreateCall, Tok
      <4> QED BY <2>0, <3>1, <3>2, <4>2 DEF RequestsInv
    <3>4. CASE RestartCall
      <4>1. PodName[op.tok][Len(group[op.tok]) - 1] \in Aliases
        <5>1. At({"restart"}, "call") /\ op.i < Num[op.tok] - Len(group[op.tok])
              /\ op.i \in Nat
          BY <3>4 DEF RestartCall, Tok, SInv, STypeInv, OpType
        <5>2. Len(group[op.tok]) \in Nat /\ Num[op.tok] \in Nat
          BY <5>1, RestartingService
        <5>3. Len(group[op.tok]) < Num[op.tok] BY <5>1, <5>2
        <5> QED BY <5>1, <5>3, RestartingService
      <4>2. MInv' BY <3>4, <4>1, SelectStep DEF RestartCall, Tok
      <4> QED BY <2>0, <3>1, <3>2, <4>2 DEF RequestsInv
    <3>5. CASE StopCall
      <4>1. group[op.tok][op.i] \in Aliases
        BY <3>5 DEF StopCall, Tok, MInv, TypeInv
      <4>2. MInv' BY <3>5, <4>1, StopStep DEF StopCall, Tok
      <4> QED BY <2>0, <3>1, <3>2, <4>2 DEF RequestsInv
    <3>6. CASE /\ StillManager
               /\ status' = status \/ status' = "crashed"
      BY <2>0, <3>1, <3>2, <3>6, ManagerAlone DEF StillManager, RequestsInv
    <3>7. \/ CreateCall \/ RestartCall \/ StopCall
          \/ StillManager /\ (status' = status \/ status' = "crashed")
      BY <2>2 DEF ServiceStep, CreateReturn, CreateEnd, StopDangling, StopReturn, DeleteEnd,
                  ShutdownFailedPodEnd, RemoveService, StartFailedPod, RestartReturn,
                  RestartEnd
    <3> QED BY <3>3, <3>4, <3>5, <3>6, <3>7
  <2>3. CASE ManagerStep
    <3>1. Answer \/ Functor BY <2>3 DEF ManagerStep
    <3>2. pods' \subseteq pods /\ UNCHANGED requests BY <3>1, ManagerAddsNoPod
    <3>3. MInv' BY <3>1, AnswerStep, FunctorStep
    <3>4. SInv' BY <2>3, <3>2, ManagerStepKeeps DEF ManagerStep
    <3> QED BY <2>0, <3>2, <3>3, <3>4 DEF RequestsInv
  <2>4. CASE UNCHANGED svars
    <3>1. UNCHANGED svc /\ UNCHANGED vars BY <2>4 DEF svars
    <3>2. MInv' BY <3>1, ManagerAlone DEF vars
    <3>3. SInv' BY <3>1, ManagerStepKeeps DEF vars, mgr
    <3> QED BY <2>0, <3>1, <3>2, <3>3 DEF RequestsInv, vars
  <2> QED BY <2>1, <2>2, <2>3, <2>4 DEF SNext
<1> QED BY <1>1, <1>2, PTL DEF SSpec

\* Type correctness of the two layers together: the lists of the service
\* layer hold services of the map only (ServiceManager.cpp 46-90).
THEOREM ServiceTypeCorrect == SSpec => []STypeOK
<1>1. SIInv => STypeOK
  <2> SUFFICES ASSUME SIInv PROVE STypeOK OBVIOUS
  <2>1. TypeOK
    BY DEF SIInv, IInv, MInv, TypeInv, BoundInv, HistoryInv, RequestsInv, TypeOK, CallType
  <2> QED BY <2>1 DEF SIInv, SInv, STypeInv, STypeOK, OpType
<1> QED BY <1>1, ServiceInductive, PTL

\* Between two operations a service that lacks pods is in start_list_ or in
\* end_list_ (ServiceManager.h 104, ServiceDescriptor.h 95-115).
THEOREM IncompleteServicesAreQueued == SSpec => []IncompleteIsQueued
<1>1. SIInv => IncompleteIsQueued
  BY DEF SIInv, SInv, QueuedInv, IncompleteIsQueued, Quiet, None, Op
<1> QED BY <1>1, ServiceInductive, PTL

\* Between two operations a service that is to be deleted is in end_list_
\* (ServiceManager.h 122, ServiceManager.cpp 63-68).
THEOREM DeletedServicesAreQueued == SSpec => []DeletingIsQueued
<1>1. SIInv => DeletingIsQueued
  BY DEF SIInv, SInv, QueuedInv, DeletingIsQueued, Quiet, None, Op
<1> QED BY <1>1, ServiceInductive, PTL

\* Between two operations every pod of Manager's map is in the group of a
\* service, or has a name of a token that was given to createService twice
\* (ServiceDescriptor.h 80-85, 109-111, ServiceManager.h 83-100).
THEOREM EveryPodIsOwned == SSpec => []PodsAreOwned
<1>1. SIInv => PodsAreOwned
  BY DEF SIInv, SInv, OwnedInv, OwnedBy, UnderWay, NameOf, PodsAreOwned, Quiet, None, Op
<1> QED BY <1>1, ServiceInductive, PTL
=============================================================================
