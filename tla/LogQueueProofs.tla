--------------------------- MODULE LogQueueProofs ---------------------------
(***************************************************************************)
(* TLAPS proofs about LogQueue, for every set of slices and every number   *)
(* of appends: the type invariant, mutual exclusion on logs_, that no      *)
(* slice is lost, duplicated or reordered, that no notification is missed, *)
(* and that the destructor leaves everything in the file.                  *)
(***************************************************************************)
EXTENDS LogQueue, SequenceTheorems, TLAPS

-----------------------------------------------------------------------------
(* The inductive invariant.                                                *)

\* swp_flag is TRUE exactly while one of the threads is inside.
LockInv ==
    /\ swp_flag <=> (OwnerHolds \/ FlusherHolds)
    /\ SwapExclusion

\* An append that was started is within the bound.
CountInv == owner \in {"push", "release", "setFlag", "notify"} => count < MaxAppends

\* flush() leaves nothing behind in its local list or in the stream.
BatchInv ==
    /\ flusher \notin {"unlock", "write"} => batch = <<>>
    /\ flusher # "write" => buffer = <<>>
    /\ ~good => buffer = <<>>

\* The log thread runs only after start(), and it has finished when the
\* destructor returns; after the destructor has seen the queue empty nobody
\* appends any more.
DtorInv ==
    /\ owner = "constructed" => flusher = "unborn"
    /\ owner \in {"quit", "quitFlag", "quitNotify", "join", "closed"} => logs = <<>>
    /\ owner = "closed" => flusher = "finished"

IInv == TypeOK /\ LockInv /\ CountInv /\ BatchInv /\ DtorInv
           /\ NoSliceLost /\ NoMissedNotify

-----------------------------------------------------------------------------
(* Facts about concatenation.                                              *)

(* Appending to the last part of a concatenation appends to the whole: the *)
(* slice append pushes onto logs_ is last in the queue's contents.         *)
LEMMA ConcatAppend ==
    ASSUME NEW S, NEW s \in Seq(S), NEW t \in Seq(S), NEW e \in S
    PROVE  s \o Append(t, e) = Append(s \o t, e)
  OBVIOUS

(* Moving the head of one part to the end of the part before it changes    *)
(* nothing in the whole: one write of flush().                             *)
LEMMA ConcatShift ==
    ASSUME NEW S, NEW s \in Seq(S), NEW t \in Seq(S), t # <<>>
    PROVE  Append(s, Head(t)) \o Tail(t) = s \o t
  OBVIOUS

-----------------------------------------------------------------------------
(* The invariant is inductive.                                             *)

(* Every state the constructor can leave behind satisfies the invariant.   *)
LEMMA InitIInv == Init => IInv
  <1> SUFFICES ASSUME Init PROVE IInv
    OBVIOUS
  <1>1. TypeOK
    <2>1. good \in BOOLEAN
      BY Zenon DEF Init
    <2>2. count \in 0..MaxAppends
      BY MaxAppendsAssumption DEF Init
    <2> QED
      BY <2>1, <2>2, EmptySeq DEF Init, TypeOK, OwnerPC, FlusherPC
  <1>2. LockInv /\ CountInv /\ BatchInv /\ DtorInv /\ NoMissedNotify
    BY DEF Init, LockInv, CountInv, BatchInv, DtorInv, SwapExclusion,
           NoMissedNotify, OwnerHolds, FlusherHolds
  <1>3. NoSliceLost
    BY DEF Init, NoSliceLost
  <1> QED
    BY <1>1, <1>2, <1>3 DEF IInv

(* The types are preserved by every step of both threads.                  *)
LEMMA TypeStep == IInv /\ [Next]_vars => TypeOK'
  <1> SUFFICES ASSUME IInv, [Next]_vars PROVE TypeOK'
    OBVIOUS
  <1> USE MaxAppendsAssumption DEF TypeOK, OwnerPC, FlusherPC, data, flags
  <1>0. TypeOK /\ CountInv
    BY DEF IInv
  <1>1. CASE Owner
    <2>1. CASE Start \/ AppendAcquire \/ AppendRelease \/ AppendSetFlag
      BY <1>0, <2>1 DEF Start, AppendAcquire, AppendRelease, AppendSetFlag
    <2>2. CASE AppendPush
      BY <1>0, <2>2 DEF AppendPush
    <2>3. CASE AppendNotify
      BY <1>0, <2>3 DEF AppendNotify, Notify, CountInv
    <2>4. CASE DtorBegin \/ DtorCheck \/ DtorKickFlag \/ DtorKickNotify
      BY <1>0, <2>4 DEF DtorBegin, DtorCheck, DtorKickFlag, DtorKickNotify, Notify
    <2>5. CASE DtorQuit \/ DtorQuitFlag \/ DtorQuitNotify
      BY <1>0, <2>5 DEF DtorQuit, DtorQuitFlag, DtorQuitNotify, Notify
    <2>6. CASE DtorJoin
      BY <1>0, <2>6 DEF DtorJoin
    <2> QED
      BY <1>1, <2>1, <2>2, <2>3, <2>4, <2>5, <2>6 DEF Owner
  <1>2. CASE Flusher
    <2>1. CASE LoopTest \/ LoopWait \/ FlushEmpty \/ FlushClear
      BY <1>0, <2>1 DEF LoopTest, LoopWait, FlushEmpty, FlushClear
    <2>2. CASE FlushAcquire \/ FlushRelease
      BY <1>0, <2>2 DEF FlushAcquire, FlushRelease
    <2>5. CASE FlushSwap
      BY <1>0, <2>5, EmptySeq DEF FlushSwap
    <2>3. CASE FlushWrite
      <3>1. Head(batch) \in Slices /\ Tail(batch) \in Seq(Slices)
        BY <1>0, <2>3, HeadTailProperties DEF FlushWrite
      <3> QED
        BY <1>0, <2>3, <3>1 DEF FlushWrite
    <2>4. CASE FlushSync
      BY <1>0, <2>4 DEF FlushSync
    <2> QED
      BY <1>2, <2>1, <2>2, <2>3, <2>4, <2>5 DEF Flusher
  <1>3. CASE UNCHANGED vars
    BY <1>3 DEF vars, IInv
  <1> QED
    BY <1>1, <1>2, <1>3 DEF Next

(* The control part: the lock, the bound, the hand-over of the batch, the  *)
(* destructor's phases and the pending notification.                       *)
LEMMA ControlStep ==
    IInv /\ [Next]_vars
      => LockInv' /\ CountInv' /\ BatchInv' /\ DtorInv' /\ NoMissedNotify'
  <1> SUFFICES ASSUME IInv, [Next]_vars
               PROVE  LockInv' /\ CountInv' /\ BatchInv' /\ DtorInv' /\ NoMissedNotify'
    OBVIOUS
  <1> USE MaxAppendsAssumption
      DEF IInv, TypeOK, LockInv, CountInv, BatchInv, DtorInv, SwapExclusion,
          NoMissedNotify, OwnerHolds, FlusherHolds, data, flags
  <1>1. CASE Owner
    <2>1. CASE Start           BY <2>1 DEF Start
    <2>2. CASE AppendAcquire   BY <2>2 DEF AppendAcquire
    <2>3. CASE AppendPush      BY <2>3 DEF AppendPush
    <2>4. CASE AppendRelease   BY <2>4 DEF AppendRelease
    <2>5. CASE AppendSetFlag   BY <2>5 DEF AppendSetFlag
    <2>6. CASE AppendNotify    BY <2>6 DEF AppendNotify, Notify
    <2>7. CASE DtorBegin       BY <2>7 DEF DtorBegin
    <2>8. CASE DtorCheck       BY <2>8 DEF DtorCheck
    <2>9. CASE DtorKickFlag    BY <2>9 DEF DtorKickFlag
    <2>10. CASE DtorKickNotify BY <2>10 DEF DtorKickNotify, Notify
    <2>11. CASE DtorQuit       BY <2>11 DEF DtorQuit
    <2>12. CASE DtorQuitFlag   BY <2>12 DEF DtorQuitFlag
    <2>13. CASE DtorQuitNotify BY <2>13 DEF DtorQuitNotify, Notify
    <2>14. CASE DtorJoin       BY <2>14 DEF DtorJoin
    <2> QED
      BY <1>1, <2>1, <2>2, <2>3, <2>4, <2>5, <2>6, <2>7, <2>8, <2>9, <2>10,
         <2>11, <2>12, <2>13, <2>14 DEF Owner
  <1>2. CASE Flusher
    <2>1. CASE LoopTest     BY <2>1 DEF LoopTest
    <2>2. CASE LoopWait     BY <2>2 DEF LoopWait
    <2>3. CASE FlushEmpty   BY <2>3 DEF FlushEmpty
    <2>4. CASE FlushClear   BY <2>4 DEF FlushClear
    <2>5. CASE FlushAcquire BY <2>5 DEF FlushAcquire
    <2>6. CASE FlushSwap    BY <2>6 DEF FlushSwap
    <2>7. CASE FlushRelease BY <2>7 DEF FlushRelease
    <2>8. CASE FlushWrite   BY <2>8 DEF FlushWrite
    <2>9. CASE FlushSync    BY <2>9 DEF FlushSync
    <2> QED
      BY <1>2, <2>1, <2>2, <2>3, <2>4, <2>5, <2>6, <2>7, <2>8, <2>9 DEF Flusher
  <1>3. CASE UNCHANGED vars
    BY <1>3 DEF vars
  <1> QED
    BY <1>1, <1>2, <1>3 DEF Next

(* The data part: a step moves slices between the four places on the way   *)
(* to the file and never changes their concatenation, except that a push   *)
(* adds the slice that append was called with.                             *)
LEMMA DataStep == IInv /\ [Next]_vars => NoSliceLost'
  <1> SUFFICES ASSUME IInv, [Next]_vars, good' PROVE
                 disk' \o buffer' \o batch' \o logs' = appended'
    BY DEF NoSliceLost
  <1>0. good' = good
    BY DEF Next, Owner, Flusher, vars, data, flags, Start, AppendAcquire, AppendPush,
        AppendRelease, AppendSetFlag, AppendNotify, DtorBegin, DtorCheck,
        DtorKickFlag, DtorKickNotify, DtorQuit, DtorQuitFlag, DtorQuitNotify, DtorJoin,
        LoopTest, LoopWait, FlushEmpty, FlushClear,
        FlushAcquire, FlushSwap, FlushRelease, FlushWrite, FlushSync
  <1>1. disk \o buffer \o batch \o logs = appended
    BY <1>0 DEF IInv, NoSliceLost
  <1>2. /\ disk \in Seq(Slices) /\ buffer \in Seq(Slices)
        /\ batch \in Seq(Slices) /\ logs \in Seq(Slices)
        /\ disk \o buffer \in Seq(Slices)
        /\ disk \o buffer \o batch \in Seq(Slices)
    BY DEF IInv, TypeOK
  <1>3. CASE AppendPush
    <2>1. PICK slice \in Slices : /\ logs' = Append(logs, slice)
                                  /\ appended' = Append(appended, slice)
      BY <1>3 DEF AppendPush
    <2>2. (disk \o buffer \o batch) \o Append(logs, slice)
            = Append((disk \o buffer \o batch) \o logs, slice)
      BY <1>2, ConcatAppend
    <2> QED
      BY <1>1, <1>3, <2>1, <2>2 DEF AppendPush
  <1>4. CASE FlushSwap
    <2>1. batch = <<>>
      BY <1>4 DEF FlushSwap, IInv, BatchInv
    <2>2. (disk \o buffer) \o <<>> = disk \o buffer
      BY <1>2, ConcatEmptySeq
    <2>3. ((disk \o buffer) \o logs) \o <<>> = (disk \o buffer) \o logs
      BY <1>2, ConcatEmptySeq, ConcatProperties
    <2> QED
      BY <1>1, <1>4, <2>1, <2>2, <2>3 DEF FlushSwap
  <1>5. CASE FlushWrite
    <2>1. batch # <<>> /\ buffer' = Append(buffer, Head(batch)) /\ batch' = Tail(batch)
          /\ disk' = disk /\ logs' = logs /\ appended' = appended
      BY <1>0, <1>5 DEF FlushWrite
    <2>2. Head(batch) \in Slices /\ Tail(batch) \in Seq(Slices)
      BY <1>2, <2>1, HeadTailProperties
    <2>3. disk \o Append(buffer, Head(batch)) = Append(disk \o buffer, Head(batch))
      BY <1>2, <2>2, ConcatAppend
    <2>4. Append(disk \o buffer, Head(batch)) \o Tail(batch) = (disk \o buffer) \o batch
      BY <1>2, <2>1, ConcatShift
    <2> QED
      BY <1>1, <2>1, <2>3, <2>4
  <1>6. CASE FlushSync \/ DtorJoin
    <2>1. disk' = disk \o buffer /\ buffer' = <<>> /\ batch' = batch
          /\ logs' = logs /\ appended' = appended
      BY <1>6 DEF FlushSync, DtorJoin
    <2>2. (disk \o buffer) \o <<>> = disk \o buffer
      BY <1>2, ConcatEmptySeq
    <2> QED
      BY <1>1, <2>1, <2>2
  <1>7. CASE UNCHANGED data
    BY <1>1, <1>7 DEF data
  <1>8. UNCHANGED data \/ AppendPush \/ FlushSwap \/ FlushWrite \/ FlushSync \/ DtorJoin
    BY DEF Next, Owner, Flusher, vars, data, flags, Start, AppendAcquire,
        AppendRelease, AppendSetFlag, AppendNotify, DtorBegin, DtorCheck,
        DtorKickFlag, DtorKickNotify, DtorQuit, DtorQuitFlag, DtorQuitNotify,
        LoopTest, LoopWait, FlushEmpty, FlushClear, FlushAcquire, FlushRelease
  <1> QED
    BY <1>3, <1>4, <1>5, <1>6, <1>7, <1>8

(* IInv holds in every reachable state of LogQueue.                        *)
THEOREM Inductive == Spec => []IInv
  <1>1. IInv /\ [Next]_vars => IInv'
    BY TypeStep, ControlStep, DataStep DEF IInv
  <1> QED
    BY InitIInv, <1>1, PTL DEF Spec

-----------------------------------------------------------------------------
(* The properties the runs check, for every value of the constants.        *)

(* Each variable keeps its type.                                           *)
THEOREM TypeCorrect == Spec => []TypeOK
  BY Inductive, PTL DEF IInv

(* push and swap never overlap (LogQueue.cpp 10-14, 32-34).                *)
THEOREM MutualExclusion == Spec => []SwapExclusion
  <1>1. IInv => SwapExclusion
    BY DEF IInv, LockInv
  <1> QED
    BY Inductive, <1>1, PTL

(* No slice is lost, duplicated or reordered between append and the file.  *)
THEOREM NothingLost == Spec => []NoSliceLost
  BY Inductive, PTL DEF IInv

(* A sleeping log thread never misses the notification that follows a set. *)
THEOREM NotifyReachesSleeper == Spec => []NoMissedNotify
  BY Inductive, PTL DEF IInv

(* The destructor returns only with every slice in the file.               *)
THEOREM DurableAtClose == Spec => []ClosedIsDurable
  <1>1. IInv => ClosedIsDurable
    <2> SUFFICES ASSUME IInv, owner = "closed"
                 PROVE  /\ logs = <<>> /\ batch = <<>> /\ buffer = <<>>
                        /\ good => disk = appended
      BY DEF ClosedIsDurable
    <2>1. logs = <<>> /\ batch = <<>> /\ buffer = <<>>
      BY DEF IInv, DtorInv, BatchInv
    <2>2. ASSUME good PROVE disk = appended
      <3>1. disk \o <<>> \o <<>> \o <<>> = appended
        BY <2>1, <2>2 DEF IInv, NoSliceLost
      <3>2. disk \o <<>> = disk
        BY ConcatEmptySeq DEF IInv, TypeOK
      <3> QED
        BY <3>1, <3>2
    <2> QED
      BY <2>1, <2>2
  <1> QED
    BY Inductive, <1>1, PTL
=============================================================================
