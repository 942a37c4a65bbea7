------------------------------ MODULE LogQueue ------------------------------
(***************************************************************************)
(* The manager's asynchronous request log (src/manager/LogQueue.h,         *)
(* LogQueue.cpp).  Two threads share one object:                           *)
(*                                                                         *)
(*   owner    the manager thread: it constructs the queue, starts the log  *)
(*            thread, appends slices and finally runs the destructor;      *)
(*   flusher  log_thread_, which runs LoopFlush: swap the queue out under  *)
(*            the spin lock, write the batch, sleep when there is nothing. *)
(*                                                                         *)
(* Every access to a shared object (swp_flag, flush_flag, logs_, quit) is  *)
(* a step of its own.  Two accesses are not synchronised in the code:      *)
(* logs_.empty() in flush() and in the destructor, and quit.  Each is a    *)
(* read of one machine word, which sees the word before or after a         *)
(* concurrent write; the interleaving of the steps below gives both.       *)
(*                                                                         *)
(* atomic_flag::wait(false) returns once it reads TRUE; it blocks only     *)
(* while the flag is FALSE (the futex re-checks the value), is woken by a  *)
(* notification, and then reads the flag again.                            *)
(***************************************************************************)
EXTENDS Naturals, Sequences

CONSTANTS
    Slices,      \* the slices that may be appended (their text is abstract)
    MaxAppends   \* bound on the number of calls of append

ASSUME SlicesAssumption == Slices # {}
ASSUME MaxAppendsAssumption == MaxAppends \in Nat

VARIABLES
    logs,        \* logs_, the shared list
    swp_flag,    \* the spin lock around logs_
    flush_flag,  \* "there is work", what the log thread waits on
    quit,        \* set by the destructor
    count,       \* number of appends, returned by append
    owner,       \* where the manager thread is
    flusher,     \* where the log thread is
    batch,       \* flush()'s local list
    good,        \* log_file.good(): no failbit after the constructor
    buffer,      \* what was written to log_file and not flushed
    disk,        \* what this queue put into the file
    appended     \* history: every slice append was called with, in order

vars == <<logs, swp_flag, flush_flag, quit, count, owner, flusher, batch,
          good, buffer, disk, appended>>

\* The queue's data, and the flags of the two threads, for UNCHANGED.
data  == <<logs, batch, buffer, disk, appended>>
flags == <<swp_flag, flush_flag, quit>>

OwnerPC == {"constructed", "idle",
            "push", "release", "setFlag", "notify",            \* append
            "dtor", "kickFlag", "kickNotify",                  \* ~LogQueue
            "quit", "quitFlag", "quitNotify", "join", "closed"}

FlusherPC == {"unborn", "loop", "empty", "clear", "wait", "blocked",
              "lock", "swap", "unlock", "write", "finished"}

(***************************************************************************)
(* The constructor.  For a path that does not exist it opens log_file and  *)
(* then opens it a second time; basic_ofstream::open on an open file sets  *)
(* failbit, and every later insertion is dropped although is_open() holds. *)
(***************************************************************************)
Init ==
    /\ \E pathExists \in BOOLEAN : good = pathExists
    /\ logs = <<>> /\ batch = <<>> /\ buffer = <<>> /\ disk = <<>>
    /\ appended = <<>> /\ count = 0
    /\ swp_flag = FALSE /\ flush_flag = FALSE /\ quit = FALSE
    /\ owner = "constructed" /\ flusher = "unborn"

(***************************************************************************)
(* The manager thread.                                                     *)
(***************************************************************************)
Start ==
    /\ owner = "constructed"
    /\ owner' = "idle"
    /\ flusher' = "loop"
    /\ UNCHANGED <<data, flags, count, good>>

\* while (swp_flag.test_and_set()): the step that leaves the spin loop.
AppendAcquire ==
    /\ owner = "idle" /\ count < MaxAppends
    /\ ~swp_flag
    /\ swp_flag' = TRUE
    /\ owner' = "push"
    /\ UNCHANGED <<data, flush_flag, quit, count, flusher, good>>

AppendPush ==
    /\ owner = "push"
    /\ \E slice \in Slices :
          /\ logs' = Append(logs, slice)
          /\ appended' = Append(appended, slice)
    /\ owner' = "release"
    /\ UNCHANGED <<batch, buffer, disk, flags, count, flusher, good>>

AppendRelease ==
    /\ owner = "release"
    /\ swp_flag' = FALSE
    /\ owner' = "setFlag"
    /\ UNCHANGED <<data, flush_flag, quit, count, flusher, good>>

AppendSetFlag ==
    /\ owner = "setFlag"
    /\ flush_flag' = TRUE
    /\ owner' = "notify"
    /\ UNCHANGED <<data, swp_flag, quit, count, flusher, good>>

\* notify_one / notify_all on flush_flag: the log thread is its only waiter.
Notify == flusher' = IF flusher = "blocked" THEN "wait" ELSE flusher

\* Mutant: append sets the flag and forgets the notification.
AppendNoNotify ==
    /\ owner = "notify"
    /\ count' = count + 1
    /\ owner' = "idle"
    /\ UNCHANGED <<data, flags, flusher, good>>

\* Mutant: append counts a call twice.
AppendCountTwice ==
    /\ owner = "notify"
    /\ Notify
    /\ count' = count + 2
    /\ owner' = "idle"
    /\ UNCHANGED <<data, flags, good>>

AppendNotify ==
    /\ owner = "notify"
    /\ Notify
    /\ count' = count + 1
    /\ owner' = "idle"
    /\ UNCHANGED <<data, flags, good>>

\* The destructor's loop: while (!logs_.empty()) kick the log thread.
DtorBegin ==
    /\ owner = "idle"
    /\ owner' = "dtor"
    /\ UNCHANGED <<data, flags, count, flusher, good>>

\* Mutant: the destructor does not wait for the queue to drain.
DtorNoWait ==
    /\ owner = "dtor"
    /\ owner' = "quit"
    /\ UNCHANGED <<data, flags, count, flusher, good>>

DtorCheck ==
    /\ owner = "dtor"
    /\ owner' = IF logs = <<>> THEN "quit" ELSE "kickFlag"
    /\ UNCHANGED <<data, flags, count, flusher, good>>

\* Mutant: the loop notifies and does not set the flag.
DtorKickNoFlag ==
    /\ owner = "kickFlag"
    /\ owner' = "kickNotify"
    /\ UNCHANGED <<data, flags, count, flusher, good>>

DtorKickFlag ==
    /\ owner = "kickFlag"
    /\ flush_flag' = TRUE
    /\ owner' = "kickNotify"
    /\ UNCHANGED <<data, swp_flag, quit, count, flusher, good>>

DtorKickNotify ==
    /\ owner = "kickNotify"
    /\ Notify
    /\ owner' = "dtor"
    /\ UNCHANGED <<data, flags, count, good>>

DtorQuit ==
    /\ owner = "quit"
    /\ quit' = TRUE
    /\ owner' = "quitFlag"
    /\ UNCHANGED <<data, swp_flag, flush_flag, count, flusher, good>>

DtorQuitFlag ==
    /\ owner = "quitFlag"
    /\ flush_flag' = TRUE
    /\ owner' = "quitNotify"
    /\ UNCHANGED <<data, swp_flag, quit, count, flusher, good>>

DtorQuitNotify ==
    /\ owner = "quitNotify"
    /\ Notify
    /\ owner' = "join"
    /\ UNCHANGED <<data, flags, count, good>>

\* join() returns, close() flushes what the stream still holds.
DtorJoin ==
    /\ owner = "join" /\ flusher = "finished"
    /\ owner' = "closed"
    /\ disk' = disk \o buffer
    /\ buffer' = <<>>
    /\ UNCHANGED <<logs, batch, appended, flags, count, flusher, good>>

(***************************************************************************)
(* The log thread.                                                         *)
(***************************************************************************)
LoopTest ==
    /\ flusher = "loop"
    /\ flusher' = IF quit THEN "finished" ELSE "empty"
    /\ UNCHANGED <<data, flags, count, owner, good>>

\* The unlocked logs_.empty() at the head of flush().
FlushEmpty ==
    /\ flusher = "empty"
    /\ flusher' = IF logs = <<>> THEN "clear" ELSE "lock"
    /\ UNCHANGED <<data, flags, count, owner, good>>

FlushClear ==
    /\ flusher = "clear"
    /\ flush_flag' = FALSE
    /\ flusher' = "wait"
    /\ UNCHANGED <<data, swp_flag, quit, count, owner, good>>

LoopWait ==
    /\ flusher = "wait"
    /\ flusher' = IF flush_flag THEN "loop" ELSE "blocked"
    /\ UNCHANGED <<data, flags, count, owner, good>>

\* Mutant: the log thread enters without testing the lock.
FlushNoSpin ==
    /\ flusher = "lock"
    /\ swp_flag' = TRUE
    /\ flusher' = "swap"
    /\ UNCHANGED <<data, flush_flag, quit, count, owner, good>>

FlushAcquire ==
    /\ flusher = "lock"
    /\ ~swp_flag
    /\ swp_flag' = TRUE
    /\ flusher' = "swap"
    /\ UNCHANGED <<data, flush_flag, quit, count, owner, good>>

\* Mutant: the list is copied instead of swapped.
FlushCopy ==
    /\ flusher = "swap"
    /\ batch' = logs
    /\ flusher' = "unlock"
    /\ UNCHANGED <<logs, buffer, disk, appended, flags, count, owner, good>>

FlushSwap ==
    /\ flusher = "swap"
    /\ batch' = logs
    /\ logs' = <<>>
    /\ flusher' = "unlock"
    /\ UNCHANGED <<buffer, disk, appended, flags, count, owner, good>>

FlushRelease ==
    /\ flusher = "unlock"
    /\ swp_flag' = FALSE
    /\ flusher' = "write"
    /\ UNCHANGED <<data, flush_flag, quit, count, owner, good>>

\* log_file << log.content_: a stream that is not good drops it.
FlushWrite ==
    /\ flusher = "write" /\ batch # <<>>
    /\ buffer' = IF good THEN Append(buffer, Head(batch)) ELSE buffer
    /\ batch' = Tail(batch)
    /\ UNCHANGED <<logs, disk, appended, flags, count, owner, flusher, good>>

FlushSync ==
    /\ flusher = "write" /\ batch = <<>>
    /\ disk' = disk \o buffer
    /\ buffer' = <<>>
    /\ flusher' = "loop"
    /\ UNCHANGED <<logs, batch, appended, flags, count, owner, good>>

-----------------------------------------------------------------------------
Owner == \/ Start
         \/ AppendAcquire \/ AppendPush \/ AppendRelease
         \/ AppendSetFlag \/ AppendNotify
         \/ DtorBegin \/ DtorCheck \/ DtorKickFlag \/ DtorKickNotify
         \/ DtorQuit \/ DtorQuitFlag \/ DtorQuitNotify \/ DtorJoin

Flusher == \/ LoopTest \/ LoopWait
           \/ FlushEmpty \/ FlushClear
           \/ FlushAcquire \/ FlushSwap \/ FlushRelease
           \/ FlushWrite \/ FlushSync

Next == Owner \/ Flusher

Spec == Init /\ [][Next]_vars

\* What the manager thread is inside of it finishes; whether it ever calls
\* append again or destroys the queue is up to the program.
OwnerStep == Owner /\ owner # "idle"

\* The operating system schedules a thread that can run.
FairSpec == Spec /\ WF_vars(OwnerStep) /\ WF_vars(Flusher)

-----------------------------------------------------------------------------
TypeOK ==
    /\ logs \in Seq(Slices) /\ batch \in Seq(Slices)
    /\ buffer \in Seq(Slices) /\ disk \in Seq(Slices)
    /\ appended \in Seq(Slices)
    /\ swp_flag \in BOOLEAN /\ flush_flag \in BOOLEAN /\ quit \in BOOLEAN
    /\ good \in BOOLEAN
    /\ count \in 0..MaxAppends
    /\ owner \in OwnerPC /\ flusher \in FlusherPC

\* The critical sections around logs_ (append lines 10-14, flush 32-34).
OwnerHolds == owner \in {"push", "release"}
FlusherHolds == flusher \in {"swap", "unlock"}

(***************************************************************************)
(* logs_ is touched by one thread at a time: push and swap are atomic in   *)
(* this model because the spin lock keeps them apart (LogQueue.cpp 10-14   *)
(* and 32-34).                                                             *)
(***************************************************************************)
SwapExclusion == ~(OwnerHolds /\ FlusherHolds)

(***************************************************************************)
(* Through a good stream every slice is, in the order of the calls, in     *)
(* exactly one place on its way to the file: an append that races the      *)
(* swap (LogQueue.cpp 12 and 33) neither loses nor duplicates nor          *)
(* reorders a slice.                                                       *)
(***************************************************************************)
NoSliceLost == good => disk \o buffer \o batch \o logs = appended

(***************************************************************************)
(* The log thread is never asleep in wait(false) with the flag set, except *)
(* between a test_and_set and the notification that follows it: the        *)
(* wake-up of lines 17-18, 75-76 and 81-82 is never missed by a thread     *)
(* that is already waiting.                                                *)
(***************************************************************************)
NoMissedNotify ==
    flusher = "blocked" /\ flush_flag
        => owner \in {"notify", "kickNotify", "quitNotify"}

(***************************************************************************)
(* Once the destructor has returned, nothing is left in memory and, if the *)
(* stream was good, the file holds every slice ever appended (comment at   *)
(* LogQueue.cpp 73).                                                       *)
(***************************************************************************)
ClosedIsDurable ==
    owner = "closed" =>
        /\ logs = <<>> /\ batch = <<>> /\ buffer = <<>>
        /\ good => disk = appended

(***************************************************************************)
(* The destructor's loop (LogQueue.cpp 74-77) always ends: as long as the  *)
(* queue is not empty it keeps setting the flag, which makes up for any    *)
(* wake-up lost before.                                                    *)
(***************************************************************************)
DtorDrains == owner = "dtor" ~> owner = "quit"

(***************************************************************************)
(* LogQueue.cpp 16: an append notifies the log thread if it is not active, *)
(* so a queued slice leaves the queue.                                     *)
(***************************************************************************)
QueuedIsFlushed == (logs # <<>>) ~> (logs = <<>>)
=============================================================================
