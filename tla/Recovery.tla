------------------------------ MODULE Recovery ------------------------------
(***************************************************************************)
(* What the manager keeps on disk and how it starts again: the constructor *)
(* of Manager, recover, snapshot, parseLogLine (src/manager/Manager.h,     *)
(* Manager.cpp) and the constructor of LogQueue, which opens manager.log.  *)
(*                                                                         *)
(* The process may be killed between any two changes of a file.  The log   *)
(* thread is taken at its best: a line that is appended is in the stream   *)
(* at once (LogQueue.tla says when it is not).  A file is a sequence of    *)
(* lines, or Absent.  An operation of the running manager is one step; it  *)
(* writes the lines that Manager.cpp appends to the log for it.            *)
(***************************************************************************)
EXTENDS Naturals, Sequences, SequencesExt

CONSTANTS
    Workers, Aliases, NULL,
    MaxOps,       \* bound on the operations of the running manager
    MaxCrashes    \* bound on the crashes

VARIABLES
    pc,         \* where the process is; "down" when there is none
    stream,     \* log_file: "none", "failed", "file" or "unlinked"
    logFile, backup, snapshot,    \* manager.log, snapshot.backup, snapshot
    curLine,    \* cur_line
    appended,   \* LogQueue::count
    workers,    \* the connected workers
    pods,       \* the worker of each pod in the map, NULL if not there
    kept,       \* history: the pods the users have, and where
    ops, crashes

disk == <<logFile, backup, snapshot>>
memory == <<curLine, appended, workers, pods>>
vars == <<pc, stream, disk, memory, kept, ops, crashes>>

NoPods == [a \in Aliases |-> NULL]
Line(k, a, w) == [kind |-> k, alias |-> a, worker |-> w]
Absent == <<Line("absent", NULL, NULL)>>

Init ==
    /\ pc = "down" /\ stream = "none"
    /\ logFile = Absent /\ backup = Absent /\ snapshot = Absent
    /\ curLine = 0 /\ appended = 0 /\ workers = {} /\ pods = NoPods
    /\ kept = NoPods /\ ops = 0 /\ crashes = 0

Goto(from, to) == pc = from /\ pc' = to

\* LogQueue::append of these lines, up to log_file.flush().
Log(lines) ==
    /\ logFile' = IF stream = "file" THEN logFile \o lines ELSE logFile
    /\ appended' = appended + Len(lines)
    /\ curLine' = IF lines = <<>> THEN curLine ELSE appended'

(***************************************************************************)
(* The constructors.  When there is no manager.log the stream is opened    *)
(* twice, and the second open sets its failbit: it writes nothing more.    *)
(***************************************************************************)
OpenLog ==
    /\ Goto("down", "rename")
    /\ stream' = IF logFile = Absent THEN "failed" ELSE "file"
    /\ logFile' = IF logFile = Absent THEN <<>> ELSE logFile
    /\ UNCHANGED <<backup, snapshot, memory, kept, ops, crashes>>

RenameBackup ==
    /\ Goto("rename", "load")
    /\ snapshot' = IF backup = Absent THEN snapshot ELSE backup
    /\ backup' = Absent
    /\ UNCHANGED <<stream, logFile, memory, kept, ops, crashes>>

Kept(file, k) == {i \in DOMAIN file : file[i].kind = k}

\* std::stoi of a line that is not there throws, and nobody catches it.
LoadSnapshot ==
    /\ IF snapshot = <<>>
       THEN Goto("load", "terminated") /\ UNCHANGED <<curLine, workers, pods>>
       ELSE /\ Goto("load", "replay")
            /\ IF snapshot = Absent
               THEN UNCHANGED <<curLine, workers, pods>>
               ELSE /\ curLine' = snapshot[1].worker
                    /\ workers' = {snapshot[i].worker : i \in Kept(snapshot, "worker")}
                    /\ pods' = [a \in Aliases |->
                          IF \E i \in Kept(snapshot, "pod") : snapshot[i].alias = a
                          THEN LET i == CHOOSE i \in Kept(snapshot, "pod") : snapshot[i].alias = a
                               IN  snapshot[i].worker
                          ELSE NULL]
    /\ UNCHANGED <<stream, disk, appended, kept, ops, crashes>>

\* parseLogLine: emplace keeps the record that is there already.
ParseLogLine(ps, line) ==
    [ps EXCEPT ![line.alias] =
        CASE line.kind = "DSE Success" -> NULL
          [] line.kind = "CSE" -> IF @ = NULL THEN line.worker ELSE @
          [] OTHER -> @]

ReplayLog ==
    /\ Goto("replay", "fork")
    /\ pods' = FoldLeft(ParseLogLine, pods, SubSeq(logFile, curLine + 1, Len(logFile)))
    /\ UNCHANGED <<stream, disk, curLine, appended, workers, kept, ops, crashes>>

\* Every pod is forked on its worker; one whose worker is not known has a
\* null descriptor.  Whether FORK succeeds only decides alive_.
ForkAll ==
    /\ IF \E a \in Aliases : pods[a] \notin workers \cup {NULL}
       THEN Goto("fork", "terminated") /\ UNCHANGED <<logFile, appended, curLine>>
       ELSE /\ Goto("fork", "open")
            /\ LET known == SetToSeq({a \in Aliases : pods[a] # NULL})
               IN  Log(FlattenSeq([i \in DOMAIN known |->
                       <<Line("CSS", known[i], NULL), Line("CSE", known[i], pods[known[i]])>>]))
    /\ UNCHANGED <<stream, backup, snapshot, workers, pods, kept, ops, crashes>>

\* The lines the snapshot thread writes.
SnapshotLines ==
    LET ws == SetToSeq(workers)
        as == SetToSeq({a \in Aliases : pods[a] # NULL})
    IN  <<Line("cur_line", NULL, curLine)>>
        \o [i \in DOMAIN ws |-> Line("worker", NULL, ws[i])]
        \o <<Line("WorkerDescriptorEND", NULL, NULL)>>
        \o [i \in DOMAIN as |-> Line("pod", as[i], pods[as[i]])]
        \o <<Line("ServiceDescriptorEND", NULL, NULL)>>

OpenBackup ==
    /\ Goto("open", "write") /\ backup' = <<>>
    /\ UNCHANGED <<stream, logFile, snapshot, memory, kept, ops, crashes>>

WriteLine ==
    /\ pc = "write" /\ Len(backup) < Len(SnapshotLines)
    /\ backup' = Append(backup, SnapshotLines[Len(backup) + 1])
    /\ UNCHANGED <<pc, stream, logFile, snapshot, memory, kept, ops, crashes>>

PublishSnapshot ==
    /\ Len(backup) = Len(SnapshotLines)
    /\ Goto("write", "remove")
    /\ snapshot' = backup /\ backup' = Absent
    /\ UNCHANGED <<stream, logFile, memory, kept, ops, crashes>>

\* The stream goes on writing to the file whose name is gone.
RemoveLog ==
    /\ Goto("remove", "serving")
    /\ logFile' = Absent
    /\ stream' = IF stream = "file" THEN "unlinked" ELSE stream
    /\ curLine' = 0
    /\ UNCHANGED <<backup, snapshot, appended, workers, pods, kept, ops, crashes>>

(***************************************************************************)
(* The running manager.                                                    *)
(***************************************************************************)
Serving == pc = "serving" /\ ops < MaxOps /\ ops' = ops + 1

ConnectToWorker(w) ==
    /\ Serving /\ w \notin workers /\ workers' = workers \cup {w}
    /\ UNCHANGED <<pc, stream, disk, curLine, appended, pods, kept, crashes>>

Place(a, w) == pods' = [pods EXCEPT ![a] = w] /\ kept' = [kept EXCEPT ![a] = w]

CreatePod(a, w) ==
    /\ Serving /\ w \in workers /\ pods[a] = NULL
    /\ Place(a, w)
    /\ Log(<<Line("CSS", a, NULL), Line("CSE", a, w)>>)
    /\ UNCHANGED <<pc, stream, backup, snapshot, workers, crashes>>

StopPod(a) ==
    /\ Serving /\ pods[a] # NULL
    /\ Place(a, NULL)
    /\ Log(<<Line("DSS", a, NULL), Line("DSE Success", a, NULL)>>)
    /\ UNCHANGED <<pc, stream, backup, snapshot, workers, crashes>>

\* The old copy is shut down after the new one was started.
TransferPod(a, w) ==
    /\ Serving /\ pods[a] # NULL /\ w \in workers \ {pods[a]}
    /\ Place(a, w)
    /\ Log(<<Line("CSS", a, NULL), Line("CSE", a, w),
             Line("DSS", a, NULL), Line("DSE Success", a, NULL)>>)
    /\ UNCHANGED <<pc, stream, backup, snapshot, workers, crashes>>

\* The process is killed, or terminates on an uncaught exception.
Crash ==
    /\ pc # "down" /\ crashes < MaxCrashes /\ crashes' = crashes + 1
    /\ pc' = "down" /\ stream' = "none"
    /\ curLine' = 0 /\ appended' = 0 /\ workers' = {} /\ pods' = NoPods
    /\ UNCHANGED <<disk, kept, ops>>

Boot ==
    \/ OpenLog \/ RenameBackup \/ LoadSnapshot \/ ReplayLog \/ ForkAll
    \/ OpenBackup \/ WriteLine \/ PublishSnapshot \/ RemoveLog

Next ==
    \/ Boot \/ Crash
    \/ \E w \in Workers : ConnectToWorker(w)
    \/ \E a \in Aliases : StopPod(a) \/ \E w \in Workers : CreatePod(a, w) \/ TransferPod(a, w)

Spec == Init /\ [][Next]_vars

-----------------------------------------------------------------------------
(***************************************************************************)
(* Manager.h 208: recovery only has to put the services back where they    *)
(* were.  When the manager serves again every pod a user had is in its map *)
(* on the worker it was on.                                                *)
(***************************************************************************)
PodsPutBack == pc = "serving" => \A a \in Aliases : kept[a] # NULL => pods[a] = kept[a]
=============================================================================
