----------------------------- MODULE RpcChannel -----------------------------
(***************************************************************************)
(* A client channel of the RPC layer and the sessions on it                *)
(* (src/Common/RpcClientChannel.h, Session.h, RpcClientController.h).      *)
(*                                                                         *)
(* Several threads call Session::run, each on a session of its own; the    *)
(* sessions share one connection.  A message carries no usable number      *)
(* (sequence_ is always 0 and never compared), so what pairs an answer     *)
(* with its call is the mutex, and that a call which gives up closes the   *)
(* socket on which its answer may still arrive.  A call is numbered here   *)
(* only to state that.                                                     *)
(*                                                                         *)
(* The peer, the sockets and Buffer::readToBuffer are external.  What a    *)
(* read that fails returns is not fixed by this repository: 0 ends the     *)
(* loop of waitResponse, -1, stored in a size_t, makes it read again.      *)
(*                                                                         *)
(* After every answer the client writes one more byte, a space; 0 stands   *)
(* for it and for other bytes that are not a whole request, and for the    *)
(* error response to them.  Whether the peer's event loop keeps such bytes *)
(* until a request has come, as Buffer does for answers on this side, or   *)
(* hands them to rpcWriteCallBack, which answers whatever it is given      *)
(* (RPCServer.h 116-192), is the library's choice: AnswersStray.           *)
(***************************************************************************)
EXTENDS Naturals, Sequences

CONSTANTS
    Callers,      \* threads that call Session::run
    NULL,
    MaxCalls,     \* bound on the calls
    MaxSockets,   \* bound on the sockets the channel opens
    AnswersStray  \* the peer may answer bytes that are not a whole request

ASSUME CallersAssumption == NULL \notin Callers
ASSUME LimitsAssumption == MaxCalls \in Nat /\ MaxSockets \in Nat \ {0}
ASSUME PeerAssumption == AnswersStray \in BOOLEAN

VARIABLES
    mtx,         \* the thread that holds the channel's mutex
    connected,
    sock,        \* sockfd
    open,        \* the sockets the client has not closed
    closed,      \* the sockets the peer has closed
    asked,       \* by socket: requests the peer has not answered
    inbox,       \* by socket: answers the client has not read
    pc,          \* by thread: where it is in run
    req,         \* by thread: the number of its call
    output,      \* by thread: the response message, 0 when it is empty
    failed,      \* by thread: RpcClientController::failed of its session
    result,      \* by thread: what run returned, NULL for a failure
    eintr,       \* by thread: errno = EINTR
    armed,       \* the process's alarm is running
    calls        \* counter of the bound MaxCalls

net  == <<asked, inbox, closed>>
chan == <<mtx, connected, sock, open>>
vars == <<chan, net, pc, req, output, failed, result, eintr, armed, calls>>

Sockets == 1..MaxSockets

\* The constructor has connected the first socket, or failed to.
Init ==
    /\ connected \in BOOLEAN
    /\ mtx = NULL /\ sock = 1 /\ open = {s \in {1} : connected} /\ closed = {}
    /\ asked = [s \in Sockets |-> <<>>] /\ inbox = [s \in Sockets |-> <<>>]
    /\ pc = [c \in Callers |-> "idle"] /\ req = [c \in Callers |-> 0]
    /\ output = [c \in Callers |-> 0] /\ failed = [c \in Callers |-> FALSE]
    /\ result = [c \in Callers |-> NULL] /\ eintr = [c \in Callers |-> FALSE]
    /\ armed = FALSE /\ calls = 0

Goto(c, from, to) == pc[c] = from /\ pc' = [pc EXCEPT ![c] = to]

SetDisconnected == connected' = FALSE /\ open' = open \ {sock} /\ UNCHANGED sock

(***************************************************************************)
(* Session::run and CallMethod.                                            *)
(***************************************************************************)
Run(c) ==
    /\ calls < MaxCalls /\ calls' = calls + 1
    /\ Goto(c, "idle", "lock")
    /\ req' = [req EXCEPT ![c] = calls + 1]
    /\ output' = [output EXCEPT ![c] = 0]
    /\ UNCHANGED <<chan, net, failed, result, eintr, armed>>

\* "Not Connect": the lock is taken and given back.
CallRefused(c) ==
    /\ mtx = NULL /\ ~connected
    /\ Goto(c, "lock", "return")
    /\ failed' = [failed EXCEPT ![c] = TRUE]
    /\ UNCHANGED <<chan, net, req, output, result, eintr, armed, calls>>

\* setAlarm starts the process's alarm anew; unsetAlarm does not stop it.
CallMethod(c) ==
    /\ mtx = NULL /\ connected
    /\ mtx' = c
    /\ Goto(c, "lock", "send")
    /\ failed' = [failed EXCEPT ![c] = FALSE]
    /\ armed' = TRUE
    /\ UNCHANGED <<connected, sock, open, net, req, output, result, eintr, calls>>

\* The lock_guard's end on a path that has called SetFailed.
Fails(c) ==
    /\ failed' = [failed EXCEPT ![c] = TRUE]
    /\ mtx' = NULL
    /\ UNCHANGED <<net, req, output, result, eintr, armed, calls>>

\* "Message Pack Error": the only failure that leaves the channel connected.
PackFails(c) ==
    /\ Goto(c, "send", "return") /\ Fails(c)
    /\ UNCHANGED <<connected, sock, open>>

(***************************************************************************)
(* sendMessages.  A write may take all that is left or a part of it ("rest"*)
(* is the loop at pos > 0; the part is bytes that are no request yet).     *)
(* A write that fails subtracts 1 from pos: only at pos = 0 is that the -1 *)
(* the code looks for.  After a partial write a failure that lasts walks   *)
(* pos down to it; one that passes makes the loop go on one byte too early *)
(* ("again"), and the request has a byte twice.  "split": a reconnect has  *)
(* replaced the socket between two writes.                                 *)
(***************************************************************************)
Sent(x) == asked' = [asked EXCEPT ![sock] = IF sock \in closed THEN @ ELSE Append(@, x)]

SendMessages(c) ==
    /\ sock \in open
    /\ Goto(c, "send", "wait") /\ Sent(req[c])
    /\ UNCHANGED <<chan, inbox, closed, req, output, failed, result, eintr, armed, calls>>

SendPart(c) ==
    /\ sock \in open
    /\ Goto(c, "send", "rest") /\ Sent(0)
    /\ UNCHANGED <<chan, inbox, closed, req, output, failed, result, eintr, armed, calls>>

SendRepeats(c) ==
    /\ Goto(c, "rest", "again")
    /\ \E e \in BOOLEAN : eintr' = [eintr EXCEPT ![c] = e]
    /\ UNCHANGED <<chan, net, req, output, failed, result, armed, calls>>

\* The rest completes the request, unless it goes to another socket or the
\* doubled byte has spoilt the mark that ends the message.
SendRest(c) ==
    /\ sock \in open
    /\ \/ Goto(c, "rest", "wait") /\ Sent(req[c])
       \/ Goto(c, "again", "wait") /\ \E x \in {0, req[c]} : Sent(x)
       \/ Goto(c, "split", "wait") /\ Sent(0)
    /\ UNCHANGED <<chan, inbox, closed, req, output, failed, result, eintr, armed, calls>>

SendFails(c) ==
    /\ \E at \in {"send", "rest", "again", "split"} : Goto(c, at, "return")
    /\ failed' = [failed EXCEPT ![c] = TRUE]
    /\ mtx' = NULL /\ SetDisconnected
    /\ \E e \in BOOLEAN : eintr' = [eintr EXCEPT ![c] = e]
    /\ UNCHANGED <<net, req, output, result, armed, calls>>

(***************************************************************************)
(* waitResponse.  The buffer is a local variable: what it holds beyond the *)
(* first answer is thrown away.  errno is looked at whatever the last read *)
(* returned: an EINTR left from before turns a complete answer into a      *)
(* timeout.                                                                *)
(***************************************************************************)
ReadAnswer(c) ==
    /\ pc[c] = "wait" /\ sock \in open /\ inbox[sock] # <<>>
    /\ \E n \in 1..Len(inbox[sock]) :
          inbox' = [inbox EXCEPT ![sock] = SubSeq(@, n + 1, Len(@))]
    /\ IF eintr[c]
       THEN /\ pc' = [pc EXCEPT ![c] = "return"] /\ mtx' = NULL
            /\ failed' = [failed EXCEPT ![c] = TRUE] /\ SetDisconnected
            /\ UNCHANGED output
       ELSE /\ pc' = [pc EXCEPT ![c] = "space"]
            /\ output' = [output EXCEPT ![c] = Head(inbox[sock])]
            /\ UNCHANGED <<failed, chan>>
    /\ UNCHANGED <<asked, closed, req, result, eintr, armed, calls>>

\* The byte after the answer; nobody looks at what this write returns.
WriteSpace(c) ==
    /\ Goto(c, "space", "return")
    /\ mtx' = NULL
    /\ IF sock \in open THEN Sent(0) ELSE UNCHANGED asked
    /\ UNCHANGED <<connected, sock, open, inbox, closed, req, output, failed, result,
                   eintr, armed, calls>>

\* The read returns 0: "RPC TIMEOUT" or "DisConnected".
ReadEnd(c) ==
    /\ sock \notin open \/ (sock \in closed /\ inbox[sock] = <<>>)
    /\ Goto(c, "wait", "return") /\ Fails(c) /\ SetDisconnected

\* Mutant: a call that times out leaves the socket open.
TimeoutKeepsSocket(c) ==
    /\ Goto(c, "interrupted", "return") /\ Fails(c)
    /\ UNCHANGED <<connected, sock, open>>

\* A read that a signal has interrupted, when readToBuffer returns 0.
Timeout(c) == Goto(c, "interrupted", "return") /\ Fails(c) /\ SetDisconnected

\* The same when it returns -1.
ReadAgain(c) ==
    /\ Goto(c, "interrupted", "wait")
    /\ UNCHANGED <<chan, net, req, output, failed, result, eintr, armed, calls>>

\* Mutant: run does not look at the controller.
ReturnIgnoresFailure(c) ==
    /\ Goto(c, "return", "idle")
    /\ result' = [result EXCEPT ![c] = output[c]]
    /\ UNCHANGED <<chan, net, req, output, failed, eintr, armed, calls>>

\* run returns the output unless the controller says the call has failed.
Return(c) ==
    /\ Goto(c, "return", "idle")
    /\ result' = [result EXCEPT ![c] = IF failed[c] THEN NULL ELSE output[c]]
    /\ UNCHANGED <<chan, net, req, output, failed, eintr, armed, calls>>

\* Mutant: the new socket is kept in a local variable.
ReconnectForgets(c) ==
    /\ pc[c] = "idle" /\ req[c] # 0 /\ result[c] = NULL
    /\ sock < MaxSockets
    /\ connected' = TRUE /\ open' = open \cup {sock + 1}
    /\ UNCHANGED <<mtx, sock, net, pc, req, output, failed, result, eintr, armed, calls>>

\* Session::reconnect, by a thread whose last call has failed.  It takes no
\* lock, and does not close the socket it replaces.
Reconnect(c) ==
    /\ pc[c] = "idle" /\ req[c] # 0 /\ result[c] = NULL
    /\ sock < MaxSockets /\ sock' = sock + 1
    /\ connected' \in BOOLEAN
    /\ open' = IF connected' THEN open \cup {sock'} ELSE open
    /\ pc' = [d \in Callers |-> IF pc[d] \in {"rest", "again"} THEN "split" ELSE pc[d]]
    /\ UNCHANGED <<mtx, net, req, output, failed, result, eintr, armed, calls>>

(***************************************************************************)
(* The process's SIGALRM goes to one of its threads: the one blocked in    *)
(* read, one blocked in a system call outside the channel, or another.     *)
(***************************************************************************)
Blocked(c) == pc[c] = "wait" /\ inbox[sock] = <<>>

Alarm(t) ==
    /\ armed /\ armed' = FALSE
    /\ eintr' = [c \in Callers |-> eintr[c] \/ (c = t /\ (Blocked(c) \/ pc[c] = "idle"))]
    /\ pc' = [c \in Callers |-> IF c = t /\ Blocked(c) THEN "interrupted" ELSE pc[c]]
    /\ UNCHANGED <<chan, net, req, output, failed, result, calls>>

\* Another system call of the thread has failed in another way.
ErrnoOverwritten(c) ==
    /\ pc[c] = "idle" /\ eintr[c] /\ eintr' = [eintr EXCEPT ![c] = FALSE]
    /\ UNCHANGED <<chan, net, pc, req, output, failed, result, armed, calls>>

(***************************************************************************)
(* The peer answers in the order it was asked, or closes the connection.   *)
(* Bytes that are no request stay in front of the next one and go with it, *)
(* or get an answer of their own.                                          *)
(***************************************************************************)
PeerAnswers(s) ==
    /\ s \notin closed
    /\ \E i \in 1..Len(asked[s]) :
          /\ asked[s][i] # 0 \/ AnswersStray
          /\ \A j \in 1..(i - 1) : asked[s][j] = 0
          /\ asked' = [asked EXCEPT ![s] = SubSeq(@, i + 1, Len(@))]
          /\ inbox' = [inbox EXCEPT ![s] = Append(@, asked[s][i])]
    /\ UNCHANGED <<chan, closed, pc, req, output, failed, result, eintr, armed, calls>>

PeerCloses(s) ==
    /\ s \in open \ closed /\ closed' = closed \cup {s}
    /\ asked' = [asked EXCEPT ![s] = <<>>]
    /\ UNCHANGED <<chan, inbox, pc, req, output, failed, result, eintr, armed, calls>>

-----------------------------------------------------------------------------
Step(c) ==
    \/ CallRefused(c) \/ CallMethod(c) \/ PackFails(c)
    \/ SendMessages(c) \/ SendPart(c) \/ SendRepeats(c) \/ SendRest(c) \/ SendFails(c)
    \/ ReadAnswer(c) \/ WriteSpace(c) \/ ReadEnd(c) \/ Timeout(c) \/ ReadAgain(c) \/ Return(c)

Next ==
    \/ \E c \in Callers : Run(c) \/ Step(c) \/ Reconnect(c) \/ ErrnoOverwritten(c)
    \/ \E t \in Callers \cup {NULL} : Alarm(t)
    \/ \E s \in Sockets : PeerAnswers(s) \/ PeerCloses(s)

Spec == Init /\ [][Next]_vars

-----------------------------------------------------------------------------
InCall == {"send", "rest", "again", "split", "wait", "interrupted", "space"}

TypeOK ==
    /\ mtx \in Callers \cup {NULL} /\ connected \in BOOLEAN
    /\ sock \in Sockets /\ open \subseteq 1..sock /\ closed \subseteq 1..sock
    /\ asked \in [Sockets -> Seq(0..MaxCalls)] /\ inbox \in [Sockets -> Seq(0..MaxCalls)]
    /\ pc \in [Callers -> {"idle", "lock", "return"} \cup InCall]
    /\ req \in [Callers -> 0..MaxCalls] /\ output \in [Callers -> 0..MaxCalls]
    /\ result \in [Callers -> 0..MaxCalls \cup {NULL}] /\ failed \in [Callers -> BOOLEAN]
    /\ eintr \in [Callers -> BOOLEAN] /\ armed \in BOOLEAN /\ calls \in 0..MaxCalls

NoRequest(q) == \A i \in 1..Len(q) : q[i] = 0

(***************************************************************************)
(* A call that returns a message returns the answer to its own request,    *)
(* never the late answer to an earlier call that timed out, nor another    *)
(* thread's, nor one to bytes that were no request (RpcClientChannel.h     *)
(* 113-163, 208-254, Session.h 204-211; the comment at RpcClientChannel.h  *)
(* 118 says that an answer is matched with its call).                      *)
(***************************************************************************)
ResultIsOwn == \A c \in Callers : pc[c] = "idle" /\ result[c] # NULL => result[c] = req[c]

(***************************************************************************)
(* Between two calls no request is outstanding and no answer unread on the *)
(* socket of a connected channel, although the spaces after the answers    *)
(* are: every failure after the request was begun has closed the socket    *)
(* (RpcClientChannel.h 199-203, 225-228, 234-236, 252-253).                *)
(***************************************************************************)
QuietSocketIsClean ==
    mtx = NULL /\ connected /\ sock \in open =>
        inbox[sock] = <<>> /\ NoRequest(asked[sock])
=============================================================================
