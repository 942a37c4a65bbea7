-------------------------- MODULE RpcChannelProofs --------------------------
(***************************************************************************)
(* TLAPS proofs about RpcChannel, for every set of threads and every       *)
(* number of calls and sockets: an answer belongs to its call.             *)
(***************************************************************************)
EXTENDS RpcChannel, SequenceTheorems, TLAPS

-----------------------------------------------------------------------------
(* The inductive invariant.                                                *)

\* The mutex is held by the thread that is between sending and reading.
LockInv == \A c \in Callers : pc[c] \in InCall <=> mtx = c

\* The channel is connected exactly when its socket has not been closed,
\* and nothing was ever sent on a socket that was not opened yet.
SocketInv ==
    /\ connected <=> sock \in open
    /\ \A s \in Sockets : s > sock => asked[s] = <<>> /\ inbox[s] = <<>>

Clean == NoRequest(asked[sock]) /\ inbox[sock] = <<>>

\* r is the only request in q.
OnlyRequest(q, r) == \E i \in 1..Len(q) : q[i] = r /\ \A j \in 1..Len(q) : j # i => q[j] = 0

\* What is outstanding on the socket, apart from bytes that are no request,
\* is the request of the thread that holds the mutex, once, either with the
\* peer or on its way back.
OutstandingInv ==
    sock \in open =>
        /\ mtx = NULL => Clean
        /\ \A c \in Callers :
              /\ pc[c] \in {"send", "rest", "again", "split", "space"} => Clean
              /\ pc[c] \in {"wait", "interrupted"} =>
                    \/ Clean
                    \/ OnlyRequest(asked[sock], req[c]) /\ inbox[sock] = <<>>
                    \/ NoRequest(asked[sock]) /\ inbox[sock] = <<req[c]>>

\* A call that is under way has a number, and what it is about to return
\* is the answer to it.
CallInv ==
    \A c \in Callers :
        /\ pc[c] # "idle" => req[c] >= 1
        /\ pc[c] = "space" \/ (pc[c] = "return" /\ ~failed[c]) => output[c] = req[c]

IInv == TypeOK /\ LockInv /\ SocketInv /\ OutstandingInv /\ CallInv /\ ResultIsOwn

-----------------------------------------------------------------------------
(* The constructor of the channel establishes the invariant.               *)
LEMMA InitIInv == Init => IInv
  <1> SUFFICES ASSUME Init PROVE IInv
    OBVIOUS
  <1> USE DEF Init
  <1>1. TypeOK
    <2>1. sock \in Sockets /\ 0 \in 0..MaxCalls /\ open \subseteq 1..sock /\ closed \subseteq 1..sock
      BY LimitsAssumption DEF Sockets
    <2>2. asked \in [Sockets -> Seq(0..MaxCalls)] /\ inbox \in [Sockets -> Seq(0..MaxCalls)]
      BY EmptySeq
    <2>3. pc \in [Callers -> {"idle", "lock", "return"} \cup InCall]
      BY DEF InCall
    <2> QED
      BY <2>1, <2>2, <2>3 DEF TypeOK
  <1>2. LockInv /\ CallInv /\ ResultIsOwn
    BY CallersAssumption DEF LockInv, CallInv, ResultIsOwn, InCall
  <1>3. SocketInv /\ OutstandingInv
    BY LimitsAssumption DEF SocketInv, OutstandingInv, Clean, NoRequest, Sockets
  <1> QED
    BY <1>1, <1>2, <1>3 DEF IInv

(* What becomes of the requests in a queue when bytes are appended, and    *)
(* when the peer takes everything up to the first request.                 *)
LEMMA AppendBytes ==
    ASSUME NEW S, NEW q \in Seq(S), NEW x \in S, NoRequest(q)
    PROVE  /\ x = 0 => NoRequest(Append(q, x))
           /\ OnlyRequest(Append(q, x), x)
  BY DEF NoRequest, OnlyRequest

LEMMA TakeRequest ==
    ASSUME NEW S, NEW q \in Seq(S), NEW i \in 1..Len(q), NEW r \in S
    PROVE  /\ SubSeq(q, i + 1, Len(q)) \in Seq(S)
           /\ NoRequest(q) => q[i] = 0
           /\ OnlyRequest(q, r) /\ q[i] # 0 =>
                 q[i] = r /\ NoRequest(SubSeq(q, i + 1, Len(q)))
  <1>1. SubSeq(q, i + 1, Len(q)) \in Seq(S)
    BY SubSeqProperties
  <1>2. /\ Len(SubSeq(q, i + 1, Len(q))) = Len(q) - i
        /\ \A j \in 1..(Len(q) - i) : SubSeq(q, i + 1, Len(q))[j] = q[i + j]
    BY SubSeqProperties
  <1> QED
    BY <1>1, <1>2 DEF NoRequest, OnlyRequest

(* A write of sendMessages that succeeds preserves the invariant, whether  *)
(* it completes the request or not.                                        *)
LEMMA SendStep ==
    ASSUME IInv, NEW c \in Callers, NEW x \in {0, req[c]}, NEW p \in {"rest", "wait"},
           pc[c] \in {"send", "rest", "again", "split"}, sock \in open, Sent(x),
           pc' = [pc EXCEPT ![c] = p], x # 0 => p = "wait",
           UNCHANGED <<chan, inbox, closed, req, output, failed, result, eintr, armed, calls>>
    PROVE  IInv'
  <1> USE CallersAssumption DEF IInv, InCall
  <1>0. /\ sock \in Sockets /\ Sockets \subseteq Nat /\ x \in 0..MaxCalls
        /\ asked[sock] \in Seq(0..MaxCalls) /\ asked = [asked EXCEPT ![sock] = asked[sock]]
    BY LimitsAssumption DEF TypeOK, Sockets
  <1>1. Clean /\ mtx = c
    BY DEF OutstandingInv, LockInv
  <1>2. asked' = asked \/ asked' = [asked EXCEPT ![sock] = Append(asked[sock], x)]
    BY <1>0 DEF Sent
  <1>3. /\ asked' \in [Sockets -> Seq(0..MaxCalls)]
        /\ \A s \in Sockets : s # sock => asked'[s] = asked[s]
        /\ NoRequest(asked'[sock]) \/ (p = "wait" /\ OnlyRequest(asked'[sock], req[c]))
    <2>1. Append(asked[sock], x) \in Seq(0..MaxCalls)
      BY <1>0
    <2>2. \/ NoRequest(Append(asked[sock], x))
          \/ p = "wait" /\ OnlyRequest(Append(asked[sock], x), req[c])
      BY <1>0, <1>1, AppendBytes DEF Clean
    <2>3. asked \in [Sockets -> Seq(0..MaxCalls)] /\ NoRequest(asked[sock])
      BY <1>1 DEF TypeOK, Clean
    <2>4. /\ asked' \in [Sockets -> Seq(0..MaxCalls)]
          /\ \A s \in Sockets : s # sock => asked'[s] = asked[s]
          /\ asked'[sock] = asked[sock] \/ asked'[sock] = Append(asked[sock], x)
      BY <1>0, <1>2, <2>1, <2>3
    <2> QED
      BY <2>2, <2>3, <2>4
  <1>4. TypeOK'
    BY <1>3 DEF TypeOK, chan
  <1>5. LockInv' /\ SocketInv' /\ CallInv' /\ ResultIsOwn'
    BY <1>0, <1>1, <1>3 DEF TypeOK, LockInv, SocketInv, CallInv, ResultIsOwn, chan
  <1>6. OutstandingInv'
    BY <1>1, <1>3 DEF TypeOK, LockInv, OutstandingInv, Clean, chan
  <1> QED
    BY <1>4, <1>5, <1>6

(* A step of a thread inside run or CallMethod preserves the invariant.    *)
LEMMA CallStep ==
    ASSUME IInv, NEW c \in Callers, Run(c) \/ Step(c)
    PROVE  IInv'
  <1> USE CallersAssumption DEF IInv, Goto, InCall
  <1>0. /\ sock \in Sockets /\ Sockets \subseteq Nat /\ req[c] \in 0..MaxCalls
        /\ asked[sock] \in Seq(0..MaxCalls) /\ inbox[sock] \in Seq(0..MaxCalls)
        /\ MaxCalls \in Nat
    BY LimitsAssumption DEF TypeOK, Sockets
  <1>1. CASE Run(c)
    <2>1. TypeOK'
      BY <1>0, <1>1 DEF Run, TypeOK, chan, net
    <2>2. LockInv' /\ SocketInv' /\ OutstandingInv'
      BY <1>0, <1>1 DEF Run, TypeOK, LockInv, SocketInv, OutstandingInv, Clean, chan, net
    <2>3. CallInv' /\ ResultIsOwn'
      BY <1>0, <1>1 DEF Run, TypeOK, CallInv, ResultIsOwn
    <2> QED
      BY <2>1, <2>2, <2>3
  <1>2. CASE CallRefused(c)
    <2>1. TypeOK'
      BY <1>2 DEF CallRefused, TypeOK, chan, net
    <2>2. LockInv' /\ SocketInv' /\ OutstandingInv' /\ CallInv' /\ ResultIsOwn'
      BY <1>2 DEF CallRefused, TypeOK, LockInv, SocketInv, OutstandingInv, Clean, CallInv,
                  ResultIsOwn, chan, net
    <2> QED
      BY <2>1, <2>2
  <1>3. CASE CallMethod(c)
    <2>1. TypeOK'
      BY <1>3 DEF CallMethod, TypeOK, net
    <2>2. LockInv' /\ SocketInv' /\ CallInv' /\ ResultIsOwn'
      BY <1>3 DEF CallMethod, TypeOK, LockInv, SocketInv, CallInv, ResultIsOwn, net
    <2>3. OutstandingInv'
      BY <1>3 DEF CallMethod, TypeOK, LockInv, OutstandingInv, Clean, net
    <2> QED
      BY <2>1, <2>2, <2>3
  <1>4. CASE PackFails(c)
    <2>1. TypeOK'
      BY <1>4 DEF PackFails, Fails, TypeOK, net
    <2>2. LockInv' /\ SocketInv' /\ CallInv' /\ ResultIsOwn'
      BY <1>4 DEF PackFails, Fails, TypeOK, LockInv, SocketInv, CallInv, ResultIsOwn, net
    <2>3. OutstandingInv'
      BY <1>4 DEF PackFails, Fails, TypeOK, LockInv, OutstandingInv, Clean, net
    <2> QED
      BY <2>1, <2>2, <2>3
  <1>5. CASE SendMessages(c) \/ SendPart(c) \/ SendRest(c)
    BY <1>5, SendStep DEF SendMessages, SendPart, SendRest
  <1>6. CASE SendFails(c) \/ ReadEnd(c) \/ Timeout(c)
    <2>1. /\ pc[c] \in InCall /\ pc' = [pc EXCEPT ![c] = "return"]
          /\ failed' = [failed EXCEPT ![c] = TRUE] /\ mtx' = NULL /\ SetDisconnected
          /\ \E e \in BOOLEAN : eintr' = eintr \/ eintr' = [eintr EXCEPT ![c] = e]
          /\ UNCHANGED <<net, req, output, result, armed, calls>>
      BY <1>6 DEF SendFails, ReadEnd, Timeout, Fails
    <2>2. TypeOK'
      BY <2>1 DEF SetDisconnected, TypeOK, net
    <2>3. LockInv' /\ SocketInv' /\ CallInv' /\ ResultIsOwn'
      BY <2>1 DEF SetDisconnected, TypeOK, LockInv, SocketInv, CallInv, ResultIsOwn, net
    <2>4. OutstandingInv'
      BY <2>1 DEF SetDisconnected, OutstandingInv
    <2> QED
      BY <2>2, <2>3, <2>4
  <1>7. CASE ReadAnswer(c)
    <2>1. /\ mtx = c /\ NoRequest(asked[sock]) /\ inbox[sock] = <<req[c]>>
          /\ Head(inbox[sock]) = req[c] /\ Len(inbox[sock]) = 1
      <3>1. pc[c] = "wait" /\ sock \in open /\ inbox[sock] # <<>>
        BY <1>7 DEF ReadAnswer
      <3>2. mtx = c /\ NoRequest(asked[sock]) /\ inbox[sock] = <<req[c]>>
        BY <3>1 DEF OutstandingInv, LockInv, Clean
      <3> QED
        BY <3>2
    <2>2. inbox' = [inbox EXCEPT ![sock] = <<>>]
      <3>1. PICK n \in 1..Len(inbox[sock]) :
               inbox' = [inbox EXCEPT ![sock] = SubSeq(inbox[sock], n + 1, Len(inbox[sock]))]
        BY <1>7 DEF ReadAnswer
      <3>2. n = 1 /\ n + 1 = 2
        BY <2>1
      <3>3. SubSeq(inbox[sock], 2, 1) = <<>>
        BY SubSeqEmpty
      <3> QED
        BY <2>1, <3>1, <3>2, <3>3
    <2>3. /\ UNCHANGED <<asked, closed, req, result, eintr, armed, calls, sock>>
          /\ \/ /\ output' = [output EXCEPT ![c] = req[c]]
                /\ pc' = [pc EXCEPT ![c] = "space"]
                /\ UNCHANGED <<failed, mtx, connected, open>>
             \/ /\ failed' = [failed EXCEPT ![c] = TRUE] /\ connected' = FALSE
                /\ pc' = [pc EXCEPT ![c] = "return"] /\ mtx' = NULL
                /\ open' = open \ {sock} /\ UNCHANGED output
      BY <1>7, <2>1 DEF ReadAnswer, SetDisconnected, chan
    <2>4. TypeOK'
      <3>1. <<>> \in Seq(0..MaxCalls)
        BY EmptySeq
      <3>2. inbox' \in [Sockets -> Seq(0..MaxCalls)] /\ output' \in [Callers -> 0..MaxCalls]
        BY <1>0, <2>2, <2>3, <3>1 DEF TypeOK
      <3>3. /\ open' \subseteq open /\ connected' \in BOOLEAN /\ failed' \in [Callers -> BOOLEAN]
            /\ mtx' \in Callers \cup {NULL}
        BY <2>3 DEF TypeOK
      <3> QED
        BY <2>3, <3>2, <3>3 DEF TypeOK
    <2>5. LockInv' /\ SocketInv' /\ CallInv' /\ ResultIsOwn'
      <3>1. pc[c] = "wait" /\ req[c] >= 1
        BY <1>7 DEF ReadAnswer, CallInv
      <3>2. ResultIsOwn'
        BY <2>3 DEF TypeOK, ResultIsOwn
      <3>5. LockInv'
        <4>1. CASE pc' = [pc EXCEPT ![c] = "space"] /\ UNCHANGED mtx
          BY <2>1, <4>1 DEF TypeOK, LockInv
        <4>2. CASE pc' = [pc EXCEPT ![c] = "return"] /\ mtx' = NULL
          BY <2>1, <4>2 DEF TypeOK, LockInv
        <4> QED
          BY <2>3, <4>1, <4>2
      <3>3. SocketInv'
        BY <1>0, <2>2, <2>3 DEF TypeOK, SocketInv
      <3>4. CallInv'
        BY <2>3, <3>1 DEF TypeOK, CallInv
      <3> QED
        BY <3>2, <3>3, <3>4, <3>5
    <2>6. OutstandingInv'
      BY <1>0, <2>1, <2>2, <2>3 DEF TypeOK, LockInv, OutstandingInv, Clean
    <2> QED
      BY <2>4, <2>5, <2>6
  <1>10. CASE SendRepeats(c)
    <2>1. TypeOK'
      BY <1>10 DEF SendRepeats, TypeOK, chan, net
    <2>2. LockInv' /\ SocketInv' /\ OutstandingInv' /\ CallInv' /\ ResultIsOwn'
      BY <1>10 DEF SendRepeats, TypeOK, LockInv, SocketInv, OutstandingInv, Clean, CallInv,
                   ResultIsOwn, chan, net
    <2> QED
      BY <2>1, <2>2
  <1>11. CASE WriteSpace(c)
    <2>1. /\ mtx = c /\ mtx' = NULL /\ pc' = [pc EXCEPT ![c] = "return"]
          /\ output[c] = req[c] /\ (sock \in open => Clean)
          /\ UNCHANGED <<connected, sock, open, inbox, closed, req, output, failed, result,
                         eintr, armed, calls>>
      BY <1>11 DEF WriteSpace, LockInv, CallInv, OutstandingInv
    <2>2. /\ asked' \in [Sockets -> Seq(0..MaxCalls)]
          /\ \A s \in Sockets : s # sock => asked'[s] = asked[s]
          /\ sock \in open => NoRequest(asked'[sock])
      <3>1. asked' = asked \/ (sock \in open /\ asked' = [asked EXCEPT ![sock] = Append(asked[sock], 0)])
        <4>1. asked = [asked EXCEPT ![sock] = asked[sock]]
          BY DEF TypeOK
        <4> QED
          BY <1>11, <4>1 DEF WriteSpace, Sent
      <3>2. Append(asked[sock], 0) \in Seq(0..MaxCalls)
        BY <1>0
      <3>3. sock \in open => NoRequest(Append(asked[sock], 0))
        BY <1>0, <2>1, AppendBytes DEF Clean
      <3>4. asked \in [Sockets -> Seq(0..MaxCalls)] /\ (sock \in open => NoRequest(asked[sock]))
        BY <2>1 DEF TypeOK, Clean
      <3>5. /\ asked' \in [Sockets -> Seq(0..MaxCalls)]
            /\ \A s \in Sockets : s # sock => asked'[s] = asked[s]
            /\ asked'[sock] = asked[sock] \/ asked'[sock] = Append(asked[sock], 0)
        BY <1>0, <3>1, <3>2, <3>4
      <3> QED
        BY <3>3, <3>4, <3>5
    <2>3. TypeOK'
      BY <2>1, <2>2 DEF TypeOK
    <2>4. LockInv' /\ SocketInv' /\ CallInv' /\ ResultIsOwn'
      <3>1. pc[c] = "space"
        BY <1>11 DEF WriteSpace
      <3>2. LockInv' /\ CallInv' /\ ResultIsOwn'
        BY <2>1, <3>1 DEF TypeOK, LockInv, CallInv, ResultIsOwn
      <3>3. SocketInv'
        <4>1. \A s \in Sockets : s > sock => asked'[s] = asked[s]
          BY <1>0, <2>2
        <4> QED
          BY <2>1, <4>1 DEF SocketInv
      <3> QED
        BY <3>2, <3>3
    <2>5. OutstandingInv'
      BY <2>1, <2>2 DEF TypeOK, LockInv, OutstandingInv, Clean
    <2> QED
      BY <2>3, <2>4, <2>5
  <1>8. CASE ReadAgain(c)
    <2>1. TypeOK'
      BY <1>8 DEF ReadAgain, TypeOK, chan, net
    <2>2. LockInv' /\ SocketInv' /\ OutstandingInv' /\ CallInv' /\ ResultIsOwn'
      BY <1>8 DEF ReadAgain, TypeOK, LockInv, SocketInv, OutstandingInv, Clean, CallInv,
                  ResultIsOwn, chan, net
    <2> QED
      BY <2>1, <2>2
  <1>9. CASE Return(c)
    <2>1. TypeOK'
      BY <1>9 DEF Return, TypeOK, chan, net
    <2>2. LockInv' /\ SocketInv' /\ OutstandingInv'
      BY <1>9 DEF Return, TypeOK, LockInv, SocketInv, OutstandingInv, Clean, chan, net
    <2>3. CallInv' /\ ResultIsOwn'
      BY <1>9 DEF Return, TypeOK, CallInv, ResultIsOwn
    <2> QED
      BY <2>1, <2>2, <2>3
  <1> QED
    BY <1>1, <1>2, <1>3, <1>4, <1>5, <1>6, <1>7, <1>8, <1>9, <1>10, <1>11 DEF Step

(* A reconnect, which takes no lock, preserves it: the new socket is clean *)
(* and a thread that was waiting finds nothing on it.                      *)
LEMMA ReconnectStep ==
    ASSUME IInv, NEW c \in Callers, Reconnect(c)
    PROVE  IInv'
  <1> USE DEF IInv, Reconnect
  <1>0. /\ sock \in Nat /\ sock + 1 \in Sockets /\ sock' = sock + 1
        /\ asked[sock + 1] = <<>> /\ inbox[sock + 1] = <<>> /\ sock + 1 \notin open
    <2>1. sock \in Nat /\ sock < MaxSockets /\ open \subseteq 1..sock /\ MaxSockets \in Nat
      BY LimitsAssumption DEF TypeOK, Sockets
    <2>2. sock + 1 \in Sockets /\ sock + 1 > sock /\ sock + 1 \notin open
      BY <2>1 DEF Sockets
    <2> QED
      BY <2>1, <2>2 DEF SocketInv
  <1>1. \A d \in Callers :
           \/ pc'[d] = pc[d]
           \/ pc[d] \in {"rest", "again"} /\ pc'[d] = "split"
    OBVIOUS
  <1>2. TypeOK'
    <2>1. pc' \in [Callers -> {"idle", "lock", "return"} \cup InCall]
      BY <1>1 DEF TypeOK, InCall
    <2> QED
      BY <1>0, <2>1 DEF TypeOK, net, Sockets
  <1>3. LockInv' /\ CallInv' /\ ResultIsOwn'
    BY <1>1 DEF LockInv, CallInv, ResultIsOwn, net, InCall
  <1>4. SocketInv' /\ OutstandingInv'
    <2>1. (sock \in open => Clean)'
      BY <1>0 DEF Clean, NoRequest, net
    <2> QED
      BY <1>0, <2>1 DEF SocketInv, OutstandingInv, Clean, Sockets, net
  <1> QED
    BY <1>2, <1>3, <1>4

(* The alarm and the peer preserve it.                                     *)
LEMMA SurroundingsStep ==
    ASSUME ~AnswersStray, IInv,
           \/ \E c \in Callers : ErrnoOverwritten(c)
           \/ \E t \in Callers \cup {NULL} : Alarm(t)
           \/ \E s \in Sockets : PeerAnswers(s) \/ PeerCloses(s)
    PROVE  IInv'
  <1> USE DEF IInv, InCall
  <1>0. sock \in Sockets /\ Sockets \subseteq Nat
    BY DEF TypeOK, Sockets
  <1>1. ASSUME NEW c \in Callers, ErrnoOverwritten(c) PROVE IInv'
    <2>1. TypeOK'
      BY <1>1 DEF ErrnoOverwritten, TypeOK, chan, net
    <2>2. LockInv' /\ SocketInv' /\ OutstandingInv' /\ CallInv' /\ ResultIsOwn'
      BY <1>1 DEF ErrnoOverwritten, LockInv, SocketInv, OutstandingInv, Clean, CallInv,
                  ResultIsOwn, chan, net
    <2> QED
      BY <2>1, <2>2
  <1>2. ASSUME NEW t \in Callers \cup {NULL}, Alarm(t) PROVE IInv'
    <2>1. \A c \in Callers :
             \/ pc'[c] = pc[c]
             \/ pc[c] = "wait" /\ pc'[c] = "interrupted"
      <3>1. pc' = [c \in Callers |-> IF c = t /\ Blocked(c) THEN "interrupted" ELSE pc[c]]
        BY <1>2 DEF Alarm
      <3> QED
        BY <3>1 DEF Blocked
    <2>2. TypeOK'
      <3>1. pc' \in [Callers -> {"idle", "lock", "return"} \cup InCall]
        BY <1>2, <2>1 DEF Alarm, TypeOK
      <3>2. eintr' \in [Callers -> BOOLEAN]
        BY <1>2, Zenon DEF Alarm
      <3> QED
        BY <1>2, <3>1, <3>2 DEF Alarm, TypeOK, chan, net
    <2>3. LockInv' /\ SocketInv' /\ OutstandingInv' /\ CallInv' /\ ResultIsOwn'
      BY <1>2, <2>1 DEF Alarm, TypeOK, LockInv, SocketInv, OutstandingInv, Clean, CallInv,
                        ResultIsOwn, chan, net
    <2> QED
      BY <2>2, <2>3
  <1>3. ASSUME NEW s \in Sockets, PeerAnswers(s) PROVE IInv'
    <2>0. PICK i \in 1..Len(asked[s]) :
             /\ asked[s][i] # 0
             /\ asked' = [asked EXCEPT ![s] = SubSeq(asked[s], i + 1, Len(asked[s]))]
             /\ inbox' = [inbox EXCEPT ![s] = Append(inbox[s], asked[s][i])]
      BY <1>3 DEF PeerAnswers
    <2>1. /\ asked[s] \in Seq(0..MaxCalls) /\ inbox[s] \in Seq(0..MaxCalls) /\ asked[s] # <<>>
          /\ asked[s][i] \in 0..MaxCalls
          /\ SubSeq(asked[s], i + 1, Len(asked[s])) \in Seq(0..MaxCalls)
          /\ Append(inbox[s], asked[s][i]) \in Seq(0..MaxCalls)
      <3>1. asked[s] \in Seq(0..MaxCalls) /\ inbox[s] \in Seq(0..MaxCalls)
        BY DEF TypeOK
      <3>2. asked[s] # <<>> /\ asked[s][i] \in 0..MaxCalls
        <4>1. asked[s][i] \in 0..MaxCalls
          BY <3>1, ElementOfSeq
        <4>2. Len(asked[s]) # 0
          BY <3>1
        <4> QED
          BY <4>1, <4>2
      <3>3. Append(inbox[s], asked[s][i]) \in Seq(0..MaxCalls)
        BY <3>1, <3>2
      <3>4. SubSeq(asked[s], i + 1, Len(asked[s])) \in Seq(0..MaxCalls)
        BY <3>1, <3>2, TakeRequest
      <3> QED
        BY <3>1, <3>2, <3>3, <3>4
    <2>2. TypeOK'
      BY <1>3, <2>0, <2>1 DEF PeerAnswers, TypeOK, chan
    <2>3. LockInv' /\ SocketInv' /\ CallInv' /\ ResultIsOwn'
      BY <1>3, <2>0, <2>1 DEF PeerAnswers, TypeOK, LockInv, SocketInv, CallInv, ResultIsOwn, chan
    <2>4. OutstandingInv'
      <3>1. CASE s # sock
        BY <1>0, <1>3, <2>0, <3>1 DEF PeerAnswers, TypeOK, OutstandingInv, Clean, chan
      <3>2. CASE s = sock
        <4>1. UNCHANGED <<mtx, sock, open, pc, req>>
          BY <1>3 DEF PeerAnswers, chan
        <4>2. ~NoRequest(asked[sock])
          BY <2>0, <3>2 DEF NoRequest
        <4>3. ASSUME NEW c \in Callers, pc[c] \in {"wait", "interrupted"}, sock \in open
              PROVE  NoRequest(asked'[sock]) /\ inbox'[sock] = <<req[c]>>
          <5>1. OnlyRequest(asked[sock], req[c]) /\ inbox[sock] = <<>> /\ req[c] \in 0..MaxCalls
            BY <4>2, <4>3 DEF OutstandingInv, Clean, TypeOK
          <5>2. asked[sock][i] = req[c] /\ NoRequest(SubSeq(asked[sock], i + 1, Len(asked[sock])))
            BY <2>0, <2>1, <3>2, <5>1, TakeRequest
          <5>3. Append(<<>>, req[c]) = <<req[c]>>
            OBVIOUS
          <5> QED
            BY <1>0, <2>0, <3>2, <5>1, <5>2, <5>3 DEF TypeOK
        <4> QED
          BY <4>1, <4>2, <4>3 DEF OutstandingInv, Clean
      <3> QED
        BY <3>1, <3>2
    <2> QED
      BY <2>2, <2>3, <2>4
  <1>4. ASSUME NEW s \in Sockets, PeerCloses(s) PROVE IInv'
    <2>1. TypeOK'
      BY <1>4, EmptySeq DEF PeerCloses, TypeOK, chan
    <2>2. LockInv' /\ SocketInv' /\ CallInv' /\ ResultIsOwn'
      BY <1>0, <1>4 DEF PeerCloses, TypeOK, LockInv, SocketInv, CallInv, ResultIsOwn, chan
    <2>3. NoRequest(asked'[s])
      BY <1>4 DEF PeerCloses, NoRequest, TypeOK
    <2>4. OutstandingInv'
      BY <1>0, <1>4, <2>3 DEF PeerCloses, TypeOK, OutstandingInv, Clean, chan
    <2> QED
      BY <2>1, <2>2, <2>4
  <1> QED
    BY <1>1, <1>2, <1>3, <1>4

-----------------------------------------------------------------------------
(* The conjunction is inductive when the peer keeps bytes that are no      *)
(* request until one has come.                                             *)
THEOREM Inductive == ~AnswersStray /\ Spec => []IInv
  <1>1. ~AnswersStray /\ IInv /\ [Next]_vars => IInv'
    <2> SUFFICES ASSUME ~AnswersStray, IInv, [Next]_vars PROVE IInv'
      OBVIOUS
    <2>1. CASE UNCHANGED vars
      BY <2>1 DEF vars, chan, net, IInv, TypeOK, LockInv, SocketInv, OutstandingInv, Clean,
                  CallInv, ResultIsOwn
    <2> QED
      BY <2>1, CallStep, ReconnectStep, SurroundingsStep DEF Next
  <1>2. CASE AnswersStray
    BY <1>2
  <1>3. CASE ~AnswersStray
    <2>1. IInv /\ [Next]_vars => IInv'
      BY <1>1, <1>3
    <2> QED
      BY <2>1, InitIInv, PTL DEF Spec
  <1> QED
    BY <1>2, <1>3

(* Type correctness of the channel, its sessions and its sockets.          *)
THEOREM TypeCorrect == ~AnswersStray /\ Spec => []TypeOK
  BY Inductive, PTL DEF IInv

(* A call of Session::run that returns a message returns the answer to its *)
(* own request, with any number of threads on the channel: never a late    *)
(* answer to a call that timed out, nor another thread's, in spite of the  *)
(* byte written after every answer and of requests sent in pieces, with a  *)
(* byte doubled or to two sockets.  It needs a peer that keeps bytes that  *)
(* are no request; with another one it is false (run rpc_stray).           *)
THEOREM AnswerBelongsToCall == ~AnswersStray /\ Spec => []ResultIsOwn
  BY Inductive, PTL DEF IInv

(* When no call is under way no request is outstanding on a connected      *)
(* socket and no answer unread: every call that gives up after it has      *)
(* begun its request closes the socket.                                    *)
THEOREM GivingUpClosesSocket == ~AnswersStray /\ Spec => []QuietSocketIsClean
  <1>1. IInv => QuietSocketIsClean
    BY DEF IInv, OutstandingInv, Clean, QuietSocketIsClean
  <1> QED
    BY <1>1, Inductive, PTL
=============================================================================
