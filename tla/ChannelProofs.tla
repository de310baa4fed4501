------------------------- MODULE ChannelProofs ------------------------------
(***************************************************************************)
(* Theorems of the two channels that carry requests and their replies.        *)
(*                                                                          *)
(* WorkerProcess, for every number of requests: the inductive invariant is    *)
(* what each pipe can hold: of the lines, that none answers a request under   *)
(* the number of another; of the requests, that none is later than the last    *)
(* one made; and that a failure has closed them.                              *)
(*                                                                          *)
(* DialogBridge, for every set of commands and all limits: a reply has at most *)
(* one request waiting for it, and the order of the queue keeps the disarms of *)
(* others away from the arm of a command on its own (BridgeInv); the gate is  *)
(* armed only while its disarm is owed, unless an arm was given up on          *)
(* (DisarmsOwed).                                                            *)
(***************************************************************************)
EXTENDS WorkerProcess, DialogBridge, SequenceTheorems, TLAPS

(* Lines as the worker can write them: labelled rightly, or as of no request. *)
Good == {line \in Lines : line.job # 0 => line.of = line.job}

Pipes == stdout \in Seq(Good) /\ channel \in Seq(Good)

(* The worker knows of no request that was not made. *)
Known ==
  /\ done \subseteq 1..asked /\ doing \in 0..asked /\ stdin \in Seq(1..asked)
  /\ worker = "busy" => doing # 0

FailureIsFinal == \A n \in 1..Requests : result[n] \in {"error", "ready"} => unusable

(* A call is about a request, and only a client that can still be used writes. *)
Asking ==
  /\ call \in {"writing", "answer"} => asked \in 1..Requests
  /\ call = "writing" => ~ unusable

Stopped == shut = "returned" /\ ~ stubborn => worker = "zombie"

IInv ==
  TypeOK /\ Pipes /\ Known /\ FailureIsFinal /\ Asking /\ Stopped
  /\ AnswersAreTheirOwn /\ FailedWorkersGetNoWork

-----------------------------------------------------------------------------
(* Sequences. *)

LEMMA SeqGrows ==
  ASSUME NEW m, NEW n, m \in Nat, n \in Nat, m <= n, NEW s \in Seq(1..m)
  PROVE  s \in Seq(1..n)
  <1>1. \A i \in 1..Len(s) : s[i] \in 1..m BY SMT
  <1> QED BY <1>1, SMT

LEMMA EmptyIn == \A S : << >> \in Seq(S)
  OBVIOUS

LEMMA ElementIn == ASSUME NEW S, NEW s \in Seq(S), NEW i \in DOMAIN s PROVE s[i] \in S
  OBVIOUS

LEMMA TailIn ==
  ASSUME NEW S, NEW s \in Seq(S), s # << >>
  PROVE  Tail(s) \in Seq(S) /\ Head(s) \in S
  OBVIOUS

LEMMA AppendIn ==
  ASSUME NEW S, NEW s \in Seq(S), NEW e \in S
  PROVE  Append(s, e) \in Seq(S)
  OBVIOUS

LEMMA OneOrTwo ==
  ASSUME NEW S, NEW s \in Seq(S), NEW e \in S
  PROVE  s \o <<e>> \in Seq(S) /\ s \o <<e, e>> \in Seq(S)
  <1>1. <<e>> \in Seq(S) /\ <<e, e>> \in Seq(S) OBVIOUS
  <1> QED BY <1>1

-----------------------------------------------------------------------------
(* The inductive invariant. *)

(* Nothing has been asked, said or done yet. *)
LEMMA InitHolds == Init => IInv
  <1> SUFFICES ASSUME Init PROVE IInv  OBVIOUS
  <1> USE RequestsAssumption DEF Init
  <1>1. << >> \in Seq(1..Requests) /\ << >> \in Seq(Lines) /\ << >> \in Seq(Good) /\ << >> \in Seq(1..0)
        BY EmptyIn
  <1>2. TypeOK
    <2>1. result \in [1..Requests -> {"none", "ok", "ready", "error"}]  OBVIOUS
    <2>2. believed \in [1..Requests -> 0..Requests]  OBVIOUS
    <2>3. stdin \in Seq(1..Requests) /\ stdout \in Seq(Lines) /\ channel \in Seq(Lines)  BY <1>1
    <2>4. asked \in 0..Requests /\ doing \in 0..Requests /\ done \subseteq 1..Requests  OBVIOUS
    <2> QED BY <2>1, <2>2, <2>3, <2>4 DEF TypeOK
  <1>3. Pipes  BY <1>1 DEF Pipes
  <1>4. Known  BY <1>1 DEF Known
  <1>5. FailureIsFinal  BY <1>1 DEF FailureIsFinal
  <1>6. Asking  BY <1>1 DEF Asking
  <1>7. Stopped  BY <1>1 DEF Stopped
  <1>8. AnswersAreTheirOwn  BY <1>1 DEF AnswersAreTheirOwn
  <1>9. FailedWorkersGetNoWork  BY <1>1 DEF FailedWorkersGetNoWork
  <1> QED BY <1>2, <1>3, <1>4, <1>5, <1>6, <1>7, <1>8, <1>9 DEF IInv

(* A step of the caller: it hands the worker nothing yet. *)
LEMMA CallerKeeps == ASSUME IInv, Caller PROVE IInv'
  <1> USE RequestsAssumption DEF vars, caller, process
  <1>1. CASE WaitReady
    <2>1. TypeOK'  BY <1>1 DEF WaitReady, IInv, TypeOK
    <2>2. Pipes'  BY <1>1 DEF WaitReady, IInv, Pipes
    <2>3. Known'  BY <1>1 DEF WaitReady, IInv, Known
    <2>4. FailureIsFinal'  BY <1>1 DEF WaitReady, IInv, FailureIsFinal
    <2>5. Asking'  BY <1>1 DEF WaitReady, Asking
    <2>6. Stopped'  BY <1>1 DEF WaitReady, Stopped
    <2>7. AnswersAreTheirOwn'  BY <1>1 DEF WaitReady, IInv, AnswersAreTheirOwn
    <2>8. FailedWorkersGetNoWork'  BY <1>1 DEF WaitReady, IInv, FailedWorkersGetNoWork
    <2> QED BY <2>1, <2>2, <2>3, <2>4, <2>5, <2>6, <2>7, <2>8 DEF IInv
  <1>2. CASE Send
    <2>1. TypeOK'  BY <1>2 DEF Send, IInv, TypeOK
    <2>2. Pipes'  BY <1>2 DEF Send, IInv, Pipes
    <2>3. Known'
      <3>1. stdin \in Seq(1..asked + 1)  BY SeqGrows DEF IInv, Known, TypeOK
      <3> QED BY <1>2, <3>1 DEF Send, IInv, TypeOK, Known
    <2>4. FailureIsFinal'  BY <1>2 DEF Send, IInv, FailureIsFinal
    <2>5. Asking'  BY <1>2 DEF Send, IInv, TypeOK, Asking
    <2>6. Stopped'  BY <1>2 DEF Send, Stopped
    <2>7. AnswersAreTheirOwn'  BY <1>2 DEF Send, IInv, AnswersAreTheirOwn
    <2>8. FailedWorkersGetNoWork'  BY <1>2 DEF Send, IInv, FailureIsFinal, FailedWorkersGetNoWork
    <2> QED BY <2>1, <2>2, <2>3, <2>4, <2>5, <2>6, <2>7, <2>8 DEF IInv
  <1>3. CASE CannotSend
    <2>1. \A i \in DOMAIN stdin : stdin[i] \in 1..asked  BY ElementIn DEF IInv, Known
    <2>2. stdin \in Seq(1..asked + 1)  BY SeqGrows DEF IInv, Known, TypeOK
    <2>4. TypeOK'  BY <1>3 DEF CannotSend, IInv, TypeOK
    <2>5. Pipes'  BY <1>3 DEF CannotSend, IInv, Pipes
    <2>6. Known'  BY <1>3, <2>2 DEF CannotSend, IInv, TypeOK, Known
    <2>7. FailureIsFinal'  BY <1>3 DEF CannotSend, FailureIsFinal
    <2>8. Asking'  BY <1>3 DEF CannotSend, IInv, Asking
    <2>9. Stopped'  BY <1>3 DEF CannotSend, Stopped
    <2>10. AnswersAreTheirOwn'  BY <1>3 DEF CannotSend, IInv, AnswersAreTheirOwn
    <2>11. FailedWorkersGetNoWork'
      <3> SUFFICES ASSUME NEW n \in 1..Requests, NEW m \in 1..Requests,
                          result'[n] \in {"error", "ready"}, n < m
                   PROVE  m \notin done /\ m # doing /\ \A i \in DOMAIN stdin : stdin[i] # m
        BY <1>3 DEF CannotSend, FailedWorkersGetNoWork
      <3>1. CASE n = asked + 1
        BY <2>1, <3>1 DEF IInv, TypeOK, Known
      <3>2. CASE n # asked + 1
        <4>1. result'[n] = result[n]  BY <1>3, <3>2 DEF CannotSend, IInv, TypeOK
        <4> QED BY <4>1 DEF IInv, FailedWorkersGetNoWork
      <3> QED BY <3>1, <3>2
    <2> QED BY <2>4, <2>5, <2>6, <2>7, <2>8, <2>9, <2>10, <2>11 DEF IInv
  <1>4. CASE Shutdown
    <2>1. TypeOK'  BY <1>4 DEF Shutdown, Invalidate, IInv, TypeOK
    <2>2. Pipes'  BY <1>4 DEF Shutdown, Invalidate, IInv, Pipes
    <2>3. Known'  BY <1>4 DEF Shutdown, IInv, Known
    <2>4. FailureIsFinal'  BY <1>4 DEF Shutdown, Invalidate, FailureIsFinal
    <2>5. Asking'  BY <1>4 DEF Shutdown, Asking
    <2>6. Stopped'  BY <1>4 DEF Shutdown, Stopped
    <2>7. AnswersAreTheirOwn'  BY <1>4 DEF Shutdown, IInv, AnswersAreTheirOwn
    <2>8. FailedWorkersGetNoWork'  BY <1>4 DEF Shutdown, IInv, FailedWorkersGetNoWork
    <2> QED BY <2>1, <2>2, <2>3, <2>4, <2>5, <2>6, <2>7, <2>8 DEF IInv
  <1> QED BY <1>1, <1>2, <1>3, <1>4 DEF Caller

(* The end of a write: only it hands the worker anything, and nothing has failed. *)
LEMMA PipeKeeps == ASSUME IInv, Pipe PROVE IInv'
  <1> USE RequestsAssumption DEF vars, caller, process
  <1>1. CASE Written
    <2>1. asked \in 1..Requests /\ ~ unusable /\ unusable' = unusable
      BY <1>1 DEF Written, IInv, Asking
    <2>2. \A n \in 1..Requests : result'[n] \notin {"error", "ready"}
      BY <1>1, <2>1 DEF Written, IInv, FailureIsFinal
    <2>3. stdin' \in Seq(1..asked) /\ stdin' \in Seq(1..Requests)
      <3>1. stdin \in Seq(1..asked) /\ asked \in 1..asked  BY <2>1 DEF IInv, Known
      <3>2. stdin \in Seq(1..Requests)  BY DEF IInv, TypeOK
      <3> QED BY <1>1, <2>1, <3>1, <3>2, AppendIn DEF Written
    <2>4. TypeOK'  BY <1>1, <2>3 DEF Written, IInv, TypeOK
    <2>5. Pipes'  BY <1>1 DEF Written, IInv, Pipes
    <2>6. Known'  BY <1>1, <2>3 DEF Written, IInv, Known
    <2>7. FailureIsFinal'  BY <2>2 DEF FailureIsFinal
    <2>8. Asking'  BY <1>1, <2>1 DEF Written, Asking
    <2>9. Stopped'  BY <1>1 DEF Written, IInv, Stopped
    <2>10. AnswersAreTheirOwn'  BY <1>1 DEF Written, IInv, AnswersAreTheirOwn
    <2>11. FailedWorkersGetNoWork'  BY <2>2 DEF FailedWorkersGetNoWork
    <2> QED BY <2>4, <2>5, <2>6, <2>7, <2>8, <2>9, <2>10, <2>11 DEF IInv
  <1>2. CASE WriteFails
    <2>1. \A i \in DOMAIN stdin : stdin[i] \in 1..asked  BY ElementIn DEF IInv, Known
    <2>2. << >> \in Seq(Good) /\ << >> \in Seq(Lines)  BY EmptyIn
    <2>3. TypeOK'  BY <1>2, <2>2 DEF WriteFails, Invalidate, Asking, IInv, TypeOK
    <2>4. Pipes'  BY <1>2, <2>2 DEF WriteFails, Invalidate, IInv, Pipes
    <2>5. Known'  BY <1>2 DEF WriteFails, IInv, Known
    <2>6. FailureIsFinal'  BY <1>2 DEF WriteFails, Invalidate, FailureIsFinal
    <2>7. Asking'  BY <1>2 DEF WriteFails, Asking
    <2>8. Stopped'  BY <1>2 DEF WriteFails, IInv, Stopped
    <2>9. AnswersAreTheirOwn'  BY <1>2 DEF WriteFails, IInv, AnswersAreTheirOwn
    <2>10. FailedWorkersGetNoWork'
      BY <1>2, <2>1, <2>2 DEF WriteFails, Invalidate, IInv, FailedWorkersGetNoWork, Known
    <2> QED BY <2>3, <2>4, <2>5, <2>6, <2>7, <2>8, <2>9, <2>10 DEF IInv
  <1> QED BY <1>1, <1>2 DEF Pipe

LEMMA ClientKeeps == ASSUME IInv, Client PROVE IInv'
  <1> USE RequestsAssumption DEF vars, caller, process
  <1>1. CASE IsReady
    <2>1. TypeOK'  BY <1>1 DEF IsReady, IInv, TypeOK
    <2>2. Pipes'  BY <1>1 DEF IsReady, IInv, Pipes
    <2>3. Known'  BY <1>1 DEF IsReady, IInv, Known
    <2>4. FailureIsFinal'  BY <1>1 DEF IsReady, IInv, FailureIsFinal
    <2>5. Asking'  BY <1>1 DEF IsReady, Asking
    <2>6. Stopped'  BY <1>1 DEF IsReady, IInv, Stopped
    <2>7. AnswersAreTheirOwn'  BY <1>1 DEF IsReady, IInv, AnswersAreTheirOwn
    <2>8. FailedWorkersGetNoWork'  BY <1>1 DEF IsReady, IInv, FailedWorkersGetNoWork
    <2> QED BY <2>1, <2>2, <2>3, <2>4, <2>5, <2>6, <2>7, <2>8 DEF IInv
  <1>2. CASE IsNotReady
    <2>1. TypeOK'  BY <1>2 DEF IsNotReady, Invalidate, IInv, TypeOK
    <2>2. Pipes'  BY <1>2 DEF IsNotReady, Invalidate, IInv, Pipes
    <2>3. Known'  BY <1>2 DEF IsNotReady, IInv, Known
    <2>4. FailureIsFinal'  BY <1>2 DEF IsNotReady, Invalidate, FailureIsFinal
    <2>5. Asking'  BY <1>2 DEF IsNotReady, Asking
    <2>6. Stopped'  BY <1>2 DEF IsNotReady, IInv, Stopped
    <2>7. AnswersAreTheirOwn'  BY <1>2 DEF IsNotReady, IInv, AnswersAreTheirOwn
    <2>8. FailedWorkersGetNoWork'  BY <1>2 DEF IsNotReady, IInv, FailedWorkersGetNoWork
    <2> QED BY <2>1, <2>2, <2>3, <2>4, <2>5, <2>6, <2>7, <2>8 DEF IInv
  <1>3. CASE Returns
    <2>1. \A i \in DOMAIN stdin : stdin[i] \in 1..asked  BY ElementIn DEF IInv, Known
    <2>2. << >> \in Seq(Good) /\ << >> \in Seq(Lines)  BY EmptyIn
    <2>3. /\ Head(channel) \in Good /\ Tail(channel) \in Seq(Good) /\ Tail(channel) \in Seq(Lines)
         BY <1>3, TailIn DEF Returns, IInv, Pipes, TypeOK
    <2>4. asked \in 1..Requests /\ Head(channel).of = asked  BY <1>3, <2>3 DEF Returns, Answers, Good, IInv, Asking
    <2>5. TypeOK'  BY <1>3, <2>2, <2>3, <2>4 DEF Returns, Invalidate, IInv, TypeOK
    <2>6. Pipes'  BY <1>3, <2>2, <2>3 DEF Returns, Invalidate, IInv, Pipes
    <2>7. Known'  BY <1>3 DEF Returns, IInv, Known
    <2>8. FailureIsFinal'  BY <1>3 DEF Returns, Invalidate, IInv, TypeOK, FailureIsFinal
    <2>9. Asking'  BY <1>3 DEF Returns, Asking
    <2>10. Stopped'  BY <1>3 DEF Returns, IInv, Stopped
    <2>11. AnswersAreTheirOwn'  BY <1>3, <2>4 DEF Returns, IInv, TypeOK, AnswersAreTheirOwn
    <2>12. FailedWorkersGetNoWork'
      <3>1. SUFFICES ASSUME NEW n \in 1..Requests, NEW m \in 1..Requests,
                            result'[n] \in {"error", "ready"}, n < m
                     PROVE  m \notin done /\ m # doing /\ \A i \in DOMAIN stdin : stdin[i] # m
        BY <1>3 DEF Returns, FailedWorkersGetNoWork
      <3>2. CASE n = asked  BY <2>1, <2>4, <3>1, <3>2 DEF IInv, Known
      <3>3. CASE n # asked
        <4>1. result'[n] = result[n]  BY <1>3, <3>3 DEF Returns, IInv, TypeOK
        <4> QED BY <3>1, <4>1 DEF IInv, FailedWorkersGetNoWork
      <3> QED BY <3>2, <3>3
    <2> QED BY <2>5, <2>6, <2>7, <2>8, <2>9, <2>10, <2>11, <2>12 DEF IInv
  <1>4. CASE Fails
    <2>1. \A i \in DOMAIN stdin : stdin[i] \in 1..asked  BY ElementIn DEF IInv, Known
    <2>2. << >> \in Seq(Good) /\ << >> \in Seq(Lines)  BY EmptyIn
    <2>3. TypeOK'  BY <1>4 DEF Fails, Invalidate, Asking, IInv, TypeOK
    <2>4. Pipes'  BY <1>4 DEF Fails, Invalidate, IInv, Pipes
    <2>5. Known'  BY <1>4 DEF Fails, IInv, Known
    <2>6. FailureIsFinal'  BY <1>4 DEF Fails, Invalidate, FailureIsFinal
    <2>7. Asking'  BY <1>4 DEF Fails, Asking
    <2>8. Stopped'  BY <1>4 DEF Fails, IInv, Stopped
    <2>9. AnswersAreTheirOwn'  BY <1>4 DEF Fails, IInv, AnswersAreTheirOwn
    <2>10. FailedWorkersGetNoWork'  BY <1>4, <2>1, <2>2 DEF Fails, Invalidate, IInv, FailedWorkersGetNoWork, Known
    <2> QED BY <2>3, <2>4, <2>5, <2>6, <2>7, <2>8, <2>9, <2>10 DEF IInv
  <1>5. CASE SeesExit
    <2>1. TypeOK'  BY <1>5 DEF SeesExit, IInv, TypeOK
    <2>2. Pipes'  BY <1>5 DEF SeesExit, Alive, IInv, Pipes
    <2>3. Known'  BY <1>5 DEF SeesExit, Alive, IInv, Known
    <2>4. FailureIsFinal'  BY <1>5 DEF SeesExit, Alive, IInv, FailureIsFinal
    <2>5. Asking'  BY <1>5 DEF SeesExit, Alive, IInv, Asking
    <2>6. Stopped'  BY <1>5 DEF SeesExit, Alive, IInv, Stopped
    <2>7. AnswersAreTheirOwn'  BY <1>5 DEF SeesExit, Alive, IInv, AnswersAreTheirOwn
    <2>8. FailedWorkersGetNoWork'  BY <1>5 DEF SeesExit, Alive, IInv, FailedWorkersGetNoWork
    <2> QED BY <2>1, <2>2, <2>3, <2>4, <2>5, <2>6, <2>7, <2>8 DEF IInv
  <1>6. CASE Kill
    <2>1. TypeOK'  BY <1>6 DEF Kill, Alive, IInv, TypeOK
    <2>2. Pipes'  BY <1>6 DEF Kill, Alive, IInv, Pipes
    <2>3. Known'  BY <1>6 DEF Kill, Alive, IInv, Known
    <2>4. FailureIsFinal'  BY <1>6 DEF Kill, Alive, IInv, FailureIsFinal
    <2>5. Asking'  BY <1>6 DEF Kill, Alive, IInv, Asking
    <2>6. Stopped'  BY <1>6 DEF Kill, Alive, IInv, Stopped
    <2>7. AnswersAreTheirOwn'  BY <1>6 DEF Kill, Alive, IInv, AnswersAreTheirOwn
    <2>8. FailedWorkersGetNoWork'  BY <1>6 DEF Kill, Alive, IInv, FailedWorkersGetNoWork
    <2> QED BY <2>1, <2>2, <2>3, <2>4, <2>5, <2>6, <2>7, <2>8 DEF IInv
  <1>7. CASE WriteFails  BY <1>7, PipeKeeps DEF Pipe
  <1> QED BY <1>1, <1>2, <1>3, <1>4, <1>5, <1>6, <1>7 DEF Client

LEMMA ReaderKeeps == ASSUME IInv, Reader PROVE IInv'
  <1> USE RequestsAssumption DEF vars, caller, process
  <1>1. CASE Reads
    <2>1. Append(channel, Head(stdout)) \in Seq(Good) /\ Append(channel, Head(stdout)) \in Seq(Lines)
         BY <1>1, TailIn, AppendIn DEF Reads, IInv, Pipes, TypeOK
    <2>2. /\ Head(stdout) \in Good /\ Tail(stdout) \in Seq(Good) /\ Head(stdout) \in Lines /\ Tail(stdout) \in Seq(Lines)
         BY <1>1, TailIn DEF Reads, IInv, Pipes, TypeOK
    <2>3. TypeOK'  BY <1>1, <2>1, <2>2 DEF Reads, IInv, TypeOK
    <2>4. Pipes'  BY <1>1, <2>1, <2>2 DEF Reads, IInv, Pipes
    <2>5. Known'  BY <1>1, <2>1, <2>2 DEF Reads, IInv, Known
    <2>6. FailureIsFinal'  BY <1>1, <2>1, <2>2 DEF Reads, IInv, FailureIsFinal
    <2>7. Asking'  BY <1>1, <2>1, <2>2 DEF Reads, IInv, Asking
    <2>8. Stopped'  BY <1>1, <2>1, <2>2 DEF Reads, IInv, Stopped
    <2>9. AnswersAreTheirOwn'  BY <1>1, <2>1, <2>2 DEF Reads, IInv, AnswersAreTheirOwn
    <2>10. FailedWorkersGetNoWork'  BY <1>1, <2>1, <2>2 DEF Reads, IInv, FailedWorkersGetNoWork
    <2> QED BY <2>3, <2>4, <2>5, <2>6, <2>7, <2>8, <2>9, <2>10 DEF IInv
  <1>2. CASE ReadsEof
    <2>1. Append(channel, Eof) \in Seq(Good) /\ Append(channel, Eof) \in Seq(Lines)
         BY AppendIn DEF Eof, Good, Lines, IInv, Pipes, TypeOK
    <2>2. Eof \in Good /\ Eof \in Lines  BY DEF Eof, Good, Lines
    <2>3. TypeOK'  BY <1>2, <2>1, <2>2 DEF ReadsEof, Alive, IInv, TypeOK
    <2>4. Pipes'  BY <1>2, <2>1, <2>2 DEF ReadsEof, Alive, IInv, Pipes
    <2>5. Known'  BY <1>2, <2>1, <2>2 DEF ReadsEof, Alive, IInv, Known
    <2>6. FailureIsFinal'  BY <1>2, <2>1, <2>2 DEF ReadsEof, Alive, IInv, FailureIsFinal
    <2>7. Asking'  BY <1>2, <2>1, <2>2 DEF ReadsEof, Alive, IInv, Asking
    <2>8. Stopped'  BY <1>2, <2>1, <2>2 DEF ReadsEof, Alive, IInv, Stopped
    <2>9. AnswersAreTheirOwn'  BY <1>2, <2>1, <2>2 DEF ReadsEof, Alive, IInv, AnswersAreTheirOwn
    <2>10. FailedWorkersGetNoWork'  BY <1>2, <2>1, <2>2 DEF ReadsEof, Alive, IInv, FailedWorkersGetNoWork
    <2> QED BY <2>3, <2>4, <2>5, <2>6, <2>7, <2>8, <2>9, <2>10 DEF IInv
  <1> QED BY <1>1, <1>2 DEF Reader

(* What does not touch the pipes, as long as no worker is raised from the dead. *)
LEMMA Aside ==
  ASSUME IInv, UNCHANGED <<caller, stdin, doing, done, stubborn, stdout, channel>>,
         worker' \in {"starting", "idle", "busy", "leaving", "zombie"},
         worker' = "busy" => worker = "busy", worker = "zombie" => worker' = "zombie",
         heir' \in BOOLEAN, reader' \in BOOLEAN
  PROVE  IInv'
  <1> USE DEF caller
  <1>1. TypeOK'  BY DEF IInv, TypeOK
  <1>2. Pipes'  BY DEF IInv, Pipes
  <1>3. Known'  BY DEF IInv, Known
  <1>4. FailureIsFinal'  BY DEF IInv, FailureIsFinal
  <1>5. Asking'  BY DEF IInv, Asking
  <1>6. Stopped'  BY DEF IInv, Stopped
  <1>7. AnswersAreTheirOwn'  BY DEF IInv, AnswersAreTheirOwn
  <1>8. FailedWorkersGetNoWork'  BY DEF IInv, FailedWorkersGetNoWork
  <1> QED BY <1>1, <1>2, <1>3, <1>4, <1>5, <1>6, <1>7, <1>8 DEF IInv

LEMMA WorkerKeeps == ASSUME IInv, Worker PROVE IInv'
  <1> USE RequestsAssumption DEF vars, caller, process
  <1>1. CASE Starts
    <2>1. \A kind \in {"ready", "garbage"} : Line(kind, 0, 0) \in Good /\ Line(kind, 0, 0) \in Lines
         BY DEF Line, Good, Lines
    <2>2. /\ \A line \in Good : stdout \o <<line>> \in Seq(Good)
         /\ \A line \in Lines : stdout \o <<line>> \in Seq(Lines)
         BY OneOrTwo DEF IInv, Pipes, TypeOK
    <2>3. TypeOK'  BY <1>1, <2>1, <2>2 DEF Starts, Writes, IInv, TypeOK
    <2>4. Pipes'  BY <1>1, <2>1, <2>2 DEF Starts, Writes, IInv, Pipes
    <2>5. Known'  BY <1>1, <2>1, <2>2 DEF Starts, Writes, IInv, Known
    <2>6. FailureIsFinal'  BY <1>1, <2>1, <2>2 DEF Starts, Writes, IInv, FailureIsFinal
    <2>7. Asking'  BY <1>1, <2>1, <2>2 DEF Starts, Writes, IInv, Asking
    <2>8. Stopped'  BY <1>1, <2>1, <2>2 DEF Starts, Writes, IInv, Stopped
    <2>9. AnswersAreTheirOwn'  BY <1>1, <2>1, <2>2 DEF Starts, Writes, IInv, AnswersAreTheirOwn
    <2>10. FailedWorkersGetNoWork'  BY <1>1, <2>1, <2>2 DEF Starts, Writes, IInv, FailedWorkersGetNoWork
    <2> QED BY <2>3, <2>4, <2>5, <2>6, <2>7, <2>8, <2>9, <2>10 DEF IInv
  <1>2. CASE Takes
    <2>1. Head(stdin) \in 1..asked /\ Head(stdin) \in 1..Requests /\ Tail(stdin) \in Seq(1..asked) /\ Tail(stdin) \in Seq(1..Requests)
         BY <1>2, TailIn DEF Takes, IInv, Known, TypeOK
    <2>2. /\ Head(stdin) = stdin[1] /\ 1 \in DOMAIN stdin
         /\ \A i \in DOMAIN Tail(stdin) : i + 1 \in DOMAIN stdin /\ Tail(stdin)[i] = stdin[i + 1]
         BY <1>2 DEF Takes, IInv, TypeOK
    <2>3. TypeOK'  BY <1>2, <2>1, <2>2 DEF Takes, IInv, TypeOK
    <2>4. Pipes'  BY <1>2, <2>1, <2>2 DEF Takes, IInv, Pipes
    <2>5. Known'  BY <1>2, <2>1, <2>2 DEF Takes, IInv, Known
    <2>6. FailureIsFinal'  BY <1>2, <2>1, <2>2 DEF Takes, IInv, FailureIsFinal
    <2>7. Asking'  BY <1>2, <2>1, <2>2 DEF Takes, IInv, Asking
    <2>8. Stopped'  BY <1>2, <2>1, <2>2 DEF Takes, IInv, Stopped
    <2>9. AnswersAreTheirOwn'  BY <1>2, <2>1, <2>2 DEF Takes, IInv, AnswersAreTheirOwn
    <2>10. FailedWorkersGetNoWork'  BY <1>2, <2>1, <2>2 DEF Takes, IInv, FailedWorkersGetNoWork
    <2> QED BY <2>3, <2>4, <2>5, <2>6, <2>7, <2>8, <2>9, <2>10 DEF IInv
  <1>3. CASE Acts
    <2>1. TypeOK'  BY <1>3 DEF Acts, IInv, TypeOK, Pipes, Known
    <2>2. Pipes'  BY <1>3 DEF Acts, IInv, Pipes
    <2>3. Known'  BY <1>3 DEF Acts, IInv, Known
    <2>4. FailureIsFinal'  BY <1>3 DEF Acts, IInv, FailureIsFinal
    <2>5. Asking'  BY <1>3 DEF Acts, IInv, Asking
    <2>6. Stopped'  BY <1>3 DEF Acts, IInv, Stopped
    <2>7. AnswersAreTheirOwn'  BY <1>3 DEF Acts, IInv, AnswersAreTheirOwn
    <2>8. FailedWorkersGetNoWork'  BY <1>3 DEF Acts, IInv, FailedWorkersGetNoWork
    <2> QED BY <2>1, <2>2, <2>3, <2>4, <2>5, <2>6, <2>7, <2>8 DEF IInv
  <1>4. CASE Speaks
    <2>1. \A line \in {Line("answer", doing, doing), Line("answer", doing, 0),
                      Line("echo", doing, doing), Line("garbage", doing, 0)} : line \in Good /\ line \in Lines
         BY DEF Line, Good, Lines, IInv, TypeOK
    <2>2. /\ \A line \in Good : stdout \o <<line>> \in Seq(Good) /\ stdout \o <<line, line>> \in Seq(Good)
         /\ \A line \in Lines : stdout \o <<line>> \in Seq(Lines) /\ stdout \o <<line, line>> \in Seq(Lines)
         BY OneOrTwo DEF IInv, Pipes, TypeOK
    <2>3. TypeOK'  BY <1>4, <2>1, <2>2 DEF Speaks, Writes, IInv, TypeOK
    <2>4. Pipes'  BY <1>4, <2>1, <2>2 DEF Speaks, Writes, IInv, Pipes
    <2>5. Known'  BY <1>4, <2>1, <2>2 DEF Speaks, Writes, IInv, Known
    <2>6. FailureIsFinal'  BY <1>4, <2>1, <2>2 DEF Speaks, Writes, IInv, FailureIsFinal
    <2>7. Asking'  BY <1>4, <2>1, <2>2 DEF Speaks, Writes, IInv, Asking
    <2>8. Stopped'  BY <1>4, <2>1, <2>2 DEF Speaks, Writes, IInv, Stopped
    <2>9. AnswersAreTheirOwn'  BY <1>4, <2>1, <2>2 DEF Speaks, Writes, IInv, AnswersAreTheirOwn
    <2>10. FailedWorkersGetNoWork'  BY <1>4, <2>1, <2>2 DEF Speaks, Writes, IInv, FailedWorkersGetNoWork
    <2> QED BY <2>3, <2>4, <2>5, <2>6, <2>7, <2>8, <2>9, <2>10 DEF IInv
  <1>5. CASE Leaves  BY <1>5, Aside DEF Leaves, IInv, TypeOK
  <1>6. CASE Exits  BY <1>6, Aside DEF Exits, Alive, IInv, TypeOK
  <1>7. CASE Forks  BY <1>7, Aside DEF Forks, IInv, TypeOK
  <1>8. CASE HeirEnds  BY <1>8, Aside DEF HeirEnds, IInv, TypeOK
  <1> QED BY <1>1, <1>2, <1>3, <1>4, <1>5, <1>6, <1>7, <1>8 DEF Worker

-----------------------------------------------------------------------------
(* Theorems. *)

LEMMA StepKeeps == IInv /\ [Next]_vars => IInv'
  <1> SUFFICES ASSUME IInv, [Next]_vars PROVE IInv'  OBVIOUS
  <1>1. CASE Next  BY <1>1, CallerKeeps, PipeKeeps, ClientKeeps, ReaderKeeps, WorkerKeeps DEF Next
  <1>2. CASE UNCHANGED vars
    <2>1. /\ worker' \in {"starting", "idle", "busy", "leaving", "zombie"}
          /\ heir' \in BOOLEAN /\ reader' \in BOOLEAN
      BY <1>2 DEF vars, process, IInv, TypeOK
    <2> QED BY <1>2, <2>1, Aside DEF vars, process
  <1> QED BY <1>1, <1>2

THEOREM Invariance == Spec => []IInv
  BY InitHolds, StepKeeps, PTL DEF Spec

(* The shape of the state, and that a client that gave up receives nothing. *)
THEOREM TypeCorrect == Spec => []TypeOK
  <1>1. IInv => TypeOK  BY DEF IInv
  <1> QED BY <1>1, Invariance, PTL

(* No result is ever built from another request's line, and no worker that failed *)
(* a request is ever handed, or carries out, a later one.                         *)
THEOREM OwnAnswers == Spec => []RequestsStayApart
  <1>1. IInv => RequestsStayApart  BY DEF IInv, RequestsStayApart
  <1> QED BY <1>1, Invariance, PTL

(* A worker whose shutdown has returned carries out nothing more. *)
THEOREM QuietAfterShutdown == Spec => NothingAfterShutdown
  <1>1. IInv /\ [Next]_vars => (shut = "returned" /\ ~ stubborn => done' = done)
    <2> SUFFICES ASSUME IInv, [Next]_vars, shut = "returned" /\ ~ stubborn PROVE done' = done
      OBVIOUS
    <2>1. worker = "zombie"  BY DEF IInv, Stopped
    <2>2. CASE Caller
      BY <2>2 DEF Caller, WaitReady, Send, CannotSend, Shutdown, process
    <2>3. CASE Client
      BY <2>3 DEF Client, IsReady, IsNotReady, Returns, Fails, SeesExit, Kill, WriteFails, process
    <2>7. CASE Pipe  BY <2>7 DEF Pipe, Written, WriteFails, process
    <2>4. CASE Reader  BY <2>4 DEF Reader, Reads, ReadsEof, process
    <2>5. CASE Worker
      BY <2>1, <2>5 DEF Worker, Starts, Takes, Acts, Speaks, Leaves, Exits, Forks, HeirEnds
    <2>6. CASE UNCHANGED vars  BY <2>6 DEF vars, process
    <2> QED BY <2>2, <2>3, <2>4, <2>5, <2>6, <2>7 DEF Next
  <1>2. IInv /\ [Next]_vars => [shut = "returned" /\ ~ stubborn => done' = done]_vars
    BY <1>1
  <1> QED BY <1>2, Invariance, PTL DEF Spec, NothingAfterShutdown


-----------------------------------------------------------------------------
(* DialogBridge. *)

Messages == [kind : {"arm", "disarm", "reply"}, id : Nat, of : Commands]

BridgeTypes ==
  /\ cmd \in [Commands -> {"idle", "arming", "operating", "disarming", "answered", "lost"}]
  /\ sequence \in Nat
  /\ pending \subseteq [id : Nat, cmd : Commands, left : Nat]
  /\ queue \in Seq(Messages)
  /\ armed \in 0 .. Applied
  /\ cover \in [Commands -> 0 .. Applied] /\ handled \subseteq Commands

(* A command waits for at most one reply, and a reply has at most one waiting;  *)
(* what is in the queue under its number is its own request, or the reply to   *)
(* it once the page's half has done what was asked.                            *)
Correlated ==
  /\ \A p \in pending : p.id <= sequence /\ cmd[p.cmd] \in {"arming", "disarming"}
  /\ \A p, q \in pending : p.id = q.id \/ p.cmd = q.cmd => p = q
  /\ \A i \in DOMAIN queue : queue[i].id <= sequence
  /\ \A p \in pending, i \in DOMAIN queue : queue[i].id = p.id =>
       /\ queue[i].of = p.cmd
       /\ queue[i].kind = "arm" => cmd[p.cmd] = "arming"
       /\ queue[i].kind = "disarm" => cmd[p.cmd] = "disarming"
       /\ queue[i].kind = "reply" /\ cmd[p.cmd] = "arming" => p.cmd \in handled

(* Nobody armed who has not asked. *)
OnlyAskers ==
  /\ \A c \in handled : cmd[c] # "idle"
  /\ \A i \in DOMAIN queue : cmd[queue[i].of] # "idle"

(* Commands at work together know it. *)
Beside == \A c, d \in Commands : c # d /\ Active(c) /\ Active(d) => c \in overlapped

(* A command on its own, not yet at its disarm: until its arm is carried out, any *)
(* disarm on the way is ahead of it; from then on there is none, and the gate   *)
(* stays armed for as long as the arm has to last.                             *)
Lone(c) == c \notin overlapped /\ cmd[c] \in {"arming", "operating"}

DisarmsAhead ==
  \A c \in Commands : Lone(c) =>
    \A i, j \in DOMAIN queue :
      queue[i].kind = "disarm" /\ queue[j].kind = "arm" /\ queue[j].of = c => i < j

NoneAfterwards ==
  \A c \in handled : Lone(c) =>
    /\ cover[c] <= armed
    /\ \A i \in DOMAIN queue : queue[i].kind # "disarm"

BridgeInv ==
  /\ BridgeTypes /\ Correlated /\ OnlyAskers /\ Beside /\ DisarmsAhead /\ NoneAfterwards
  /\ RunsOnItsOwnArm

LEMMA MessageIs ==
  ASSUME NEW kind \in {"arm", "disarm", "reply"}, NEW id \in Nat, NEW of \in Commands
  PROVE  /\ Message(kind, id, of) \in Messages /\ Message(kind, id, of).kind = kind
         /\ Message(kind, id, of).id = id /\ Message(kind, id, of).of = of
BY DEF Message, Messages

(* The queue has a message more. *)
LEMMA QueueGrows ==
  ASSUME NEW m \in Messages, queue \in Seq(Messages), queue' = Append(queue, m)
  PROVE  /\ queue' \in Seq(Messages) /\ Len(queue) \in Nat
         /\ DOMAIN queue = 1 .. Len(queue) /\ DOMAIN queue' = 1 .. Len(queue) + 1
         /\ \A i \in DOMAIN queue' : \/ i \in DOMAIN queue /\ queue'[i] = queue[i]
                                     \/ i = Len(queue) + 1 /\ queue'[i] = m
<1>1. /\ queue' \in Seq(Messages) /\ Len(queue') = Len(queue) + 1 /\ Len(queue) \in Nat
      /\ \A i \in 1 .. Len(queue) : queue'[i] = queue[i]
      /\ queue'[Len(queue) + 1] = m
  BY AppendProperties, LenProperties
<1>2. DOMAIN queue = 1 .. Len(queue) /\ DOMAIN queue' = 1 .. Len(queue) + 1
  BY <1>1, LenProperties
<1> QED BY <1>1, <1>2

(* The first message is taken, and maybe answered. *)
LEMMA QueueMoves ==
  ASSUME queue \in Seq(Messages), queue # << >>,
         queue' = Tail(queue) \/ Answer(Head(queue))
  PROVE  /\ queue' \in Seq(Messages) /\ 1 \in DOMAIN queue /\ Head(queue) = queue[1]
         /\ Head(queue) \in Messages
         /\ \A i \in DOMAIN queue' : i \in Nat /\
              \/ i + 1 \in DOMAIN queue /\ queue'[i] = queue[i + 1]
              \/ /\ Answer(Head(queue)) /\ queue'[i].kind = "reply"
                 /\ queue'[i].id = Head(queue).id /\ queue'[i].of = Head(queue).of
<1> DEFINE rest == Tail(queue)
           m == Head(queue)
<1>1. /\ rest \in Seq(Messages) /\ Len(rest) = Len(queue) - 1 /\ Len(queue) \in Nat \ {0}
      /\ \A i \in 1 .. Len(rest) : rest[i] = queue[i + 1]
      /\ DOMAIN queue = 1 .. Len(queue) /\ DOMAIN rest = 1 .. Len(rest) /\ Len(rest) \in Nat
      /\ m = queue[1] /\ m \in Messages
  <2>1. rest \in Seq(Messages) /\ m \in Messages /\ Len(rest) = Len(queue) - 1
    BY HeadTailProperties
  <2>2. Len(queue) \in Nat /\ Len(queue) # 0  BY LenProperties, EmptySeq
  <2>3. \A i \in 1 .. Len(rest) : rest[i] = queue[i + 1]  BY <2>1, HeadTailProperties
  <2>4. DOMAIN queue = 1 .. Len(queue) /\ DOMAIN rest = 1 .. Len(rest)  BY <2>1, LenProperties
  <2>5. m = queue[1]  OBVIOUS
  <2> QED BY <2>1, <2>2, <2>3, <2>4, <2>5
<1>2. \A i \in 1 .. Len(rest) : i \in Nat /\ i + 1 \in DOMAIN queue  BY <1>1
<1>3. 1 \in DOMAIN queue  BY <1>1
<1>4. CASE queue' = rest
  <2>1. queue' \in Seq(Messages) /\ DOMAIN queue' = 1 .. Len(rest)
        /\ \A i \in 1 .. Len(rest) : queue'[i] = queue[i + 1]
    BY <1>1, <1>4
  <2> QED BY <1>1, <1>2, <1>3, <2>1
<1>5. CASE Answer(m)
  <2> DEFINE reply == Message("reply", m.id, m.of)
  <2>1. m.id \in Nat /\ m.of \in Commands  BY <1>1 DEF Messages
  <2>2. reply \in Messages /\ reply.kind = "reply" /\ reply.id = m.id /\ reply.of = m.of
    BY <2>1, MessageIs
  <2>3. queue' = Append(rest, reply)  BY <1>5 DEF Answer
  <2> HIDE DEF reply, rest
  <2>4. /\ queue' \in Seq(Messages) /\ Len(queue') = Len(rest) + 1
        /\ \A i \in 1 .. Len(rest) : queue'[i] = rest[i]
        /\ queue'[Len(rest) + 1] = reply
    BY <1>1, <2>2, <2>3, AppendProperties
  <2>5. DOMAIN queue' = 1 .. Len(rest) + 1  BY <2>4, LenProperties
  <2>6. \A i \in 1 .. Len(rest) + 1 : i \in Nat /\ (i \in 1 .. Len(rest) \/ i = Len(rest) + 1)
    BY <1>1
  <2>7. \A i \in DOMAIN queue' : i \in Nat /\
          \/ i + 1 \in DOMAIN queue /\ queue'[i] = queue[i + 1]
          \/ queue'[i] = reply
    BY <1>1, <1>2, <2>4, <2>5, <2>6
  <2> QED BY <1>1, <1>3, <1>5, <2>2, <2>4, <2>7
<1> QED BY <1>4, <1>5

LEMMA AppliedIs == Applied \in Nat
BY DialogBridgeAssumption DEF Applied

LEMMA BridgeStart == BridgeInit => BridgeInv
<1> SUFFICES ASSUME BridgeInit PROVE BridgeInv  OBVIOUS
<1>1. /\ cmd = [c \in Commands |-> "idle"] /\ sequence = 0 /\ pending = {} /\ queue = << >>
      /\ armed = 0 /\ handled = {} /\ cover = [c \in Commands |-> 0]
  BY DEF BridgeInit
<1>2. queue \in Seq(Messages) /\ DOMAIN queue = {}  BY <1>1
<1>3. BridgeTypes  BY <1>1, <1>2, AppliedIs DEF BridgeTypes
<1>4. \A c \in Commands : cmd[c] = "idle"  BY <1>1
<1>5. Correlated /\ OnlyAskers /\ Beside
  BY <1>1, <1>2, <1>4 DEF Correlated, OnlyAskers, Beside, Active
<1>6. DisarmsAhead /\ NoneAfterwards /\ RunsOnItsOwnArm
  BY <1>1, <1>2, <1>4 DEF DisarmsAhead, NoneAfterwards, RunsOnItsOwnArm
<1> QED BY <1>3, <1>5, <1>6 DEF BridgeInv

(* A request goes out under a number nobody has used. *)
LEMMA RequestIsNew ==
  ASSUME BridgeTypes, Correlated, NEW kind \in {"arm", "disarm"}, NEW c \in Commands,
         SendRequest(kind, c), \A p \in pending : p.cmd # c,
         cmd' = [cmd EXCEPT ![c] = IF kind = "arm" THEN "arming" ELSE "disarming"],
         handled' = handled
  PROVE  /\ Correlated' /\ sequence' \in Nat /\ queue' \in Seq(Messages) /\ Len(queue) \in Nat
         /\ pending' \subseteq [id : Nat, cmd : Commands, left : Nat]
         /\ \A i \in DOMAIN queue' :
              \/ i \in DOMAIN queue /\ i <= Len(queue) /\ queue'[i] = queue[i]
              \/ i = Len(queue) + 1 /\ queue'[i].kind = kind /\ queue'[i].of = c
<1> DEFINE m == Message(kind, sequence + 1, c)
           new == [id |-> sequence + 1, cmd |-> c, left |-> ReplyWait]
<1>1. /\ sequence \in Nat /\ sequence' = sequence + 1 /\ sequence' \in Nat
      /\ pending' = pending \cup {new} /\ queue' = Append(queue, m) /\ queue \in Seq(Messages)
      /\ pending \subseteq [id : Nat, cmd : Commands, left : Nat]
  BY DEF BridgeTypes, SendRequest
<1>2. m \in Messages /\ m.kind = kind /\ m.id = sequence + 1 /\ m.of = c
  BY <1>1, MessageIs
<1>3. new \in [id : Nat, cmd : Commands, left : Nat] /\ new.id = sequence + 1 /\ new.cmd = c
  BY <1>1, DialogBridgeAssumption
<1> HIDE DEF m, new
<1>4. /\ queue' \in Seq(Messages) /\ Len(queue) \in Nat /\ DOMAIN queue = 1 .. Len(queue)
      /\ \A i \in DOMAIN queue' : \/ i \in DOMAIN queue /\ queue'[i] = queue[i]
                                  \/ i = Len(queue) + 1 /\ queue'[i] = m
  BY <1>1, <1>2, QueueGrows
<1>5. \A i \in DOMAIN queue : queue[i].id \in Nat /\ queue[i].id <= sequence
  <2>1. \A i \in DOMAIN queue : queue[i] \in Messages  BY <1>1, ElementIn
  <2> QED BY <2>1 DEF Correlated, Messages
<1>6. /\ \A p \in pending : p.id \in Nat /\ p.id <= sequence /\ p.cmd \in Commands /\ cmd'[p.cmd] = cmd[p.cmd]
      /\ cmd'[c] \in {"arming", "disarming"}
      /\ kind = "arm" => cmd'[c] = "arming"
      /\ kind = "disarm" => cmd'[c] = "disarming"
  BY <1>1 DEF Correlated, BridgeTypes
<1>7. Correlated'
  <2>1. \A p \in pending' : p.id <= sequence' /\ cmd'[p.cmd] \in {"arming", "disarming"}
    BY <1>1, <1>3, <1>6 DEF Correlated
  <2>2. \A p, q \in pending' : p.id = q.id \/ p.cmd = q.cmd => p = q
    BY <1>1, <1>3, <1>6 DEF Correlated
  <2>3. \A i \in DOMAIN queue' : queue'[i].id <= sequence'
    BY <1>1, <1>2, <1>4, <1>5
  <2>4. ASSUME NEW p \in pending', NEW i \in DOMAIN queue', queue'[i].id = p.id
        PROVE  /\ queue'[i].of = p.cmd
               /\ queue'[i].kind = "arm" => cmd'[p.cmd] = "arming"
               /\ queue'[i].kind = "disarm" => cmd'[p.cmd] = "disarming"
               /\ queue'[i].kind = "reply" /\ cmd'[p.cmd] = "arming" => p.cmd \in handled
    <3>1. CASE p \in pending /\ i \in DOMAIN queue /\ queue'[i] = queue[i]
      BY <1>6, <2>4, <3>1 DEF Correlated
    <3>2. CASE p \in pending /\ queue'[i] = m  BY <1>1, <1>2, <1>6, <2>4, <3>2
    <3>3. CASE p = new /\ i \in DOMAIN queue /\ queue'[i] = queue[i]
      BY <1>1, <1>3, <1>5, <2>4, <3>3
    <3>4. CASE p = new /\ queue'[i] = m  BY <1>2, <1>3, <1>6, <3>4
    <3> QED BY <1>1, <1>4, <3>1, <3>2, <3>3, <3>4
  <2> QED BY <2>1, <2>2, <2>3, <2>4 DEF Correlated
<1> QED BY <1>1, <1>2, <1>3, <1>4, <1>7

(* A command begins: behind all disarms, and not beside anybody unless marked so. *)
LEMMA BeginKeeps ==
  ASSUME BridgeInv, NEW c \in Commands, Begin(c)
  PROVE  BridgeInv'
<1>1. /\ BridgeTypes /\ Correlated /\ OnlyAskers /\ Beside /\ DisarmsAhead /\ NoneAfterwards
      /\ RunsOnItsOwnArm
      /\ cmd[c] = "idle" /\ SendRequest("arm", c) /\ Arrive(c)
      /\ cmd' = [cmd EXCEPT ![c] = "arming"] /\ cover' = [cover EXCEPT ![c] = Applied]
      /\ armed' = armed /\ handled' = handled
  BY DEF BridgeInv, Begin
<1>2. /\ cmd'[c] = "arming" /\ c \notin handled
      /\ \A d \in Commands \ {c} : cmd'[d] = cmd[d] /\ cover'[d] = cover[d]
  BY <1>1 DEF BridgeTypes, OnlyAskers
<1>3. \A p \in pending : p.cmd # c  BY <1>1 DEF Correlated
<1>4. /\ Correlated' /\ sequence' \in Nat /\ queue' \in Seq(Messages) /\ Len(queue) \in Nat
      /\ pending' \subseteq [id : Nat, cmd : Commands, left : Nat]
      /\ \A i \in DOMAIN queue' :
           \/ i \in DOMAIN queue /\ i <= Len(queue) /\ queue'[i] = queue[i]
           \/ i = Len(queue) + 1 /\ queue'[i].kind = "arm" /\ queue'[i].of = c
  BY <1>1, <1>3, RequestIsNew
<1>5. BridgeTypes'
  <2>1. cmd' \in [Commands -> {"idle", "arming", "operating", "disarming", "answered", "lost"}]
        /\ cover' \in [Commands -> 0 .. Applied]
    BY <1>1, AppliedIs DEF BridgeTypes
  <2> QED BY <1>1, <1>4, <2>1 DEF BridgeTypes
<1>6. OnlyAskers'
  <2>1. \A d : cmd[d] # "idle" => cmd'[d] # "idle"
    <3>1. \A d \in Commands : cmd[d] # "idle" => cmd'[d] # "idle"  BY <1>1, <1>2
    <3>2. DOMAIN cmd = Commands  BY <1>1 DEF BridgeTypes
    <3> QED BY <1>1, <3>1, <3>2
  <2> QED BY <1>1, <1>2, <1>4, <2>1 DEF OnlyAskers
<1>7. \A d \in Commands : d # c /\ Active(d) => d \in overlapped' /\ c \in overlapped'
  BY <1>1 DEF Arrive
<1>8. overlapped \subseteq overlapped'  BY <1>1 DEF Arrive
<1>9. \A d \in Commands \ {c} : (Active(d)' <=> Active(d)) /\ (Lone(d)' => Lone(d) /\ FALSE)
  <2>1. \A d \in Commands \ {c} : Active(d)' <=> Active(d)  BY <1>2 DEF Active
  <2>2. \A d \in Commands \ {c} : Lone(d)' => Active(d)  BY <1>2 DEF Lone, Active
  <2> QED BY <1>7, <2>1, <2>2 DEF Lone
<1>10. Beside'
  BY <1>1, <1>7, <1>8, <1>9 DEF Beside
<1>11. DisarmsAhead'
  <2> SUFFICES ASSUME NEW i \in DOMAIN queue', NEW j \in DOMAIN queue',
                      queue'[i].kind = "disarm", queue'[j].kind = "arm", queue'[j].of = c
               PROVE  i < j
    BY <1>9 DEF DisarmsAhead
  <2>1. i <= Len(queue)  BY <1>4
  <2>2. j = Len(queue) + 1  BY <1>1, <1>4 DEF OnlyAskers
  <2>3. i \in Nat  BY <1>4, LenProperties
  <2> QED BY <1>4, <2>1, <2>2, <2>3
<1>12. NoneAfterwards' /\ RunsOnItsOwnArm'
  <2>1. \A d \in handled : d # c  BY <1>2
  <2>2. NoneAfterwards'
    <3> SUFFICES ASSUME NEW d \in handled, Lone(d)' PROVE FALSE  BY <1>1 DEF NoneAfterwards
    <3> QED BY <1>1, <1>9, <2>1 DEF BridgeTypes
  <2> QED BY <1>1, <1>2, <2>2 DEF RunsOnItsOwnArm
<1> QED BY <1>4, <1>5, <1>6, <1>10, <1>11, <1>12 DEF BridgeInv

(* A command ends: no other is beside it that it could disarm unawares. *)
LEMMA FinishKeeps ==
  ASSUME BridgeInv, NEW c \in Commands, Finish(c)
  PROVE  BridgeInv'
<1>1. /\ BridgeTypes /\ Correlated /\ OnlyAskers /\ Beside /\ DisarmsAhead /\ NoneAfterwards
      /\ RunsOnItsOwnArm
      /\ cmd[c] = "operating" /\ SendRequest("disarm", c)
      /\ cmd' = [cmd EXCEPT ![c] = "disarming"]
      /\ UNCHANGED <<armed, handled, cover, overlapped>>
  BY DEF BridgeInv, Finish
<1>2. cmd'[c] = "disarming" /\ \A d \in Commands \ {c} : cmd'[d] = cmd[d]
  BY <1>1 DEF BridgeTypes
<1>3. \A p \in pending : p.cmd # c  BY <1>1 DEF Correlated
<1>4. /\ Correlated' /\ sequence' \in Nat /\ queue' \in Seq(Messages) /\ Len(queue) \in Nat
      /\ pending' \subseteq [id : Nat, cmd : Commands, left : Nat]
      /\ \A i \in DOMAIN queue' :
           \/ i \in DOMAIN queue /\ i <= Len(queue) /\ queue'[i] = queue[i]
           \/ i = Len(queue) + 1 /\ queue'[i].kind = "disarm" /\ queue'[i].of = c
  BY <1>1, <1>3, RequestIsNew
<1>5. BridgeTypes'
  <2>1. cmd' \in [Commands -> {"idle", "arming", "operating", "disarming", "answered", "lost"}]
    BY <1>1 DEF BridgeTypes
  <2> QED BY <1>1, <1>4, <2>1 DEF BridgeTypes
<1>6. OnlyAskers'
  <2>1. \A d : cmd[d] # "idle" => cmd'[d] # "idle"  BY <1>1 DEF BridgeTypes
  <2> QED BY <1>1, <1>2, <1>4, <2>1 DEF OnlyAskers
<1>7. \A d \in Commands : Active(d)' <=> Active(d)  BY <1>1, <1>2 DEF Active
<1>8. Beside'  BY <1>1, <1>7 DEF Beside
<1>9. \A d \in Commands : ~ Lone(d)'
  <2>1. \A d \in Commands \ {c} : Lone(d)' => Active(d) /\ d \notin overlapped
    BY <1>1, <1>2 DEF Lone, Active
  <2>2. Active(c)  BY <1>1 DEF Active
  <2> QED BY <1>1, <1>2, <2>1, <2>2 DEF Beside, Lone
<1>10. DisarmsAhead' /\ NoneAfterwards'
  BY <1>1, <1>9 DEF DisarmsAhead, NoneAfterwards, BridgeTypes
<1>11. RunsOnItsOwnArm'  BY <1>1, <1>2 DEF RunsOnItsOwnArm
<1> QED BY <1>4, <1>5, <1>6, <1>8, <1>10, <1>11 DEF BridgeInv

(* Requests that are settled, given up or lost with their half: commands only go  *)
(* on, and one that begins its operation has its arm carried out.               *)
Progresses(c) ==
  \/ cmd'[c] = cmd[c]
  \/ cmd[c] = "arming" /\ cmd'[c] = "operating" /\ c \in handled
  \/ Active(c) /\ cmd'[c] \in {"answered", "lost"}

LEMMA ProgressKeeps ==
  ASSUME BridgeInv, \A c \in Commands : Progresses(c), pending' \subseteq pending,
         \A p \in pending' : cmd'[p.cmd] = cmd[p.cmd],
         UNCHANGED <<armed, handled, cover, overlapped, sequence>>,
         cmd' \in [Commands -> {"idle", "arming", "operating", "disarming", "answered", "lost"}],
         queue' \in Seq(Messages),
         \/ queue' = queue
         \/ \A i \in DOMAIN queue' : i \in Nat /\ i + 1 \in DOMAIN queue /\ queue'[i] = queue[i + 1]
  PROVE  BridgeInv'
<1>1. /\ BridgeTypes /\ Correlated /\ OnlyAskers /\ Beside /\ DisarmsAhead /\ NoneAfterwards
      /\ RunsOnItsOwnArm
  BY DEF BridgeInv
<1>2. \A i \in DOMAIN queue' : \E j \in DOMAIN queue : queue'[i] = queue[j]  OBVIOUS
<1>3. BridgeTypes'  BY <1>1 DEF BridgeTypes
<1>4. \A i \in DOMAIN queue : queue[i].of \in Commands
  <2>1. \A i \in DOMAIN queue : queue[i] \in Messages  BY <1>1, ElementIn DEF BridgeTypes
  <2> QED BY <2>1 DEF Messages
<1>5. Correlated'
  <2>1. \A p \in pending' : p \in pending /\ cmd'[p.cmd] = cmd[p.cmd]  OBVIOUS
  <2>2. (\A p \in pending' : p.id <= sequence' /\ cmd'[p.cmd] \in {"arming", "disarming"})
        /\ (\A p, q \in pending' : p.id = q.id \/ p.cmd = q.cmd => p = q)
        /\ \A i \in DOMAIN queue' : queue'[i].id <= sequence'
    BY <1>1, <1>2, <2>1 DEF Correlated
  <2>3. ASSUME NEW p \in pending', NEW i \in DOMAIN queue', queue'[i].id = p.id
        PROVE  /\ queue'[i].of = p.cmd
               /\ queue'[i].kind = "arm" => cmd'[p.cmd] = "arming"
               /\ queue'[i].kind = "disarm" => cmd'[p.cmd] = "disarming"
               /\ queue'[i].kind = "reply" /\ cmd'[p.cmd] = "arming" => p.cmd \in handled'
    <3>1. PICK j \in DOMAIN queue : queue'[i] = queue[j]  BY <1>2
    <3> QED BY <1>1, <2>1, <2>3, <3>1 DEF Correlated
  <2> QED BY <2>2, <2>3 DEF Correlated
<1>6. \A c \in Commands : cmd[c] # "idle" => cmd'[c] # "idle"  BY DEF Progresses
<1>7. OnlyAskers'
  BY <1>1, <1>2, <1>4, <1>6 DEF OnlyAskers, BridgeTypes
<1>8. \A c \in Commands : (Active(c)' => Active(c)) /\ (Lone(c)' => Lone(c))
  BY DEF Progresses, Active, Lone
<1>9. Beside'  BY <1>1, <1>8 DEF Beside
<1>10. DisarmsAhead'
  <2> SUFFICES ASSUME NEW c \in Commands, Lone(c), NEW i \in DOMAIN queue', NEW j \in DOMAIN queue',
                      queue'[i].kind = "disarm", queue'[j].kind = "arm", queue'[j].of = c
               PROVE  i < j
    BY <1>8 DEF DisarmsAhead
  <2>1. CASE queue' = queue  BY <1>1, <2>1 DEF DisarmsAhead
  <2>2. CASE queue' # queue
    <3>1. i \in Nat /\ j \in Nat /\ i + 1 < j + 1  BY <1>1, <2>2 DEF DisarmsAhead
    <3> QED BY <3>1
  <2> QED BY <2>1, <2>2
<1>11. NoneAfterwards'
  BY <1>1, <1>2, <1>8 DEF NoneAfterwards, BridgeTypes
<1>12. RunsOnItsOwnArm'
  BY <1>1 DEF RunsOnItsOwnArm, Progresses
<1> QED BY <1>3, <1>5, <1>7, <1>9, <1>10, <1>11, <1>12 DEF BridgeInv

(* A timer runs out, or the isolated half is gone. *)
LEMMA EndingsKeep ==
  ASSUME BridgeInv, GiveUp \/ Die
  PROVE  BridgeInv'
<1>1. /\ BridgeTypes /\ Correlated /\ UNCHANGED <<armed, handled, cover, overlapped, sequence, queue>>
  BY DEF BridgeInv, GiveUp, Die
<1>2. queue' \in Seq(Messages)  BY <1>1 DEF BridgeTypes
<1>3. CASE GiveUp
  <2>1. PICK p \in pending : /\ pending' = pending \ {p}
                             /\ cmd' = [cmd EXCEPT ![p.cmd] = "answered"]
    BY <1>3 DEF GiveUp
  <2>2. p.cmd \in Commands /\ cmd[p.cmd] \in {"arming", "disarming"}
    BY <1>1 DEF BridgeTypes, Correlated
  <2>3. cmd' \in [Commands -> {"idle", "arming", "operating", "disarming", "answered", "lost"}]
    BY <1>1, <2>1, <2>2 DEF BridgeTypes
  <2>4. \A c \in Commands : Progresses(c)
    BY <1>1, <2>1, <2>2 DEF BridgeTypes, Progresses, Active
  <2>5. \A q \in pending' : cmd'[q.cmd] = cmd[q.cmd]
    BY <1>1, <2>1 DEF BridgeTypes, Correlated
  <2>6. pending' \subseteq pending  BY <2>1
  <2> QED BY <1>1, <1>2, <2>3, <2>4, <2>5, <2>6, ProgressKeeps
<1>4. CASE Die
  <2>1. pending' = {} /\ cmd' = [c \in Commands |-> IF Active(c) THEN "lost" ELSE cmd[c]]
    BY <1>4 DEF Die
  <2>2. cmd' \in [Commands -> {"idle", "arming", "operating", "disarming", "answered", "lost"}]
    BY <1>1, <2>1 DEF BridgeTypes
  <2>3. \A c \in Commands : Progresses(c)  BY <2>1 DEF Progresses
  <2> QED BY <1>1, <1>2, <2>1, <2>2, <2>3, ProgressKeeps
<1> QED BY <1>3, <1>4

(* The reply reaches the one who waits for it, whose arm has been carried out. *)
LEMMA ReplyKeeps ==
  ASSUME BridgeInv, queue # << >>, queue' = Tail(queue), Head(queue).kind = "reply",
         Settle(Head(queue)), UNCHANGED <<armed, handled, cover, overlapped, sequence>>
  PROVE  BridgeInv'
<1> DEFINE m == Head(queue)
           entry == {p \in pending : p.id = m.id}
<1>1. BridgeTypes /\ Correlated  BY DEF BridgeInv
<1>2. /\ queue' \in Seq(Messages) /\ 1 \in DOMAIN queue /\ m = queue[1]
      /\ \A i \in DOMAIN queue' : i \in Nat /\ i + 1 \in DOMAIN queue /\ queue'[i] = queue[i + 1]
  <2>1. queue \in Seq(Messages)  BY <1>1 DEF BridgeTypes
  <2>2. /\ DOMAIN queue = 1 .. Len(queue) /\ Len(queue) \in Nat \ {0}
        /\ Len(Tail(queue)) = Len(queue) - 1 /\ Tail(queue) \in Seq(Messages)
        /\ \A i \in 1 .. Len(Tail(queue)) : Tail(queue)[i] = queue[i + 1]
    BY <2>1, LenProperties, EmptySeq, HeadTailProperties
  <2>3. DOMAIN Tail(queue) = 1 .. Len(Tail(queue))  BY <2>2, LenProperties
  <2>4. \A i \in 1 .. Len(Tail(queue)) : i \in Nat /\ i + 1 \in 1 .. Len(queue)  BY <2>2
  <2>5. 1 \in 1 .. Len(queue)  BY <2>2
  <2> QED BY <2>1, <2>2, <2>3, <2>4, <2>5
<1>3. /\ cmd' = [c \in Commands |-> IF \E p \in entry : p.cmd = c THEN AfterReply(c) ELSE cmd[c]]
      /\ pending' = pending \ entry
  BY DEF Settle
<1>4. \A p \in entry : /\ p \in pending /\ p.cmd \in Commands
                       /\ cmd[p.cmd] \in {"arming", "disarming"}
                       /\ cmd[p.cmd] = "arming" => p.cmd \in handled
  BY <1>1, <1>2 DEF Correlated, BridgeTypes
<1>5. \A c \in Commands : cmd[c] = "arming" \/ AfterReply(c) = "answered"  BY DEF AfterReply
<1>6. \A c \in Commands : cmd[c] = "arming" => AfterReply(c) = "operating"  BY DEF AfterReply
<1>7. cmd' \in [Commands -> {"idle", "arming", "operating", "disarming", "answered", "lost"}]
  BY <1>1, <1>3, <1>5, <1>6 DEF BridgeTypes
<1> HIDE DEF entry
<1>8. \A c \in Commands : Progresses(c)
  BY <1>3, <1>4, <1>5, <1>6 DEF Progresses, Active
<1>9. \A p \in pending' : cmd'[p.cmd] = cmd[p.cmd]
  <2> SUFFICES ASSUME NEW p \in pending, p \notin entry PROVE cmd'[p.cmd] = cmd[p.cmd]  BY <1>3
  <2>1. ~ \E q \in entry : q.cmd = p.cmd  BY <1>1, <1>4 DEF Correlated
  <2> QED BY <1>1, <1>3, <2>1 DEF BridgeTypes
<1>10. pending' \subseteq pending  BY <1>3
<1> QED BY <1>2, <1>7, <1>8, <1>9, <1>10, ProgressKeeps

(* A request reaches the page's half. *)
LEMMA RequestKeeps ==
  ASSUME BridgeInv, queue # << >>, Answer(Head(queue)),
         UNCHANGED <<cmd, pending, cover, overlapped, sequence>>,
         \/ Head(queue).kind = "arm" /\ Arm /\ handled' = handled \cup {Head(queue).of}
         \/ Head(queue).kind = "disarm" /\ Disarm /\ handled' = handled
  PROVE  BridgeInv'
<1> DEFINE m == Head(queue)
<1>1. /\ BridgeTypes /\ Correlated /\ OnlyAskers /\ Beside /\ DisarmsAhead /\ NoneAfterwards
      /\ RunsOnItsOwnArm /\ queue \in Seq(Messages)
  BY DEF BridgeInv, BridgeTypes
<1>2. /\ queue' \in Seq(Messages) /\ 1 \in DOMAIN queue /\ m = queue[1] /\ m \in Messages
      /\ \A i \in DOMAIN queue' : i \in Nat /\
           \/ i + 1 \in DOMAIN queue /\ queue'[i] = queue[i + 1]
           \/ queue'[i].kind = "reply" /\ queue'[i].id = m.id /\ queue'[i].of = m.of
  BY <1>1, QueueMoves
<1> HIDE DEF m
<1>3. m.id \in Nat /\ m.of \in Commands /\ handled \subseteq handled'  BY <1>2 DEF Messages, m
<1>4. armed \in 0 .. Applied /\ armed' \in 0 .. Applied /\ Applied \in Nat
  BY <1>1, AppliedIs DEF BridgeTypes, Arm, Disarm
<1>5. BridgeTypes'  BY <1>1, <1>2, <1>3, <1>4 DEF BridgeTypes, m
<1>6. Correlated'
  <2>1. \A i \in DOMAIN queue' : queue'[i].id <= sequence'  BY <1>1, <1>2 DEF Correlated
  <2>2. ASSUME NEW p \in pending, NEW i \in DOMAIN queue', queue'[i].id = p.id
        PROVE  /\ queue'[i].of = p.cmd
               /\ queue'[i].kind = "arm" => cmd[p.cmd] = "arming"
               /\ queue'[i].kind = "disarm" => cmd[p.cmd] = "disarming"
               /\ queue'[i].kind = "reply" /\ cmd[p.cmd] = "arming" => p.cmd \in handled'
    <3>1. CASE i + 1 \in DOMAIN queue /\ queue'[i] = queue[i + 1]
      BY <1>1, <1>3, <2>2, <3>1 DEF Correlated
    <3>2. CASE queue'[i].kind = "reply" /\ queue'[i].id = m.id /\ queue'[i].of = m.of
      <4>0. 1 \in DOMAIN queue /\ m = queue[1] /\ queue[1].id = p.id  BY <1>2, <2>2, <3>2 DEF m
      <4>1. m.of = p.cmd /\ (m.kind = "disarm" => cmd[p.cmd] = "disarming")
        BY <1>1, <4>0 DEF Correlated
      <4> QED BY <3>2, <4>1 DEF m
    <3> QED BY <1>2, <3>1, <3>2
  <2> QED BY <1>1, <2>1, <2>2 DEF Correlated
<1>7. OnlyAskers'
  <2>1. cmd[m.of] # "idle"  BY <1>1, <1>2 DEF OnlyAskers
  <2>2. \A i \in DOMAIN queue' : cmd[queue'[i].of] # "idle"  BY <1>1, <1>2, <2>1 DEF OnlyAskers
  <2> QED BY <1>1, <2>1, <2>2 DEF OnlyAskers, m
<1>8. Beside'  BY <1>1 DEF Beside, Active
<1>9. \A c : Lone(c)' <=> Lone(c)  BY DEF Lone
<1>10. DisarmsAhead'
  <2> SUFFICES ASSUME NEW c \in Commands, Lone(c), NEW i \in DOMAIN queue', NEW j \in DOMAIN queue',
                      queue'[i].kind = "disarm", queue'[j].kind = "arm", queue'[j].of = c
               PROVE  i < j
    BY <1>9 DEF DisarmsAhead
  <2>1. i \in Nat /\ j \in Nat /\ i + 1 < j + 1  BY <1>1, <1>2 DEF DisarmsAhead
  <2> QED BY <2>1
<1>11. NoneAfterwards'
  <2> SUFFICES ASSUME NEW c \in handled', Lone(c)
               PROVE  cover[c] <= armed' /\ \A i \in DOMAIN queue' : queue'[i].kind # "disarm"
    BY <1>9 DEF NoneAfterwards
  <2>1. CASE c \in handled
    <3>1. cover[c] <= armed /\ m.kind # "disarm" /\ cover[c] \in 0 .. Applied
      BY <1>1, <1>2, <2>1 DEF NoneAfterwards, BridgeTypes
    <3>2. armed <= armed'  BY <1>4, <3>1 DEF Arm, m
    <3> QED BY <1>1, <1>2, <1>4, <2>1, <3>1, <3>2 DEF NoneAfterwards
  <2>2. CASE c \notin handled
    <3>1. m.kind = "arm" /\ c = m.of /\ armed' = Applied
      BY <1>4, <2>2 DEF Arm, m
    <3>2. c \in Commands /\ cover[c] \in 0 .. Applied  BY <1>1, <1>3, <3>1 DEF BridgeTypes
    <3>3. ASSUME NEW i \in DOMAIN queue, queue[i].kind = "disarm" PROVE FALSE
      <4>1. i < 1  BY <1>1, <1>2, <3>1, <3>2, <3>3 DEF DisarmsAhead
      <4> QED BY <1>1, <4>1, LenProperties
    <3> QED BY <1>2, <1>4, <3>1, <3>2, <3>3
  <2> QED BY <2>1, <2>2
<1>12. RunsOnItsOwnArm'  BY <1>1, <1>3 DEF RunsOnItsOwnArm
<1> QED BY <1>5, <1>6, <1>7, <1>8, <1>10, <1>11, <1>12 DEF BridgeInv

LEMMA DispatchKeeps ==
  ASSUME BridgeInv, Dispatch
  PROVE  BridgeInv'
<1> DEFINE m == Head(queue)
<1>1. /\ queue # << >> /\ queue \in Seq(Messages)
      /\ UNCHANGED <<sequence, cover, overlapped>>
  BY DEF BridgeInv, BridgeTypes, Dispatch
<1>2. CASE m.kind = "reply" /\ queue' = Tail(queue) /\ Settle(m) /\ UNCHANGED <<armed, handled>>
  BY <1>1, <1>2, ReplyKeeps
<1>3. CASE queue' = Tail(queue) /\ UNCHANGED <<armed, handled, cmd, pending>>
  <2>1. /\ queue' \in Seq(Messages)
        /\ \A i \in DOMAIN queue' : i \in Nat /\ i + 1 \in DOMAIN queue /\ queue'[i] = queue[i + 1]
    <3>1. /\ DOMAIN queue = 1 .. Len(queue) /\ Len(queue) \in Nat
          /\ Len(Tail(queue)) = Len(queue) - 1 /\ Tail(queue) \in Seq(Messages)
          /\ \A i \in 1 .. Len(Tail(queue)) : Tail(queue)[i] = queue[i + 1]
      BY <1>1, LenProperties, HeadTailProperties
    <3>2. DOMAIN Tail(queue) = 1 .. Len(Tail(queue))  BY <3>1, LenProperties
    <3>3. \A i \in 1 .. Len(Tail(queue)) : i \in Nat /\ i + 1 \in 1 .. Len(queue)  BY <3>1
    <3> QED BY <1>3, <3>1, <3>2, <3>3
  <2>2. cmd' \in [Commands -> {"idle", "arming", "operating", "disarming", "answered", "lost"}]
    BY <1>3 DEF BridgeInv, BridgeTypes
  <2>3. \A c \in Commands : Progresses(c)  BY <1>3 DEF Progresses
  <2> QED BY <1>1, <1>3, <2>1, <2>2, <2>3, ProgressKeeps
<1>4. CASE /\ UNCHANGED <<cmd, pending>> /\ Answer(m)
           /\ \/ m.kind = "arm" /\ Arm /\ handled' = handled \cup {m.of}
              \/ m.kind = "disarm" /\ Disarm /\ handled' = handled
  BY <1>1, <1>4, RequestKeeps
<1> QED BY <1>2, <1>3, <1>4 DEF Dispatch

(* Time passes for the gate and for the command it covers alike. *)
LEMMA TickKeeps ==
  ASSUME BridgeInv, Tick
  PROVE  BridgeInv'
<1>1. /\ BridgeTypes /\ Correlated /\ OnlyAskers /\ Beside /\ DisarmsAhead /\ NoneAfterwards
      /\ RunsOnItsOwnArm
      /\ armed' = Less(armed) /\ cover' = [c \in Commands |-> Less(cover[c])]
      /\ pending' = {[p EXCEPT !.left = Less(p.left)] : p \in pending}
      /\ UNCHANGED <<cmd, sequence, queue, handled, overlapped>>
  BY DEF BridgeInv, Tick, Lapses
<1>2. \A n \in 0 .. Applied : Less(n) \in 0 .. Applied  BY AppliedIs DEF Less
<1>3. \A n \in Nat : Less(n) \in Nat  BY DEF Less
<1>4. \A k, n \in 0 .. Applied : k <= n => Less(k) <= Less(n)  BY AppliedIs DEF Less
<1>5. \A q \in pending' : \E p \in pending :
        q = [p EXCEPT !.left = Less(p.left)] /\ q.id = p.id /\ q.cmd = p.cmd
        /\ q \in [id : Nat, cmd : Commands, left : Nat]
  <2> SUFFICES ASSUME NEW p \in pending
               PROVE  LET q == [p EXCEPT !.left = Less(p.left)]
                      IN  /\ q.id = p.id /\ q.cmd = p.cmd
                          /\ q \in [id : Nat, cmd : Commands, left : Nat]
    BY <1>1
  <2>1. p \in [id : Nat, cmd : Commands, left : Nat] /\ Less(p.left) \in Nat
    BY <1>1, <1>3 DEF BridgeTypes
  <2> QED BY <2>1
<1>6. BridgeTypes'
  <2>1. pending' \subseteq [id : Nat, cmd : Commands, left : Nat]  BY <1>5
  <2>2. armed' \in 0 .. Applied /\ cover' \in [Commands -> 0 .. Applied]
    BY <1>1, <1>2 DEF BridgeTypes
  <2> QED BY <1>1, <2>1, <2>2 DEF BridgeTypes
<1>7. Correlated'
  <2>1. \A q \in pending' : q.id <= sequence /\ cmd[q.cmd] \in {"arming", "disarming"}
    BY <1>1, <1>5 DEF Correlated
  <2>2. ASSUME NEW q \in pending', NEW r \in pending', q.id = r.id \/ q.cmd = r.cmd PROVE q = r
    <3>1. PICK p \in pending : q = [p EXCEPT !.left = Less(p.left)] /\ q.id = p.id /\ q.cmd = p.cmd
      BY <1>5
    <3>2. PICK s \in pending : r = [s EXCEPT !.left = Less(s.left)] /\ r.id = s.id /\ r.cmd = s.cmd
      BY <1>5
    <3>3. p = s  BY <1>1, <2>2, <3>1, <3>2 DEF Correlated
    <3> QED BY <3>1, <3>2, <3>3
  <2>3. ASSUME NEW q \in pending', NEW i \in DOMAIN queue, queue[i].id = q.id
        PROVE  /\ queue[i].of = q.cmd
               /\ queue[i].kind = "arm" => cmd[q.cmd] = "arming"
               /\ queue[i].kind = "disarm" => cmd[q.cmd] = "disarming"
               /\ queue[i].kind = "reply" /\ cmd[q.cmd] = "arming" => q.cmd \in handled
    <3>1. PICK p \in pending : q.id = p.id /\ q.cmd = p.cmd  BY <1>5
    <3> QED BY <1>1, <2>3, <3>1 DEF Correlated
  <2> QED BY <1>1, <2>1, <2>2, <2>3 DEF Correlated
<1>8. OnlyAskers' /\ Beside' /\ RunsOnItsOwnArm'
  BY <1>1 DEF OnlyAskers, Beside, Active, RunsOnItsOwnArm
<1>9. \A c : Lone(c)' <=> Lone(c)  BY <1>1 DEF Lone
<1>10. DisarmsAhead'  BY <1>1, <1>9 DEF DisarmsAhead
<1>11. NoneAfterwards'
  <2> SUFFICES ASSUME NEW c \in handled, Lone(c) PROVE cover'[c] <= armed'
    BY <1>1, <1>9 DEF NoneAfterwards
  <2>1. c \in Commands /\ cover[c] \in 0 .. Applied /\ armed \in 0 .. Applied  BY <1>1 DEF BridgeTypes
  <2> QED BY <1>1, <1>4, <2>1 DEF NoneAfterwards
<1> QED BY <1>6, <1>7, <1>8, <1>10, <1>11 DEF BridgeInv

LEMMA BridgeStep == BridgeInv /\ [BridgeNext]_bridgeVars => BridgeInv'
<1> SUFFICES ASSUME BridgeInv, [BridgeNext]_bridgeVars PROVE BridgeInv'  OBVIOUS
<1>1. CASE \E c \in Commands : Begin(c) \/ Finish(c)  BY <1>1, BeginKeeps, FinishKeeps
<1>2. CASE GiveUp \/ Die  BY <1>2, EndingsKeep
<1>3. CASE Dispatch  BY <1>3, DispatchKeeps
<1>4. CASE Tick  BY <1>4, TickKeeps
<1>5. CASE ShowDialog \/ Dismiss \/ UNCHANGED bridgeVars
  <2>1. UNCHANGED <<cmd, sequence, pending, queue, armed, handled, cover, overlapped>>
    BY <1>5 DEF ShowDialog, Dismiss, bridgeVars, client
  <2>2. BridgeTypes' /\ Correlated' /\ OnlyAskers'
    BY <2>1 DEF BridgeInv, BridgeTypes, Correlated, OnlyAskers
  <2>3. Beside' /\ RunsOnItsOwnArm'  BY <2>1 DEF BridgeInv, Beside, Active, RunsOnItsOwnArm
  <2>4. DisarmsAhead' /\ NoneAfterwards'
    BY <2>1 DEF BridgeInv, DisarmsAhead, NoneAfterwards, Lone
  <2> QED BY <2>2, <2>3, <2>4 DEF BridgeInv
<1> QED BY <1>1, <1>2, <1>3, <1>4, <1>5 DEF BridgeNext

(* The inductive invariant of the bridge: a reply finds the one request it        *)
(* answers, and disarms reach the gate before the arm of whoever came after.    *)
THEOREM BridgeInductive == BridgeSpec => []BridgeInv
<1> QED BY BridgeStart, BridgeStep, PTL DEF BridgeSpec

(* For every number of commands and any limits, an operation runs on an arm of    *)
(* its own, and one that overlaps no other has the gate armed for as long as its *)
(* arm has to last, whatever was given up before it.                            *)
THEOREM SubmissionsAreCovered == BridgeSpec => []CommandsAreCovered
<1>1. BridgeInv => CommandsAreCovered
  <2> SUFFICES ASSUME BridgeInv PROVE CommandsAreCovered  OBVIOUS
  <2>1. BridgeTypes /\ RunsOnItsOwnArm /\ NoneAfterwards  BY DEF BridgeInv
  <2>2. ASSUME NEW c \in Commands \ overlapped, cmd[c] = "operating", cover[c] > 0 PROVE armed > 0
    <3>1. c \in handled /\ Lone(c)  BY <2>1, <2>2 DEF RunsOnItsOwnArm, Lone
    <3>2. cover[c] <= armed /\ cover[c] \in 0 .. Applied /\ armed \in 0 .. Applied
      BY <2>1, <2>2, <3>1 DEF NoneAfterwards, BridgeTypes
    <3> QED BY <2>2, <3>2, AppliedIs
  <2> QED BY <2>1, <2>2 DEF CommandsAreCovered, LoneCommandIsCovered
<1> QED BY <1>1, BridgeInductive, PTL

(* While nobody has given up an arm: an arm on the way has a command that waits   *)
(* for it, and the gate is armed only while a command has its disarm before it,  *)
(* or that disarm is on the way.                                               *)
Owing ==
  \/ \E c \in Commands : cmd[c] \in {"arming", "operating"}
  \/ \E i \in DOMAIN queue : queue[i].kind = "disarm"

DisarmsOwed ==
  /\ ~ injected => armed = 0
  /\ \A i, j \in DOMAIN queue : queue[i].id = queue[j].id => i = j
  /\ alive /\ ~ abandoned =>
       /\ \A i \in DOMAIN queue : queue[i].kind = "arm" => \E p \in pending : p.id = queue[i].id
       /\ armed > 0 => Owing

LEMMA OwedStart == BridgeInit => DisarmsOwed
<1> SUFFICES ASSUME BridgeInit PROVE DisarmsOwed  OBVIOUS
<1>1. armed = 0 /\ DOMAIN queue = {}  BY DEF BridgeInit
<1> QED BY <1>1 DEF DisarmsOwed

(* A request goes out. *)
LEMMA OwedAfterRequest ==
  ASSUME BridgeTypes, Correlated, DisarmsOwed, NEW kind \in {"arm", "disarm"}, NEW c \in Commands,
         SendRequest(kind, c), cmd' = [cmd EXCEPT ![c] = IF kind = "arm" THEN "arming" ELSE "disarming"],
         UNCHANGED <<armed, injected, alive, abandoned>>
  PROVE  DisarmsOwed'
<1> DEFINE m == Message(kind, sequence + 1, c)
           new == [id |-> sequence + 1, cmd |-> c, left |-> ReplyWait]
<1>1. /\ sequence \in Nat /\ pending' = pending \cup {new} /\ queue' = Append(queue, m)
      /\ queue \in Seq(Messages) /\ new.id = sequence + 1
  BY DEF BridgeTypes, SendRequest
<1>2. m \in Messages /\ m.kind = kind /\ m.id = sequence + 1 /\ m.of = c
  BY <1>1, MessageIs
<1> HIDE DEF m, new
<1>3. /\ Len(queue) \in Nat /\ DOMAIN queue = 1 .. Len(queue) /\ DOMAIN queue' = 1 .. Len(queue) + 1
      /\ \A i \in DOMAIN queue' : \/ i \in DOMAIN queue /\ queue'[i] = queue[i]
                                  \/ i = Len(queue) + 1 /\ queue'[i] = m
  BY <1>1, <1>2, QueueGrows
<1>4. \A i \in DOMAIN queue : queue[i].id # sequence + 1
  <2>1. \A i \in DOMAIN queue : queue[i] \in Messages  BY <1>1, ElementIn
  <2> QED BY <1>1, <2>1 DEF Correlated, Messages
<1>5. \A i, j \in DOMAIN queue' : queue'[i].id = queue'[j].id => i = j
  BY <1>2, <1>3, <1>4 DEF DisarmsOwed
<1>6. ASSUME alive, ~ abandoned, NEW i \in DOMAIN queue', queue'[i].kind = "arm"
      PROVE  \E p \in pending' : p.id = queue'[i].id
  BY <1>1, <1>2, <1>3, <1>6 DEF DisarmsOwed
<1>7. Owing'
  <2>1. CASE kind = "arm"
    <3>1. cmd'[c] = "arming"  BY <2>1 DEF BridgeTypes
    <3> QED BY <3>1 DEF Owing
  <2>2. CASE kind = "disarm"
    <3>1. Len(queue) + 1 \in DOMAIN queue' /\ Len(queue) + 1 \notin DOMAIN queue  BY <1>3
    <3>2. queue'[Len(queue) + 1].kind = "disarm"  BY <1>2, <1>3, <2>2, <3>1
    <3> QED BY <3>1, <3>2 DEF Owing
  <2> QED BY <2>1, <2>2
<1> QED BY <1>5, <1>6, <1>7 DEF DisarmsOwed

(* A message arrives. *)
LEMMA OwedAfterDispatch ==
  ASSUME BridgeInv, DisarmsOwed, Dispatch
  PROVE  DisarmsOwed'
<1> DEFINE m == Head(queue)
<1>1. /\ BridgeTypes /\ Correlated /\ queue # << >> /\ queue \in Seq(Messages)
      /\ queue' = Tail(queue) \/ Answer(m)
      /\ UNCHANGED <<injected, alive, abandoned>>
  BY DEF BridgeInv, BridgeTypes, Dispatch
<1>2. /\ queue' \in Seq(Messages) /\ 1 \in DOMAIN queue /\ m = queue[1]
      /\ \A i \in DOMAIN queue' : i \in Nat /\
           \/ i + 1 \in DOMAIN queue /\ queue'[i] = queue[i + 1]
           \/ /\ Answer(m) /\ queue'[i].kind = "reply" /\ queue'[i].id = m.id /\ queue'[i].of = m.of
  BY <1>1, QueueMoves
<1>3. /\ DOMAIN queue = 1 .. Len(queue) /\ Len(queue) \in Nat \ {0}
      /\ Len(Tail(queue)) = Len(queue) - 1 /\ Tail(queue) \in Seq(Messages)
      /\ \A i \in 1 .. Len(Tail(queue)) : Tail(queue)[i] = queue[i + 1]
  BY <1>1, LenProperties, EmptySeq, HeadTailProperties
<1>4. /\ \A i \in 1 .. Len(queue) - 1 : i \in DOMAIN queue' /\ queue'[i] = queue[i + 1]
      /\ \A i \in DOMAIN queue' : i \in 1 .. Len(queue)
      /\ Len(queue) \in DOMAIN queue' => queue'[Len(queue)].id = m.id
  <2> DEFINE rest == Tail(queue)
             reply == Message("reply", m.id, m.of)
  <2>1. rest \in Seq(Messages) /\ Len(rest) = Len(queue) - 1 /\ DOMAIN rest = 1 .. Len(rest)
        /\ \A i \in 1 .. Len(rest) : rest[i] = queue[i + 1]
    BY <1>3, LenProperties
  <2>2. m \in Messages  BY <1>2, <1>1, ElementIn
  <2>3. reply \in Messages /\ reply.id = m.id  BY <2>2, MessageIs DEF Messages
  <2>4. queue' = rest \/ queue' = Append(rest, reply)  BY <1>1 DEF Answer
  <2> HIDE DEF rest, reply, m
  <2>5. CASE queue' = rest  BY <1>3, <2>1, <2>5
  <2>6. CASE queue' = Append(rest, reply)
    <3>1. /\ Len(queue') = Len(rest) + 1 /\ queue' \in Seq(Messages)
          /\ \A i \in 1 .. Len(rest) : queue'[i] = rest[i]
          /\ queue'[Len(rest) + 1] = reply
      BY <2>1, <2>3, <2>6, AppendProperties
    <3>2. DOMAIN queue' = 1 .. Len(queue)  BY <1>3, <2>1, <3>1, LenProperties
    <3> QED BY <1>3, <2>1, <2>3, <3>1, <3>2
  <2> QED BY <2>4, <2>5, <2>6
<1> HIDE DEF m
<1>5. \A i, j \in DOMAIN queue' : queue'[i].id = queue'[j].id => i = j
  <2> SUFFICES ASSUME NEW i \in DOMAIN queue', NEW j \in DOMAIN queue', queue'[i].id = queue'[j].id,
                      i < j
               PROVE  FALSE
    BY <1>3, <1>4
  <2>1. i \in 1 .. Len(queue) - 1 /\ queue'[i] = queue[i + 1] /\ i + 1 \in DOMAIN queue /\ i + 1 # 1
    BY <1>3, <1>4
  <2>2. CASE j = Len(queue)
    <3>1. queue[i + 1].id = queue[1].id  BY <1>2, <1>4, <2>1, <2>2
    <3> QED BY <1>2, <2>1, <3>1 DEF DisarmsOwed
  <2>3. CASE j # Len(queue)
    <3>1. queue'[j] = queue[j + 1] /\ j + 1 \in DOMAIN queue /\ i + 1 # j + 1
      BY <1>3, <1>4, <2>3
    <3> QED BY <2>1, <3>1 DEF DisarmsOwed
  <2> QED BY <2>2, <2>3
<1>6. \A p \in pending : p.id # m.id => p \in pending'  BY DEF Dispatch, Settle, m
<1>7. ASSUME alive, ~ abandoned, NEW i \in DOMAIN queue', queue'[i].kind = "arm"
      PROVE  \E p \in pending' : p.id = queue'[i].id
  <2>1. i \in Nat /\ i + 1 \in DOMAIN queue /\ queue'[i] = queue[i + 1]  BY <1>2, <1>7
  <2>2. queue[i + 1].id # m.id
    <3>1. i \in 1 .. Len(queue) /\ i + 1 # 1  BY <1>3, <1>4
    <3> QED BY <1>2, <2>1, <3>1 DEF DisarmsOwed
  <2>3. \E p \in pending : p.id = queue[i + 1].id  BY <1>7, <2>1 DEF DisarmsOwed
  <2> QED BY <1>6, <2>1, <2>2, <2>3
<1>8. \A i \in DOMAIN queue : queue[i].kind = "disarm" /\ i # 1 =>
        \E j \in DOMAIN queue' : queue'[j].kind = "disarm"
  <2> SUFFICES ASSUME NEW i \in DOMAIN queue, queue[i].kind = "disarm", i # 1
               PROVE  \E j \in DOMAIN queue' : queue'[j].kind = "disarm"
    OBVIOUS
  <2>1. i - 1 \in 1 .. Len(queue) - 1 /\ (i - 1) + 1 = i  BY <1>3
  <2>2. i - 1 \in DOMAIN queue' /\ queue'[i - 1] = queue[i]  BY <1>4, <2>1
  <2> QED BY <2>2
<1>9. ASSUME alive, ~ abandoned, armed' > 0 PROVE Owing'
  <2>1. CASE m.kind = "arm" /\ injected /\ UNCHANGED <<cmd, pending>>
    <3>1. PICK p \in pending : p.id = queue[1].id  BY <1>2, <1>9, <2>1 DEF DisarmsOwed
    <3>2. cmd[p.cmd] = "arming" /\ p.cmd \in Commands
      BY <1>1, <1>2, <2>1, <3>1 DEF Correlated, BridgeTypes
    <3> QED BY <2>1, <3>2 DEF Owing
  <2>2. CASE armed' = armed /\ (m.kind = "reply" \/ ~ injected)
    <3>1. armed > 0 /\ injected /\ m.kind = "reply" /\ Owing
      BY <1>9, <2>2 DEF DisarmsOwed
    <3>2. Settle(m)
      BY <1>1, <3>1 DEF Dispatch, m
    <3>3. ASSUME NEW c \in Commands, cmd[c] \in {"arming", "operating"} PROVE cmd'[c] \in {"arming", "operating"}
      <4>1. cmd'[c] = cmd[c] \/ (cmd'[c] = AfterReply(c) /\ \E p \in pending : p.id = m.id /\ p.cmd = c)
        BY <3>2 DEF Settle
      <4>2. (\E p \in pending : p.cmd = c) => cmd[c] = "arming"
        BY <1>1, <3>3 DEF Correlated
      <4> QED BY <3>3, <4>1, <4>2 DEF AfterReply
    <3>4. \A i \in DOMAIN queue : queue[i].kind = "disarm" => i # 1  BY <1>2, <3>1
    <3> QED BY <1>8, <3>1, <3>3, <3>4 DEF Owing
  <2>3. CASE m.kind = "disarm" /\ armed' = 0  BY <1>9, <2>3
  <2> QED BY <2>1, <2>2, <2>3 DEF Dispatch, Disarm, m
<1>10. ~ injected => armed' = armed  BY DEF Dispatch
<1> QED BY <1>1, <1>5, <1>7, <1>9, <1>10 DEF DisarmsOwed

LEMMA OwedStep == BridgeInv /\ DisarmsOwed /\ [BridgeNext]_bridgeVars => DisarmsOwed'
<1> SUFFICES ASSUME BridgeInv, DisarmsOwed, [BridgeNext]_bridgeVars PROVE DisarmsOwed'  OBVIOUS
<1>0. BridgeTypes /\ Correlated  BY DEF BridgeInv
<1>1. ASSUME NEW c \in Commands, Begin(c) PROVE DisarmsOwed'
  BY <1>0, <1>1, OwedAfterRequest DEF Begin
<1>2. ASSUME NEW c \in Commands, Finish(c) PROVE DisarmsOwed'
  BY <1>0, <1>2, OwedAfterRequest DEF Finish
<1>3. CASE GiveUp
  <2>1. PICK p \in pending :
          /\ pending' = pending \ {p} /\ cmd' = [cmd EXCEPT ![p.cmd] = "answered"]
          /\ abandoned' = (abandoned \/ cmd[p.cmd] = "arming")
          /\ UNCHANGED <<queue, armed, injected, alive>>
    BY <1>3 DEF GiveUp
  <2>2. p.cmd \in Commands /\ cmd[p.cmd] \in {"arming", "disarming"}
    BY <1>0 DEF BridgeTypes, Correlated
  <2>3. ASSUME alive, ~ abandoned' PROVE
          /\ \A i \in DOMAIN queue : queue[i].kind = "arm" => \E q \in pending' : q.id = queue[i].id
          /\ armed > 0 => Owing'
    <3>1. cmd[p.cmd] = "disarming" /\ ~ abandoned  BY <2>1, <2>2, <2>3
    <3>2. \A i \in DOMAIN queue : queue[i].kind = "arm" => queue[i].id # p.id
      BY <1>0, <3>1 DEF Correlated
    <3>3. \A c \in Commands : cmd[c] \in {"arming", "operating"} => cmd'[c] = cmd[c]
      BY <1>0, <2>1, <3>1 DEF BridgeTypes
    <3>4. Owing => Owing'  BY <2>1, <3>3 DEF Owing
    <3> QED BY <2>1, <2>3, <3>1, <3>2, <3>4 DEF DisarmsOwed
  <2> QED BY <2>1, <2>3 DEF DisarmsOwed
<1>4. CASE Die
  BY <1>4 DEF Die, DisarmsOwed
<1>5. CASE Dispatch  BY <1>5, OwedAfterDispatch
<1>6. CASE Tick
  <2>1. armed' = Less(armed) /\ UNCHANGED <<cmd, queue, injected, alive, abandoned>>
        /\ pending' = {[p EXCEPT !.left = Less(p.left)] : p \in pending}
    BY <1>6 DEF Tick, Lapses
  <2>2. (armed = 0 => armed' = 0) /\ (armed' > 0 => armed > 0)
    BY <1>0, <2>1, AppliedIs DEF Less, BridgeTypes
  <2>3. \A p \in pending : \E q \in pending' : q.id = p.id
    <3> SUFFICES ASSUME NEW p \in pending PROVE [p EXCEPT !.left = Less(p.left)].id = p.id  BY <2>1
    <3>1. p \in [id : Nat, cmd : Commands, left : Nat]  BY <1>0 DEF BridgeTypes
    <3> QED BY <3>1
  <2>4. Owing' <=> Owing  BY <2>1 DEF Owing
  <2>5. ASSUME alive, ~ abandoned
        PROVE  /\ \A i \in DOMAIN queue : queue[i].kind = "arm" => \E q \in pending' : q.id = queue[i].id
               /\ armed' > 0 => Owing'
    <3>1. \A i \in DOMAIN queue : queue[i].kind = "arm" => \E p \in pending : p.id = queue[i].id
      BY <2>5 DEF DisarmsOwed
    <3>2. armed > 0 => Owing  BY <2>5 DEF DisarmsOwed
    <3> QED BY <2>2, <2>3, <2>4, <3>1, <3>2
  <2>6. (~ injected => armed' = 0) /\ \A i, j \in DOMAIN queue : queue[i].id = queue[j].id => i = j
    BY <2>2 DEF DisarmsOwed
  <2> QED BY <2>1, <2>5, <2>6 DEF DisarmsOwed
<1>7. CASE ShowDialog \/ Dismiss \/ UNCHANGED bridgeVars
  <2>1. UNCHANGED <<cmd, pending, queue, armed, injected, alive, abandoned>>
    BY <1>7 DEF ShowDialog, Dismiss, bridgeVars, client
  <2> QED BY <2>1 DEF DisarmsOwed, Owing
<1> QED BY <1>1, <1>2, <1>3, <1>4, <1>5, <1>6, <1>7 DEF BridgeNext

(* The safety part of ThePageRecovers: without an arm given up, the page has its   *)
(* dialogs back as soon as the last command is answered and its disarm has        *)
(* arrived, in whatever order commands overlapped and however late messages are. *)
THEOREM DialogsAreHandedBack == BridgeSpec => []HandedBack
<1>1. BridgeInit => BridgeInv /\ DisarmsOwed  BY BridgeStart, OwedStart
<1>2. BridgeInv /\ DisarmsOwed /\ [BridgeNext]_bridgeVars => BridgeInv' /\ DisarmsOwed'
  BY BridgeStep, OwedStep
<1>3. BridgeInv /\ DisarmsOwed => HandedBack
  <2> SUFFICES ASSUME BridgeInv, DisarmsOwed, NoSubmissionUnderWay, ~ abandoned PROVE armed = 0
    BY DEF HandedBack
  <2>1. ~ Owing  BY DEF NoSubmissionUnderWay, Owing, Active
  <2>2. ~ (armed > 0)  BY <2>1 DEF DisarmsOwed, NoSubmissionUnderWay
  <2> QED BY <2>2, AppliedIs DEF BridgeInv, BridgeTypes
<1> QED BY <1>1, <1>2, <1>3, PTL DEF BridgeSpec
=============================================================================
