--------------------------- MODULE WorkerProcess ---------------------------
(***************************************************************************)
(* The supervisor of the Python worker (rust/src/worker.rs, WorkerClient)     *)
(* down to its pipes: the calls, the thread that reads the worker's stdout    *)
(* into a channel, the process, a descendant of it that may keep the pipe     *)
(* open for ever, and the shutdown that must end all the same.  The worker    *)
(* may dawdle, die, hang at the end of its input and say what it should not.  *)
(* SingleRun has the conversation of one run on top of this client.           *)
(*                                                                          *)
(* A request is written with no deadline: the timer starts behind the write   *)
(* (docs/stage32-error-testing.md, "does not cover a blocked pipe write").     *)
(* How much the pipe holds is not modelled: any write may block for as long    *)
(* as somebody keeps the other end open.                                      *)
(*                                                                          *)
(* Requests are numbered as they are made: the job id and op of one are those *)
(* of no other.                                                              *)
(***************************************************************************)
EXTENDS Naturals, Sequences

CONSTANT Requests   \* requests ever made

ASSUME RequestsAssumption == Requests \in Nat

VARIABLES
  asked,     \* requests made so far
  call,      \* what the caller waits for: "nothing", "ready", "writing", "answer"
  result,    \* request -> "none", "ok", "ready" or "error"
  believed,  \* request -> the request whose line was taken for its answer
  unusable,  \* WorkerClient.unusable; stdin and the receiver go with it
  shut,      \* shutdown: "no", "grace", "returned"
  reaped,    \* WorkerClient.reaped
  stdin,     \* requests written and not read by the worker
  worker,    \* "starting", "idle", "busy", "leaving", "zombie" (exited)
  doing,     \* the request the worker is at
  done,      \* requests the worker has carried out
  stubborn,  \* kill() fails on it
  heir,      \* a descendant of the worker holds the other ends of its pipes
  stdout,    \* lines written and not read by the reader thread
  channel,   \* what the reader thread has sent and nobody received
  reader     \* the reader thread runs

caller == <<asked, call, result, believed, unusable, shut, reaped>>
process == <<worker, doing, done, stubborn, heir>>
vars == <<caller, stdin, process, stdout, channel, reader>>

(* of: the request that was answered; job: the one the line says it answers. *)
Line(kind, of, job) == [kind |-> kind, of |-> of, job |-> job]
Eof == [kind |-> "eof", of |-> 0, job |-> 0]

Lines ==
  [kind : {"ready", "answer", "echo", "garbage", "eof"}, of : 0..Requests, job : 0..Requests]

Init ==
  /\ asked = 0 /\ call = "nothing" /\ unusable = FALSE /\ shut = "no" /\ reaped = FALSE
  /\ result = [n \in 1..Requests |-> "none"]
  /\ believed = [n \in 1..Requests |-> 0]
  /\ stdin = << >> /\ stdout = << >> /\ channel = << >> /\ reader = TRUE
  /\ worker = "starting" /\ doing = 0 /\ done = {} /\ heir = FALSE
  /\ stubborn \in BOOLEAN

Alive == worker # "zombie"

-----------------------------------------------------------------------------
(* Calls of the client. *)

(* Mutation: the request has failed, but the worker is kept for the next one. *)
InvalidateNothing == UNCHANGED <<unusable, channel>>

Invalidate == unusable' = TRUE /\ channel' = << >>

WaitReady ==
  /\ asked = 0 /\ call = "nothing" /\ ~ unusable /\ shut = "no"
  /\ call' = "ready"
  /\ UNCHANGED <<asked, result, believed, unusable, shut, reaped, stdin, process, stdout,
                 channel, reader>>

IsReady ==
  /\ call = "ready" /\ channel # << >> /\ Head(channel).kind = "ready"
  /\ call' = "nothing"
  /\ channel' = Tail(channel)
  /\ UNCHANGED <<asked, result, believed, unusable, shut, reaped, stdin, process, stdout, reader>>

(* Timed out, not a ready line of this version, or the end of the stream. *)
IsNotReady ==
  /\ call = "ready"
  /\ channel # << >> => Head(channel).kind # "ready"
  /\ call' = "nothing"
  /\ Invalidate
  /\ UNCHANGED <<asked, result, believed, shut, reaped, stdin, process, stdout, reader>>

(* One request at a time (`&mut self`), to a worker that is still good: the    *)
(* write begins.                                                             *)
Send ==
  /\ call = "nothing" /\ shut = "no" /\ asked < Requests /\ ~ unusable
  /\ asked' = asked + 1
  /\ call' = "writing"
  /\ UNCHANGED <<result, believed, unusable, shut, reaped, stdin, process, stdout, channel, reader>>

(* check_usable *)
CannotSend ==
  /\ call = "nothing" /\ shut = "no" /\ asked < Requests /\ unusable
  /\ asked' = asked + 1
  /\ result' = [result EXCEPT ![asked'] = "error"]
  /\ UNCHANGED <<call, believed, unusable, shut, reaped, stdin, process, stdout, channel, reader>>

(* The other end of the pipe is open, though it may be that nobody reads. *)
PipeHeld == Alive \/ heir

(* The pipe has taken the whole line. *)
Written ==
  /\ call = "writing" /\ PipeHeld
  /\ call' = "answer"
  /\ stdin' = Append(stdin, asked)
  /\ UNCHANGED <<asked, result, believed, unusable, shut, reaped, process, stdout, channel, reader>>

(* Nobody holds the other end, or the worker has closed its input. *)
WriteFails ==
  /\ call = "writing"
  /\ call' = "nothing"
  /\ result' = [result EXCEPT ![asked] = "error"]
  /\ Invalidate
  /\ UNCHANGED <<asked, believed, shut, reaped, stdin, process, stdout, reader>>

(* Mutation: the echo of the job id is not looked at. *)
AnswersAny(line) == line.kind \in {"answer", "echo"}

(* The echo of the job id and the op; a bare ready line carries neither. *)
Answers(line) == line.kind \in {"answer", "echo"} /\ line.job = asked

Returns ==
  /\ call = "answer" /\ channel # << >> /\ Answers(Head(channel))
  /\ call' = "nothing"
  /\ believed' = [believed EXCEPT ![asked] = Head(channel).of]
  /\ IF Head(channel).kind = "echo"   \* "unexpected ready line mid-flow"
     THEN result' = [result EXCEPT ![asked] = "ready"] /\ Invalidate
     ELSE /\ result' = [result EXCEPT ![asked] = "ok"]
          /\ channel' = Tail(channel)
          /\ UNCHANGED unusable
  /\ UNCHANGED <<asked, shut, reaped, stdin, process, stdout, reader>>

(* Mutation: a wait ends with a line, not on a clock. *)
FailsOnLine ==
  /\ call = "answer" /\ channel # << >> /\ ~ Answers(Head(channel))
  /\ call' = "nothing"
  /\ result' = [result EXCEPT ![asked] = "error"]
  /\ Invalidate
  /\ UNCHANGED <<asked, believed, shut, reaped, stdin, process, stdout, reader>>

(* Timed out, unreadable, of another version, of another request, or the end. *)
Fails ==
  /\ call = "answer"
  /\ channel # << >> => ~ Answers(Head(channel))
  /\ call' = "nothing"
  /\ result' = [result EXCEPT ![asked] = "error"]
  /\ Invalidate
  /\ UNCHANGED <<asked, believed, shut, reaped, stdin, process, stdout, reader>>

-----------------------------------------------------------------------------
(* shutdown, and again by Drop when it failed. *)

Shutdown ==
  /\ call = "nothing" /\ shut # "grace" /\ ~ reaped
  /\ Invalidate
  /\ shut' = "grace"
  /\ UNCHANGED <<asked, call, result, believed, reaped, stdin, process, stdout, reader>>

(* try_wait *)
SeesExit ==
  /\ shut = "grace" /\ ~ Alive
  /\ shut' = "returned" /\ reaped' = TRUE
  /\ UNCHANGED <<asked, call, result, believed, unusable, stdin, process, stdout, channel, reader>>

(* Mutation: the grace is all there is. *)
KillNot ==
  /\ shut = "grace" /\ Alive
  /\ shut' = "returned" /\ UNCHANGED <<reaped, worker>>
  /\ UNCHANGED <<asked, call, result, believed, unusable, stdin, doing, done, stubborn, heir, stdout,
                 channel, reader>>

(* Mutation: the readers are joined, too. *)
KillAndJoin ==
  /\ shut = "grace" /\ Alive /\ ~ heir
  /\ shut' = "returned"
  /\ \/ ~ stubborn /\ worker' = "zombie" /\ reaped' = TRUE
     \/ stubborn /\ UNCHANGED <<worker, reaped>>
  /\ UNCHANGED <<asked, call, result, believed, unusable, stdin, doing, done, stubborn, heir, stdout,
                 channel, reader>>

(* The grace is over, or try_wait failed: kill and wait, or kill failed. *)
Kill ==
  /\ shut = "grace" /\ Alive
  /\ shut' = "returned"
  /\ \/ ~ stubborn /\ worker' = "zombie" /\ reaped' = TRUE
     \/ stubborn /\ UNCHANGED <<worker, reaped>>
  /\ UNCHANGED <<asked, call, result, believed, unusable, stdin, doing, done, stubborn, heir, stdout,
                 channel, reader>>

-----------------------------------------------------------------------------
(* The stdout reader: a thread that ends with the stream or with the receiver. *)

Reads ==
  /\ reader /\ stdout # << >>
  /\ stdout' = Tail(stdout)
  /\ IF unusable THEN reader' = FALSE /\ UNCHANGED channel
     ELSE channel' = Append(channel, Head(stdout)) /\ UNCHANGED reader
  /\ UNCHANGED <<caller, stdin, process>>

ReadsEof ==
  /\ reader /\ stdout = << >> /\ ~ Alive /\ ~ heir
  /\ reader' = FALSE
  /\ channel' = IF unusable THEN channel ELSE Append(channel, Eof)
  /\ UNCHANGED <<caller, stdin, process, stdout>>

-----------------------------------------------------------------------------
(* The worker process (external to this file; python/app/worker.py's loop, and *)
(* what tests/fixtures/worker.py makes a worker do).                           *)

(* A write to a pipe nobody reads ends the process. *)
Writes(lines, then) ==
  IF reader THEN stdout' = stdout \o lines /\ worker' = then
  ELSE worker' = "zombie" /\ UNCHANGED stdout

Starts ==
  /\ worker = "starting"
  /\ \E kind \in {"ready", "garbage"} : Writes(<<Line(kind, 0, 0)>>, "idle")
  /\ UNCHANGED <<caller, stdin, doing, done, stubborn, heir, channel, reader>>

Takes ==
  /\ worker = "idle" /\ stdin # << >>
  /\ worker' = "busy" /\ doing' = Head(stdin)
  /\ stdin' = Tail(stdin)
  /\ UNCHANGED <<caller, done, stubborn, heir, stdout, channel, reader>>

Acts ==
  /\ worker = "busy" /\ doing \notin done
  /\ done' = done \cup {doing}
  /\ UNCHANGED <<caller, stdin, worker, doing, stubborn, heir, stdout, channel, reader>>

(* One line, or one too many. *)
Speaks ==
  /\ worker = "busy"
  /\ \E line \in {Line("answer", doing, doing), Line("answer", doing, 0),
                  Line("echo", doing, doing), Line("garbage", doing, 0)} :
       \/ Writes(<<line>>, "idle")
       \/ Writes(<<line, line>>, "idle")
  /\ UNCHANGED <<caller, stdin, doing, done, stubborn, heir, channel, reader>>

Leaves ==
  /\ worker = "idle" /\ stdin = << >> /\ unusable
  /\ worker' = "leaving"
  /\ UNCHANGED <<caller, stdin, doing, done, stubborn, heir, stdout, channel, reader>>

(* It ends after its input did, or dies at any other time. *)
Exits ==
  /\ Alive
  /\ worker' = "zombie"
  /\ UNCHANGED <<caller, stdin, doing, done, stubborn, heir, stdout, channel, reader>>

Forks ==
  /\ worker \in {"idle", "busy"} /\ ~ heir
  /\ heir' = TRUE
  /\ UNCHANGED <<caller, stdin, worker, doing, done, stubborn, stdout, channel, reader>>

HeirEnds ==
  /\ heir /\ heir' = FALSE
  /\ UNCHANGED <<caller, stdin, worker, doing, done, stubborn, stdout, channel, reader>>

-----------------------------------------------------------------------------
Client ==
  \/ IsReady \/ IsNotReady \/ Returns \/ Fails
  \/ SeesExit \/ Kill
  \/ WriteFails /\ ~ PipeHeld

(* What ends a write to a pipe that is held: nothing need. *)
Pipe == Written \/ WriteFails

Caller == WaitReady \/ Send \/ CannotSend \/ Shutdown

Reader == Reads \/ ReadsEof

Worker == Starts \/ Takes \/ Acts \/ Speaks \/ Leaves \/ Exits \/ Forks \/ HeirEnds

Next == Caller \/ Pipe \/ Client \/ Reader \/ Worker

(* Time passes for the client's waits, a write to a pipe that nobody holds      *)
(* fails, and the client's threads run.  Nothing is asked of the worker, of its *)
(* descendants, of a write they could take, or of the caller.                  *)
Spec == Init /\ [][Next]_vars /\ WF_vars(Client) /\ WF_vars(Reader)

-----------------------------------------------------------------------------
(* Properties. *)

(* The state's shape; a client that gave up on its worker has nothing to receive. *)
TypeOK ==
  /\ asked \in 0..Requests /\ call \in {"nothing", "ready", "writing", "answer"}
  /\ result \in [1..Requests -> {"none", "ok", "ready", "error"}]
  /\ believed \in [1..Requests -> 0..Requests]
  /\ unusable \in BOOLEAN /\ shut \in {"no", "grace", "returned"} /\ reaped \in BOOLEAN
  /\ stdin \in Seq(1..Requests) /\ stdout \in Seq(Lines) /\ channel \in Seq(Lines)
  /\ worker \in {"starting", "idle", "busy", "leaving", "zombie"}
  /\ doing \in 0..Requests /\ done \subseteq 1..Requests
  /\ stubborn \in BOOLEAN /\ heir \in BOOLEAN /\ reader \in BOOLEAN
  /\ unusable => channel = << >>

(* A result is never built from another request's line, however late, often or  *)
(* wrongly labelled the worker's lines come ("Late replies cannot be consumed    *)
(* by another request", worker.rs:215).                                         *)
AnswersAreTheirOwn ==
  \A n \in 1..Requests : result[n] \in {"ok", "ready"} => believed[n] = n

(* A worker that failed one request, in whatever way, never gets to see a later  *)
(* one: what it still does is what it had been asked before.                     *)
FailedWorkersGetNoWork ==
  \A n, m \in 1..Requests :
    result[n] \in {"error", "ready"} /\ n < m =>
      m \notin done /\ m # doing /\ \A i \in DOMAIN stdin : stdin[i] # m

(* No request ever gets hold of another one's answer or worker.                   *)
RequestsStayApart == AnswersAreTheirOwn /\ FailedWorkersGetNoWork

(* A worker whose shutdown has returned does nothing any more, so that who then  *)
(* reads the portal sees all it ever did; only a failed kill is exempt.           *)
NothingAfterShutdown ==
  [][shut = "returned" /\ ~ stubborn => done' = done]_vars

(* Every call of the client ends, whatever the worker does, but one whose write *)
(* the worker or a descendant never takes while it keeps the pipe open.         *)
CallsReturn == call # "nothing" ~> (call = "nothing" \/ [](call = "writing" /\ PipeHeld))

(* Its shutdown ends, whoever still holds the pipe ("a descendant              *)
(* retaining a pipe must not turn shutdown back into a hang", worker.rs:276).    *)
ShutdownReturns == shut = "grace" ~> shut = "returned"

(* Nothing the client does hangs on the worker, with that one exception.          *)
NothingHangs == CallsReturn /\ ShutdownReturns

=============================================================================
