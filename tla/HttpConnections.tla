-------------------------- MODULE HttpConnections --------------------------
(***************************************************************************)
(* The daemon's HTTP layer (rust/src/daemon.rs: the accept loop of `run`,    *)
(* ConnectionPermit, `dispatch`, `connection`, `read_request`, `read_piece`, *)
(* `route`, `form_options`): a bounded number of threads, each reading one   *)
(* request under one deadline for the whole of it, from a client that may    *)
(* dawdle, stop half way or hang up.  What a batch or a control does behind  *)
(* `route` is DaemonControl's.                                               *)
(*                                                                          *)
(* A request is a number of pieces, the head's and then the body's.  Time is *)
(* counted per connection from the moment its thread starts to read.         *)
(***************************************************************************)
EXTENDS Naturals, FiniteSets

CONSTANTS Conns,       \* connections ever made
          Limit,       \* CONNECTION_LIMIT
          ReadTicks,   \* READ_TIMEOUT
          HeadPieces,  \* pieces of a head that ends
          HeadLimit,   \* HEADER_LIMIT, in pieces
          BodyLimit,   \* BODY_LIMIT, in pieces
          Requests     \* connection -> what its client may send

ASSUME LimitAssumption == Limit \in Nat \ {0}
ASSUME ReadTicksAssumption == ReadTicks \in Nat \ {0}
ASSUME HeadAssumption == HeadPieces \in Nat \ {0} /\ HeadLimit \in Nat /\ HeadPieces <= HeadLimit
ASSUME BodyAssumption == BodyLimit \in Nat
ASSUME RequestsAssumption ==
  \A c \in Conns : Requests[c] \subseteq
    [path : {"status", "options", "batch", "control", "other"}, token : BOOLEAN,
     origin : BOOLEAN,   \* absent or allowed
     json : BOOLEAN, head : {"good", "bad", "endless"}, size : Nat, body : {"valid", "invalid"}]

VARIABLES
  up,        \* the accept loop runs
  active,    \* the permits' counter
  busy,      \* who owns the one worker: "free", "options" or "batch"
  request,   \* connection -> what its client means to send, while it is open
  stage,     \* connection -> where its thread is
  got,       \* connection -> pieces read
  age,       \* connection -> ticks since read_request took its deadline
  until,     \* connection -> age at which its read() times out, 0 when in none
  answer,    \* connection -> status of the reply being written, 0 if none
  acted      \* open connections whose request did something

reading == <<got, age, until>>
httpVars == <<up, active, busy, request, stage, reading, answer, acted>>

Served == {"head", "body", "route", "work", "reply"}

Receiving(c) == stage[c] \in {"head", "body"}

Waiting(c) == until[c] # 0

Pieces(c) == HeadPieces + request[c].size

NoRequest == [head |-> "none"]

Nought == [c \in Conns |-> 0]

HttpInit ==
  /\ up = TRUE /\ active = 0 /\ busy = "free"
  /\ request = [c \in Conns |-> NoRequest]
  /\ stage = [c \in Conns |-> "away"]
  /\ got = Nought /\ age = Nought /\ until = Nought
  /\ answer = Nought /\ acted = {}

-----------------------------------------------------------------------------
(* The accept loop. *)

(* Mutation: the permit of a thread that could not be had is lost. *)
DispatchLeaks(c) ==
  /\ up /\ stage[c] = "away"
  /\ \/ active = Limit /\ stage' = [stage EXCEPT ![c] = "closed"] /\ UNCHANGED <<active, request>>
     \/ /\ active < Limit
        /\ stage' = [stage EXCEPT ![c] = "head"] /\ active' = active + 1
        /\ \E r \in Requests[c] : request' = [request EXCEPT ![c] = r]
     \/ /\ active < Limit
        /\ stage' = [stage EXCEPT ![c] = "closed"] /\ active' = active + 1 /\ UNCHANGED request
  /\ UNCHANGED <<up, busy, reading, answer, acted>>

(* dispatch: no permit, no thread; and no thread, no permit. *)
Dispatch(c) ==
  /\ up /\ stage[c] = "away"
  /\ \/ active = Limit /\ stage' = [stage EXCEPT ![c] = "closed"] /\ UNCHANGED <<active, request>>
     \/ /\ active < Limit
        /\ stage' = [stage EXCEPT ![c] = "head"] /\ active' = active + 1
        /\ \E r \in Requests[c] : request' = [request EXCEPT ![c] = r]
     \/ /\ active < Limit
        /\ stage' = [stage EXCEPT ![c] = "closed"] /\ UNCHANGED <<active, request>>
  /\ UNCHANGED <<up, busy, reading, answer, acted>>

(* An error of accept() ends `run`, and the process with everything in it. *)
AcceptFails ==
  /\ up /\ up' = FALSE
  /\ stage' = [c \in Conns |-> "closed"]
  /\ active' = 0 /\ busy' = "free"
  /\ got' = Nought /\ age' = Nought /\ until' = Nought
  /\ answer' = Nought /\ acted' = {}
  /\ request' = [c \in Conns |-> NoRequest]

-----------------------------------------------------------------------------
(* read_request and read_piece: until read() returns, the client has the turn. *)

Reply(c, code) ==
  /\ stage' = [stage EXCEPT ![c] = "reply"]
  /\ answer' = [answer EXCEPT ![c] = code]

Short(c) == got[c] < (IF stage[c] = "head" THEN HeadPieces ELSE Pieces(c))

WantsMore(c) ==
  /\ Receiving(c) /\ ~ Waiting(c)
  /\ Short(c) \/ (stage[c] = "head" /\ request[c].head = "endless")
  /\ ~ (stage[c] = "head" /\ got[c] >= HeadLimit)

(* Mutation: every piece has the whole timeout to itself. *)
AskEach(c) ==
  /\ WantsMore(c)
  /\ until' = [until EXCEPT ![c] = age[c] + ReadTicks]
  /\ UNCHANGED <<up, active, busy, request, stage, got, age, answer, acted>>

(* Mutation: only the head is read under a timeout. *)
AskUntimedBody(c) ==
  /\ WantsMore(c)
  /\ until' = [until EXCEPT ![c] = IF stage[c] = "head" THEN ReadTicks ELSE 10 * ReadTicks]
  /\ UNCHANGED <<up, active, busy, request, stage, got, age, answer, acted>>

(* read() may take what remains of the request's time. *)
Ask(c) ==
  /\ WantsMore(c) /\ age[c] < ReadTicks
  /\ until' = [until EXCEPT ![c] = ReadTicks]
  /\ UNCHANGED <<up, active, busy, request, stage, got, age, answer, acted>>

(* With nothing left the timeout is refused (400), past it the request is (408). *)
AskLate(c) ==
  /\ WantsMore(c) /\ age[c] >= ReadTicks
  /\ Reply(c, 408) \/ (age[c] = ReadTicks /\ Reply(c, 400))
  /\ UNCHANGED <<up, active, busy, request, reading, acted>>

(* The client's doing, as is the end of its stream: neither need ever happen. *)
Receive(c) ==
  /\ Waiting(c) /\ got[c] < (IF request[c].head = "endless" THEN HeadLimit ELSE Pieces(c))
  /\ got' = [got EXCEPT ![c] = @ + 1]
  /\ until' = [until EXCEPT ![c] = 0]
  /\ UNCHANGED <<up, active, busy, request, stage, age, answer, acted>>

(* Mutation: the end of the stream is taken for the end of the request. *)
EndOfStreamRouted(c) ==
  /\ Waiting(c)
  /\ until' = [until EXCEPT ![c] = 0]
  /\ IF stage[c] = "head" THEN Reply(c, 400)
     ELSE stage' = [stage EXCEPT ![c] = "route"] /\ UNCHANGED answer
  /\ UNCHANGED <<up, active, busy, request, got, age, acted>>

(* read() returns 0, or an error other than a timeout. *)
EndOfStream(c) ==
  /\ Waiting(c)
  /\ until' = [until EXCEPT ![c] = 0]
  /\ Reply(c, 400)
  /\ UNCHANGED <<up, active, busy, request, got, age, acted>>

TimesOut(c) ==
  /\ Waiting(c) /\ age[c] = until[c]
  /\ until' = [until EXCEPT ![c] = 0]
  /\ Reply(c, 408)
  /\ UNCHANGED <<up, active, busy, request, got, age, acted>>

HeadTooLong(c) ==
  /\ stage[c] = "head" /\ ~ Waiting(c)
  /\ request[c].head = "endless" /\ got[c] >= HeadLimit
  /\ Reply(c, 413)
  /\ UNCHANGED <<up, active, busy, request, reading, acted>>

(* The request line, the headers and Content-Length, before any of the body. *)
HeadRead(c) ==
  /\ stage[c] = "head" /\ ~ Waiting(c) /\ ~ Short(c) /\ request[c].head # "endless"
  /\ CASE request[c].head = "bad" -> Reply(c, 400)
       [] request[c].head = "good" /\ request[c].size > BodyLimit -> Reply(c, 413)
       [] OTHER -> stage' = [stage EXCEPT ![c] = "body"] /\ UNCHANGED answer
  /\ UNCHANGED <<up, active, busy, request, reading, acted>>

BodyRead(c) ==
  /\ stage[c] = "body" /\ ~ Waiting(c) /\ ~ Short(c)
  /\ stage' = [stage EXCEPT ![c] = "route"]
  /\ UNCHANGED <<up, active, busy, request, reading, answer, acted>>

-----------------------------------------------------------------------------
(* route: token, origin, content type, then the endpoint. *)

Mutates(r) == r.path \in {"batch", "control"}

Admitted(r) == r.token /\ r.origin /\ (Mutates(r) => r.json)

Turned(c) ==
  LET r == request[c]
  IN  /\ stage[c] = "route"
      /\ \/ ~ r.token /\ Reply(c, 401)
         \/ r.token /\ ~ r.origin /\ Reply(c, 403)
         \/ r.token /\ r.origin /\ ~ Admitted(r) /\ Reply(c, 415)
         \/ Admitted(r) /\ Mutates(r) /\ r.body = "invalid" /\ Reply(c, 422)
         \/ Admitted(r) /\ r.path = "other" /\ Reply(c, 405)
      /\ UNCHANGED <<up, active, busy, request, reading, acted>>

(* /status, /report and /checkpoint need no worker; a bad checkpoint is a 500. *)
Shown(c) ==
  /\ stage[c] = "route" /\ Admitted(request[c]) /\ request[c].path = "status"
  /\ Reply(c, 200) \/ Reply(c, 500)
  /\ UNCHANGED <<up, active, busy, request, reading, acted>>

(* Whether a batch is there to control is DaemonControl's to say. *)
Controls(c) ==
  /\ stage[c] = "route" /\ Admitted(request[c])
  /\ request[c].path = "control" /\ request[c].body = "valid"
  /\ \/ Reply(c, 200) /\ acted' = acted \cup {c}
     \/ Reply(c, 409) /\ UNCHANGED acted
  /\ UNCHANGED <<up, active, busy, request, reading>>

WantsWorker(c) ==
  /\ stage[c] = "route" /\ Admitted(request[c])
  /\ \/ request[c].path = "options"
     \/ request[c].path = "batch" /\ request[c].body = "valid"

Busy(c) ==
  /\ WantsWorker(c) /\ busy # "free"
  /\ Reply(c, 503)
  /\ UNCHANGED <<up, active, busy, request, reading, acted>>

Work(c) ==
  /\ WantsWorker(c) /\ busy = "free"
  /\ busy' = request[c].path
  /\ stage' = [stage EXCEPT ![c] = "work"]
  /\ acted' = acted \cup {c}
  /\ UNCHANGED <<up, active, request, reading, answer>>

(* Options are fetched, a batch is on its way or had nothing left to run; or   *)
(* the gate (409), the roster (422) or the worker, by its own timeout at the  *)
(* latest (502), says no.                                                      *)
Worked(c) ==
  /\ stage[c] = "work"
  /\ \/ request[c].path = "batch" /\ Reply(c, 202) /\ UNCHANGED busy
     \/ /\ \E code \in IF request[c].path = "batch" THEN {202, 409, 422, 502} ELSE {200, 502} : Reply(c, code)
        /\ busy' = "free"
  /\ UNCHANGED <<up, active, request, reading, acted>>

BatchEnds ==
  /\ busy = "batch" /\ \A c \in Conns : ~ (stage[c] = "work" /\ request[c].path = "batch")
  /\ busy' = "free"
  /\ UNCHANGED <<up, active, request, stage, reading, answer, acted>>

(* The reply is written or its write fails; the permit goes with the thread. *)
Close(c) ==
  /\ stage[c] = "reply"
  /\ stage' = [stage EXCEPT ![c] = "answered"]
  /\ active' = active - 1
  /\ got' = [got EXCEPT ![c] = 0]
  /\ age' = [age EXCEPT ![c] = 0] /\ until' = [until EXCEPT ![c] = 0]
  /\ answer' = [answer EXCEPT ![c] = 0] /\ acted' = acted \ {c}
  /\ request' = [request EXCEPT ![c] = NoRequest]
  /\ UNCHANGED <<up, busy>>

-----------------------------------------------------------------------------
(* A tick passes for every reader; a read() whose time is up returns first. *)
Tick ==
  /\ \E c \in Conns : Receiving(c) /\ age[c] <= ReadTicks
  /\ \A c \in Conns : Waiting(c) => age[c] < until[c]
  /\ age' = [c \in Conns |-> IF Receiving(c) /\ age[c] <= ReadTicks THEN age[c] + 1 ELSE age[c]]
  /\ UNCHANGED <<up, active, busy, request, stage, got, until, answer, acted>>

Quiet == (\A c \in Conns : stage[c] \in {"closed", "answered"}) /\ UNCHANGED httpVars

Thread(c) ==
  \/ Ask(c) \/ AskLate(c) \/ TimesOut(c)
  \/ HeadTooLong(c) \/ HeadRead(c) \/ BodyRead(c)
  \/ Turned(c) \/ Shown(c) \/ Controls(c) \/ Busy(c) \/ Work(c) \/ Worked(c) \/ Close(c)

HttpNext ==
  \/ \E c \in Conns : Receive(c) \/ EndOfStream(c) \/ Dispatch(c) \/ Thread(c)
  \/ AcceptFails \/ BatchEnds \/ Tick \/ Quiet

(* Threads run, and time passes; no client need ever do anything. *)
Fair == WF_httpVars(Tick) /\ \A c \in Conns : WF_httpVars(Thread(c))

HttpSpec == HttpInit /\ [][HttpNext]_httpVars /\ Fair

-----------------------------------------------------------------------------
(* Properties. *)

(* The counter and the threads agree, on every way out of a connection and    *)
(* when none can be started, and there are never more than the limit ("Close  *)
(* excess connections without creating a thread").                            *)
PermitsAreThreads ==
  active = Cardinality({c \in Conns : stage[c] \in Served}) /\ active <= Limit

(* No client keeps a thread reading past the one deadline of its request, in   *)
(* however many pieces it sends it.                                            *)
NobodyReadsPastTheDeadline == \A c \in Conns : Waiting(c) => age[c] <= ReadTicks

(* Slow clients cost the daemon a bounded number of threads for a bounded time.  *)
ThreadsAreBounded == PermitsAreThreads /\ NobodyReadsPastTheDeadline

(* What a cut-off, unauthorised or oversized request asks for is never done.   *)
OnlyWholeRequestsAct ==
  [][\A c \in acted' \ acted :
       /\ got[c] = Pieces(c) /\ request[c].size <= BodyLimit /\ request[c].head = "good"
       /\ Admitted(request[c])]_httpVars

(* However slow or silent the clients are, a daemon that turns connections     *)
(* away comes back to accepting them (docs/daemon-api.md promises a bound on   *)
(* the threads and no more than that during saturation).                       *)
SaturationEnds == active = Limit ~> active < Limit

(* Every request that got a thread gets an answer, unless the daemon dies.     *)
EveryoneIsAnswered ==
  \A c \in Conns : stage[c] = "head" ~> (stage[c] = "answered" \/ ~ up)

(* The daemon goes on serving, whoever is connected to it.                      *)
ServiceGoesOn == SaturationEnds /\ EveryoneIsAnswered

=============================================================================
