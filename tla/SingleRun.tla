----------------------------- MODULE SingleRun -----------------------------
(***************************************************************************)
(* One trainee from the command line (rust/src/main.rs, `run_single`): the    *)
(* coordinator, its WorkerClient, the worker process and the portal, with a   *)
(* reply that comes late or never, a worker that dies at any point, a POST    *)
(* that lands after its sender gave up on it, and a coordinator killed        *)
(* half-way.                                                                 *)
(*                                                                          *)
(* Of a line's job id and op the op is kept: every request of this run with   *)
(* the same op has the same job id.                                          *)
(***************************************************************************)
EXTENDS WorkerReplies, Integers, Sequences

CONSTANTS MaxAttempts,    \* RetryPolicy.max_attempts
          CommitsOnError  \* the portal may store a record and still answer 4xx/5xx

ASSUME MaxAttemptsAssumption == MaxAttempts \in Nat \ {0}
ASSUME CommitsOnErrorAssumption == CommitsOnError \in BOOLEAN

VARIABLES
  step,      \* where run_single is
  asked,     \* the op whose line it waits for, "ready" for the handshake
  unusable,  \* WorkerClient.unusable: its stdin and reply channel are dropped
  attempt, code,
  stdin,     \* ops written to the worker and not read
  stdout,    \* lines read off the worker and not received
  worker,    \* the worker process: what it is doing
  wire,      \* POSTs the portal has not acted on
  answer,    \* the portal's answer to the POST the worker waits on, if any
  posts, landed   \* ghosts: POSTs made, records stored

run == <<step, asked, unusable, attempt, code>>
pipes == <<stdin, stdout>>
portal == <<wire, answer, posts, landed>>
vars == <<run, pipes, worker, portal>>

Line(op, resp) == [op |-> op, resp |-> resp]

Init ==
  /\ step = "connect" /\ asked = "none" /\ unusable = FALSE /\ attempt = 0 /\ code = -1
  /\ stdin = << >> /\ stdout = << >>
  /\ worker = "none"
  /\ wire = 0 /\ answer = {} /\ posts = 0 /\ landed = 0

-----------------------------------------------------------------------------
(* The client. *)

(* invalidate: what is still on its way can be consumed by no later request. *)
Invalidate == unusable' = TRUE /\ stdout' = << >>

(* send up to the wait for the line; a dead worker's pipe refuses the write. *)
Write(op) ==
  /\ ~ unusable /\ worker # "dead"
  /\ stdin' = Append(stdin, op)
  /\ asked' = op
  /\ UNCHANGED <<unusable, stdout>>

CannotWrite == (unusable \/ worker = "dead") /\ Invalidate /\ UNCHANGED <<stdin, asked>>

(* A line of the op that was asked for.  A ready line never carries one. *)
Receives(resp) ==
  /\ asked # "none" /\ stdout # << >>
  /\ Head(stdout) = Line(asked, resp)
  /\ stdout' = Tail(stdout)
  /\ asked' = "none"
  /\ UNCHANGED <<unusable, stdin>>

(* Mutation: a wait ends when the worker closes its end, not on a clock. *)
GetsNothingOnEof ==
  /\ asked # "none"
  /\ \/ stdout = << >> /\ worker = "dead"
     \/ stdout # << >> /\ Head(stdout).op # asked
  /\ Invalidate
  /\ asked' = "none"
  /\ UNCHANGED stdin

(* Timed out, end of file, or a line of another request. *)
GetsNothing ==
  /\ asked # "none"
  /\ stdout # << >> => Head(stdout).op # asked
  /\ Invalidate
  /\ asked' = "none"
  /\ UNCHANGED stdin

-----------------------------------------------------------------------------
(* run_single. *)

Ends(c) == step' = "closing" /\ code' = c

Connect ==
  /\ step = "connect"
  /\ \/ worker' = "starting" /\ step' = "ready" /\ asked' = "ready" /\ UNCHANGED <<code, unusable>>
     \/ Ends(1) /\ unusable' = TRUE /\ UNCHANGED <<worker, asked>>
  /\ UNCHANGED <<attempt, pipes, portal>>

Ready ==
  /\ step = "ready"
  /\ \/ Receives(ReadyReply) /\ step' = "session" /\ UNCHANGED code
     \/ GetsNothing /\ Ends(1)
  /\ UNCHANGED <<attempt, worker, portal>>

(* The two exchanges before the submission: the session's failure ends the   *)
(* run, that of the form options is only printed.                            *)
Ask(op) ==
  /\ step = op /\ asked = "none"
  /\ \/ Write(op) /\ UNCHANGED <<step, code>>
     \/ /\ CannotWrite
        /\ IF op = "session" THEN Ends(1) ELSE step' = "submit" /\ UNCHANGED code
  /\ UNCHANGED <<attempt, worker, portal>>

SessionAnswered ==
  /\ step = "session"
  /\ \/ Receives(OkReply("none")) /\ step' = "options" /\ UNCHANGED code
     \/ \E c \in Codes, p \in BOOLEAN : Receives(ErrorReply(c, p)) /\ Ends(1)
     \/ GetsNothing /\ Ends(1)
  /\ UNCHANGED <<attempt, worker, portal>>

OptionsAnswered ==
  /\ step = "options"
  /\ \/ Receives(OkReply("none"))
     \/ \E c \in Codes, p \in BOOLEAN : Receives(ErrorReply(c, p))
     \/ GetsNothing
  /\ step' = "submit"
  /\ UNCHANGED <<code, attempt, worker, portal>>

Submit ==
  /\ step = "submit" /\ asked = "none"
  /\ attempt' = attempt + 1
  /\ \/ Write("submit") /\ UNCHANGED <<step, code>>
     \/ CannotWrite /\ Ends(3)
  /\ UNCHANGED <<worker, portal>>

SubmitAnswered(resp) ==
  /\ step = "submit" /\ Receives(resp)
  /\ LET verdict == DecideSubmit(resp)
     IN  \/ verdict = "accept" /\ Ends(0)
         \/ verdict = "reject" /\ Ends(4)
         \/ verdict = "halt" /\ Ends(3)
         \/ verdict = "retry" /\ attempt >= MaxAttempts /\ Ends(4)
         \/ verdict = "retry" /\ attempt < MaxAttempts /\ UNCHANGED <<step, code>>
  /\ UNCHANGED <<attempt, worker, portal>>

SubmitUnanswered ==
  /\ step = "submit" /\ GetsNothing /\ Ends(3)
  /\ UNCHANGED <<attempt, worker, portal>>

(* shutdown: a grace period, then kill and reap; even the kill may fail. *)
Shutdown ==
  /\ step = "closing" /\ step' = "exited"
  /\ Invalidate
  /\ worker' \in {"dead", worker}
  /\ UNCHANGED <<asked, attempt, code, stdin, portal>>

(* Killed, before it could report anything. *)
Killed ==
  /\ step \notin {"exited", "killed"} /\ step' = "killed"
  /\ Invalidate
  /\ UNCHANGED <<asked, attempt, code, stdin, worker, portal>>

-----------------------------------------------------------------------------
(* The worker process.  Nobody reads what it says to a dropped channel. *)

Says(line) ==
  /\ stdout' = IF unusable THEN stdout ELSE Append(stdout, line)
  /\ worker' = "idle"

Starts ==
  /\ worker = "starting"
  /\ Says(Line("ready", ReadyReply))
  /\ UNCHANGED <<run, stdin, portal>>

Reads ==
  /\ worker = "idle" /\ stdin # << >>
  /\ worker' = Head(stdin)
  /\ stdin' = Tail(stdin)
  /\ UNCHANGED <<run, stdout, portal>>

(* ensure_session and get_form_options only read the portal. *)
Looks ==
  /\ worker \in {"session", "options"}
  /\ \/ Says(Line(worker, OkReply("none")))
     \/ \E c \in {"NETWORK", "SESSION_EXPIRED", "MISSING_DATA", "ELEMENT_NOT_FOUND"} :
          Says(Line(worker, ErrorResponse(c, FALSE)))
  /\ UNCHANGED <<run, stdin, portal>>

CannotPost ==
  /\ worker = "submit"
  /\ \E resp \in BeforePost \cup {Unforeseen} : Says(Line("submit", resp))
  /\ UNCHANGED <<run, stdin, portal>>

Posts ==
  /\ worker = "submit" /\ worker' = "posted"
  /\ wire' = wire + 1 /\ posts' = posts + 1 /\ answer' = {}
  /\ UNCHANGED <<run, pipes, landed>>

GivesUpOnPost ==
  /\ worker = "posted"
  /\ \E resp \in {PostFailed, Unforeseen} : Says(Line("submit", resp))
  /\ UNCHANGED <<run, stdin, portal>>

Classifies ==
  /\ worker = "posted"
  /\ \E a \in answer : Says(Line("submit", AfterPost(a)))
  /\ answer' = {}
  /\ UNCHANGED <<run, stdin, wire, posts, landed>>

WorkerDies ==
  /\ worker \notin {"none", "dead"} /\ worker' = "dead"
  /\ UNCHANGED <<run, pipes, portal>>

(* The portal is external.  It means what it says: success is a stored record, *)
(* a refusal is none, and so is an error status unless CommitsOnError.  An     *)
(* answer that says neither goes with both.                                   *)
Honest(a, stored) ==
  /\ a.success = "true" => stored
  /\ a.success = "false" \/ a.validation => ~ stored
  /\ a.status = "4xx" /\ ~ CommitsOnError => ~ stored

PortalActs ==
  /\ wire > 0 /\ wire' = wire - 1
  /\ \E stored \in BOOLEAN, a \in Answers :
       /\ Honest(a, stored)
       /\ landed' = IF stored THEN landed + 1 ELSE landed
       /\ answer' = IF worker = "posted" THEN {a} ELSE answer
  /\ UNCHANGED <<run, pipes, worker, posts>>

(* Whatever is left is a worker that outlived its coordinator. *)
Over == step \in {"exited", "killed"} /\ UNCHANGED vars

-----------------------------------------------------------------------------
Coordinator ==
  \/ Connect \/ Ready \/ Ask("session") \/ SessionAnswered \/ Ask("options") \/ OptionsAnswered
  \/ Submit \/ SubmitUnanswered \/ Shutdown
  \/ \E resp \in Responses : SubmitAnswered(resp)

WorkerProcess ==
  Starts \/ Reads \/ Looks \/ CannotPost \/ Posts \/ GivesUpOnPost \/ Classifies \/ WorkerDies

Next == Coordinator \/ Killed \/ WorkerProcess \/ PortalActs \/ Over

Spec == Init /\ [][Next]_vars

(* Only the coordinator is owed progress; the worker may hang. *)
FairSpec == Spec /\ WF_vars(Coordinator)

-----------------------------------------------------------------------------
(* A submission that may still reach the portal: on the wire, in the worker's  *)
(* hands, or in its stdin.                                                     *)
Outstanding ==
  \/ wire > 0
  \/ worker = "submit"
  \/ worker # "dead" /\ \E i \in DOMAIN stdin : stdin[i] = "submit"

(* Retries, late landings and a coordinator that gives up included, one run     *)
(* POSTs at most once (client.py, "commit exactly once ... Never re-POST").     *)
AtMostOnePost == posts <= 1

(* A line that claims nothing was submitted never follows a POST, and one that  *)
(* reports an outcome always does: what BatchEngine and decide_submit build on. *)
ClaimsAreTrue ==
  \A i \in DOMAIN stdout :
    /\ stdout[i].resp.provesNothing => posts = 0 /\ ~ Outstanding
    /\ stdout[i].op = "submit" /\ stdout[i].resp.status = "ok" => posts > 0

(* Every exit code but 3 settles the submission: 0 means that the portal has    *)
(* the record, any other that it has not and never will (main.rs, "the          *)
(* submission settled -- nothing is left in doubt").                            *)
SettledIsSettled ==
  step = "exited" /\ code # 3 =>
    /\ ~ Outstanding
    /\ landed = IF code = 0 THEN 1 ELSE 0

(* The run ends whatever the worker does (worker.rs, bounded waits).            *)
RunEnds == <>(step \in {"exited", "killed"})

=============================================================================
