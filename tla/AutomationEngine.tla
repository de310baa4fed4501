-------------------------- MODULE AutomationEngine --------------------------
(***************************************************************************)
(* The extension's batch engine (src/core/automation/AutomationEngine.ts),    *)
(* the BatchRunner that fills its queue and the RetryPolicy it goes through.  *)
(* The engine is one thread: an action is the code between two awaits, and    *)
(* pause, resume and stop come in at any await.  What it awaits of the portal *)
(* is a command; the answer is given to Hear by the module that has the tab.  *)
(***************************************************************************)
EXTENDS Naturals, Sequences, FiniteSets, SequencesExt

CONSTANTS Trainees, NoTrainee,
          Requests,      \* the trainee inputs of a batch; NoTrainee: a name nobody has
          MaxAttempts,   \* RetryOptions.maxAttempts
          MaxStarts      \* bound: batches started

ASSUME NoTraineeAssumption == NoTrainee \notin Trainees
ASSUME RequestsAssumption == Requests \subseteq Seq(Trainees \cup {NoTrainee})
ASSUME MaxAttemptsAssumption == MaxAttempts \in Nat \ {0}
ASSUME MaxStartsAssumption == MaxStarts \in Nat

(* The commands of the PortalAdapter the engine waits for, named as PortalCommand. *)
Commands == {"initialize", "is_page", "session_ready", "reinitialize", "prepare",
             "fill", "validate", "submit", "wait"}

(* How an awaited command ends: its data, its outcome, or an error code. *)
Recoverable == {"ELEMENT_NOT_FOUND", "TIMEOUT", "NETWORK", "PORTAL_UNAVAILABLE"}
NeverSent == {"ELEMENT_NOT_FOUND", "PORTAL_NOT_MAPPED", "PORTAL_STRUCTURE_CHANGED",
              "SESSION_EXPIRED", "VALIDATION_FAILED", "MISSING_DATA", "TRAINEE_NOT_FOUND"}
Answers == Recoverable \cup NeverSent \cup {"CONFIRMATION_UNKNOWN"}
             \cup {"ok", "yes", "no", "confirmed", "duplicate", "rejected"}

VARIABLES
  step,       \* the await the engine is at, or "idle"
  queue, results, current, attempt,
  pauseRequested, stopRequested,
  slot,       \* the last checkpoint the writer stored
  starts,     \* batches started
  batch       \* ghost: the tasks the batch was started with

engine == <<step, queue, results, current, attempt, pauseRequested, stopRequested, slot,
            starts, batch>>

Row(who, outcome, code) == [who |-> who, outcome |-> outcome, code |-> code]
NoSlot == [status |-> "none", rows |-> << >>, pending |-> << >>, start |-> 0]

Running == step # "idle"

EngineInit ==
  /\ step = "idle"
  /\ queue = << >> /\ results = << >> /\ current = NoTrainee /\ attempt = 0
  /\ pauseRequested = FALSE /\ stopRequested = FALSE
  /\ slot = NoSlot
  /\ starts = 0 /\ batch = << >>

-----------------------------------------------------------------------------
(* Checkpoints: a write that fails is swallowed. *)

(* Mutation: the snapshot is taken before the row is pushed. *)
SaveBehind(status) ==
  \/ slot' = [status |-> status, pending |-> queue, start |-> starts,
              rows |-> IF status = "running" THEN Front(results) ELSE results]
  \/ UNCHANGED slot

Save(status) ==
  \/ slot' = [status |-> status, rows |-> results, pending |-> queue, start |-> starts]
  \/ UNCHANGED slot

-----------------------------------------------------------------------------
(* The run loop. *)

(* drainQueueAsSkipped. *)
SkippedRows == [i \in DOMAIN queue |-> Row(queue[i], "skipped", "none")]
Drain == results' = results \o SkippedRows /\ queue' = << >>

(* finish, up to the await of its checkpoint. *)
Finish == step' = "finishing" /\ current' = NoTrainee

(* What follows the loop: a stop drains, a completion has nothing left. *)
Leave ==
  /\ Finish
  /\ IF stopRequested THEN Drain ELSE UNCHANGED <<queue, results>>
  /\ UNCHANGED attempt

Dequeue ==
  /\ current' = Head(queue) /\ queue' = Tail(queue)
  /\ attempt' = 1 /\ step' = "is_page"
  /\ UNCHANGED results

(* The head of the loop, waitWhilePaused included up to its first await. *)
Boundary ==
  \/ (queue = << >> \/ stopRequested) /\ Leave
  \/ /\ queue # << >> /\ ~ stopRequested /\ pauseRequested
     /\ step' = "pausing"
     /\ UNCHANGED <<queue, results, current, attempt>>
  \/ queue # << >> /\ ~ stopRequested /\ ~ pauseRequested /\ Dequeue

(* The paused checkpoint is written before the signal is there to be given. *)
PausedSaved ==
  /\ step = "pausing"
  /\ Save("paused")
  /\ step' = "paused"
  /\ UNCHANGED <<queue, results, current, attempt, pauseRequested, stopRequested, starts, batch>>

(* Mutation: after a pause the loop goes on without looking for a stop. *)
WokenUnchecked ==
  /\ step = "woken"
  /\ Dequeue
  /\ UNCHANGED <<pauseRequested, stopRequested, slot, starts, batch>>

Woken ==
  /\ step = "woken"
  /\ IF stopRequested THEN Leave ELSE Dequeue
  /\ UNCHANGED <<pauseRequested, stopRequested, slot, starts, batch>>

(* Mutation: an indeterminate row does not stop the batch. *)
AbortsOnSession(row) == row.code \in {"SESSION_EXPIRED", "PORTAL_STRUCTURE_CHANGED"}

ShouldAbort(row) ==
  row.outcome = "indeterminate" \/ row.code \in {"SESSION_EXPIRED", "PORTAL_STRUCTURE_CHANGED"}

(* Mutation: an abort leaves the rest of the queue where it is. *)
RowSavedUndrained ==
  /\ step = "saving"
  /\ Save("running")
  /\ IF ShouldAbort(Last(results)) THEN Finish /\ UNCHANGED <<queue, results, attempt>>
     ELSE IF queue = << >> \/ stopRequested THEN Leave
     ELSE step' = "delay" /\ UNCHANGED <<queue, results, current, attempt>>
  /\ UNCHANGED <<pauseRequested, stopRequested, starts, batch>>

(* The checkpoint after a row, and what the loop does with the row. *)
RowSaved ==
  /\ step = "saving"
  /\ Save("running")
  /\ IF ShouldAbort(Last(results)) THEN Finish /\ Drain /\ UNCHANGED attempt
     ELSE IF queue = << >> \/ stopRequested THEN Leave
     ELSE step' = "delay" /\ UNCHANGED <<queue, results, current, attempt>>
  /\ UNCHANGED <<pauseRequested, stopRequested, starts, batch>>

Delayed ==
  /\ step = "delay"
  /\ Boundary
  /\ UNCHANGED <<pauseRequested, stopRequested, slot, starts, batch>>

(* The terminal checkpoint, and run's finally. *)
Finished ==
  /\ step = "finishing"
  /\ Save("finished")
  /\ step' = "idle" /\ pauseRequested' = FALSE
  /\ UNCHANGED <<queue, results, current, attempt, stopRequested, starts, batch>>

-----------------------------------------------------------------------------
(* BatchRunner.start and run, up to the await of initializeTrainingSession. *)

(* buildTasks: in the order asked, each trainee once; a name nobody has fails it. *)
BuildTasks(request) ==
  {tasks \in UNION {[1 .. n -> Range(request)] : n \in 0 .. Len(request)} :
     /\ IsInjective(tasks) /\ Range(tasks) = Range(request)
     /\ \A i, j \in DOMAIN tasks : i < j =>
          \E k \in DOMAIN request :
            request[k] = tasks[i] /\ \A l \in 1 .. k : request[l] # tasks[j]}

Start ==
  /\ step = "idle" /\ starts < MaxStarts
  /\ \E request \in Requests :
       /\ ~ Contains(request, NoTrainee)
       /\ queue' \in BuildTasks(request)
       /\ batch' = queue'
  /\ step' = "initialize" /\ starts' = starts + 1
  /\ results' = << >> /\ stopRequested' = FALSE /\ pauseRequested' = FALSE
  /\ UNCHANGED <<current, attempt, slot>>

-----------------------------------------------------------------------------
(* processTask.  Each action takes the answer to the command awaited. *)

Settle(outcome, code) ==
  /\ results' = Append(results, Row(current, outcome, code))
  /\ step' = "saving"
  /\ UNCHANGED attempt

Goes(next) == step' = next /\ UNCHANGED <<results, attempt>>

(* RetryPolicy.execute: again after a delay, or the error is thrown. *)
Retries(code) == code \in Recoverable /\ attempt < MaxAttempts

PrepareFails(code) ==
  \/ Retries(code) /\ Goes("prepare_backoff")
  \/ ~ Retries(code) /\ Settle("failed", code)

(* The steps of prepareSubmission that unwrap their result. *)
Prepares(next, answer) ==
  \/ answer = "ok" /\ Goes(next)
  \/ answer # "ok" /\ PrepareFails(answer)

(* Mutation: transport errors of a submit count as proof that nothing was sent. *)
SubmittedTrusting(answer) ==
  LET mistrusted == NeverSent \cup {"NETWORK", "PORTAL_UNAVAILABLE"}
  IN  \/ answer = "ok" /\ attempt' = 1 /\ step' = "wait" /\ UNCHANGED results
      \/ answer \in mistrusted /\ Settle("failed", answer)
      \/ answer \notin mistrusted \cup {"ok"} /\ Settle("indeterminate", answer)

Submitted(answer) ==
  \/ answer = "ok" /\ attempt' = 1 /\ step' = "wait" /\ UNCHANGED results
  \/ answer \in NeverSent /\ Settle("failed", answer)
  \/ answer \notin NeverSent \cup {"ok"} /\ Settle("indeterminate", answer)

(* Mutation: one policy around the whole cycle, as before the phases were split. *)
ConfirmsByReplay(answer) ==
  \/ answer = "confirmed" /\ Settle("success", "none")
  \/ answer = "duplicate" /\ Settle("failed", "DUPLICATE_RECORD")
  \/ answer = "rejected" /\ Settle("failed", "SUBMISSION_FAILED")
  \/ /\ answer \notin {"confirmed", "duplicate", "rejected"}
     /\ \/ Retries(answer) /\ Goes("prepare_backoff")
        \/ ~ Retries(answer) /\ Settle("indeterminate", "CONFIRMATION_UNKNOWN")

Confirms(answer) ==
  \/ answer = "confirmed" /\ Settle("success", "none")
  \/ answer = "duplicate" /\ Settle("failed", "DUPLICATE_RECORD")
  \/ answer = "rejected" /\ Settle("failed", "SUBMISSION_FAILED")
  \/ /\ answer \notin {"confirmed", "duplicate", "rejected"}
     /\ \/ Retries(answer) /\ Goes("wait_backoff")
        \/ ~ Retries(answer) /\ Settle("indeterminate", "CONFIRMATION_UNKNOWN")

(* isPortalPage answers no to a dispatch that fails, and no is an expired session. *)
OnPage(answer) ==
  IF answer = "yes" THEN Goes("session_ready") ELSE Settle("failed", "SESSION_EXPIRED")

SessionReady(answer) == Goes(IF answer = "yes" THEN "prepare" ELSE "reinitialize")

Processes(answer) ==
  /\ \/ step = "is_page" /\ OnPage(answer)
     \/ step = "session_ready" /\ SessionReady(answer)
     \/ step = "reinitialize" /\ Prepares("prepare", answer)
     \/ step = "prepare" /\ Prepares("fill", answer)
     \/ step = "fill" /\ Prepares("validate", answer)
     \/ step = "validate" /\ Prepares("submit", answer)
     \/ step = "submit" /\ Submitted(answer)
     \/ step = "wait" /\ Confirms(answer)
  /\ UNCHANGED <<queue, current>>

(* The session of the batch: a failure ends the run with the queue as it is. *)
Initialized(answer) ==
  /\ step = "initialize"
  /\ IF answer = "ok" THEN Boundary ELSE Finish /\ UNCHANGED <<queue, results, attempt>>

Hear(answer) ==
  /\ Initialized(answer) \/ Processes(answer)
  /\ UNCHANGED <<pauseRequested, stopRequested, slot, starts, batch>>

(* Mutation: the attempts are not counted. *)
BackedOffUncounted ==
  /\ \/ step = "prepare_backoff" /\ step' = "is_page"
     \/ step = "wait_backoff" /\ step' = "wait"
  /\ UNCHANGED <<queue, results, current, attempt, pauseRequested, stopRequested, slot, starts, batch>>

(* The delay before another attempt; nothing cuts it short. *)
BackedOff ==
  /\ \/ step = "prepare_backoff" /\ step' = "is_page"
     \/ step = "wait_backoff" /\ step' = "wait"
  /\ attempt' = attempt + 1
  /\ UNCHANGED <<queue, results, current, pauseRequested, stopRequested, slot, starts, batch>>

-----------------------------------------------------------------------------
(* The controls. *)

(* releasePause: only an engine already asleep has left a signal to give. *)
ReleasePause == step' = IF step = "paused" THEN "woken" ELSE step

Pause ==
  /\ Running /\ ~ pauseRequested
  /\ pauseRequested' = TRUE
  /\ UNCHANGED <<step, queue, results, current, attempt, stopRequested, slot, starts, batch>>

Resume ==
  /\ pauseRequested
  /\ pauseRequested' = FALSE
  /\ ReleasePause
  /\ UNCHANGED <<queue, results, current, attempt, stopRequested, slot, starts, batch>>

Stop ==
  /\ Running
  /\ stopRequested' = TRUE /\ pauseRequested' = FALSE
  /\ ReleasePause
  /\ UNCHANGED <<queue, results, current, attempt, slot, starts, batch>>

-----------------------------------------------------------------------------
(* What the engine does on its own clock, and what its operator does. *)
Ticks == PausedSaved \/ Woken \/ RowSaved \/ Delayed \/ Finished \/ BackedOff
Operates == Start \/ Pause \/ Resume \/ Stop

=============================================================================
