---------------------------- MODULE BatchEngine ----------------------------
(***************************************************************************)
(* Checkpointed batches over one slot: starts through the recovery guard,    *)
(* the run loop of rust/src/engine.rs, the worker that may or may not POST,  *)
(* the daemon's pause/resume/stop, and the death of the process at any step. *)
(*                                                                          *)
(* The engine takes its operator-control lock around the boundary, the       *)
(* dequeue, each attempt's admission and the completion.  Every such section *)
(* is one action, except the completion, whose two file writes a crash can   *)
(* separate: while pc = "closing" the lock is held and no control gets in.   *)
(* The request itself is sent after the lock of its admission is dropped: a   *)
(* stop that comes in while pc = "admitted" finds it on its way.              *)
(*                                                                          *)
(* Ghosts: inHand, the trainees whose request a worker (one that may have    *)
(* outlived its engine) can still POST; posted, how often it did, counted    *)
(* since the last start over a batch that had closed out.                    *)
(***************************************************************************)
EXTENDS Recovery, Decision

CONSTANTS Jobs,         \* rosters an operator asks for: sequences of trainees
          MaxAttempts,  \* RetryPolicy.max_attempts
          MaxStarts,    \* bound: starts of a batch, refused ones included
          Controlled,   \* a daemon batch (BatchControl present) or a CLI one
          Replies       \* the responses a worker may give to submit_training

ASSUME JobsAssumption == Jobs \subseteq Seq(Trainees)
ASSUME MaxAttemptsAssumption == MaxAttempts \in Nat \ {0}
ASSUME MaxStartsAssumption == MaxStarts \in Nat
ASSUME ControlledAssumption == Controlled \in BOOLEAN
ASSUME RepliesAssumption == Replies \subseteq Responses

VARIABLES
  slot,            \* the checkpoint file
  pc,              \* where the run is; "idle" when no run exists
  queue,           \* TaskQueue
  results,         \* rows whose outcome is not Skipped, in completion order
  skipped,         \* trainees of the Skipped rows, in drain order
  total,
  current,         \* the dequeued trainee whose result is not pushed yet
  attempts,        \* attempts admitted for it
  halt,            \* should_abort(last), after a settle
  aborted,
  pauseRequested, stopRequested,   \* BatchControl
  exit,            \* how the last run ended (batch_exit_code)
  inHand, posted,
  starts

work == <<queue, results, skipped, total>>
task == <<current, attempts, halt>>
control == <<pauseRequested, stopRequested>>
portal == <<inHand, posted>>
vars == <<slot, pc, work, task, aborted, control, exit, portal, starts>>

-----------------------------------------------------------------------------
(* Helpers. *)

NoRepeats(s) == \A i, j \in DOMAIN s : s[i] = s[j] => i = j

FirstAt(s, t) == CHOOSE i \in DOMAIN s : s[i] = t /\ \A j \in DOMAIN s : s[j] = t => i <= j

(* Mutation: the roster is queued as typed. *)
AsTyped(job) == {job}

(* dedupe: each trainee once, in the order of its first occurrence. *)
Deduped(job) ==
  {q \in UNION {[1 .. n -> Range(job)] : n \in 0 .. Len(job)} :
     /\ NoRepeats(q)
     /\ Range(q) = Range(job)
     /\ \A i, j \in DOMAIN q : i < j => FirstAt(job, q[i]) < FirstAt(job, q[j])}

Snapshot(status, res, skp, q, t) ==
  [status |-> status, total |-> total, results |-> res, skipped |-> skp,
   pending |-> q, inFlight |-> t, tracks |-> TRUE]

(* CheckpointStore.save: the old file or the new one, never a torn one. *)
Save(cp, landed) == slot' = IF landed THEN cp ELSE slot

(* The run is over and its memory gone, whether it returned or was killed. *)
Forget ==
  /\ pc' = "idle"
  /\ queue' = << >> /\ results' = << >> /\ skipped' = << >> /\ total' = 0
  /\ current' = NoTrainee /\ attempts' = 0 /\ halt' = FALSE /\ aborted' = FALSE
  /\ pauseRequested' = FALSE /\ stopRequested' = FALSE

Fail == Forget /\ exit' = "attention"

Drain ==
  /\ skipped' = skipped \o queue
  /\ queue' = << >>
  /\ aborted' = TRUE

(* stop_checkpoint and the drain behind it: the write is fatal when it fails. *)
StopAndDrain(next) ==
  \/ /\ slot' = Snapshot("aborted", results, skipped, queue, NoTrainee)
     /\ Drain
     /\ pc' = next
     /\ UNCHANGED <<results, total, task, control, exit>>
  \/ Fail /\ UNCHANGED slot

-----------------------------------------------------------------------------
Init ==
  /\ slot = NoFile
  /\ pc = "idle"
  /\ queue = << >> /\ results = << >> /\ skipped = << >> /\ total = 0
  /\ current = NoTrainee /\ attempts = 0 /\ halt = FALSE /\ aborted = FALSE
  /\ pauseRequested = FALSE /\ stopRequested = FALSE
  /\ exit = "none"
  /\ inHand = {} /\ posted = [t \in Trainees |-> 0]
  /\ starts = 0

-----------------------------------------------------------------------------
(* Starting: recovery::guard, then what run_batch / Daemon::start do with it. *)

BeginStart ==
  /\ pc = "idle" /\ starts < MaxStarts
  /\ starts' = starts + 1

StartRefused ==
  /\ BeginStart
  /\ Refused(slot)
  /\ \E saved \in BOOLEAN : slot' = AfterGuard(slot, saved)
  /\ exit' = "attention"
  /\ UNCHANGED <<pc, work, task, aborted, control, portal>>

(* A fresh start over a batch that closed out opens a new account of posts. *)
StartFresh ==
  /\ BeginStart
  /\ ~ Refused(slot)
  /\ \E saved \in BOOLEAN : slot' = AfterGuard(slot, saved)
  /\ \E job \in Jobs : queue' \in Deduped(job)
  /\ results' = << >> /\ total' = Len(queue')
  /\ pc' = "session"
  /\ exit' = "none"
  /\ posted' = IF slot.status = "finished" THEN [t \in Trainees |-> 0] ELSE posted
  /\ UNCHANGED <<skipped, task, aborted, control, inHand>>

StartResume ==
  /\ BeginStart
  /\ slot.status # "absent" /\ Roster(slot) # << >>
  /\ \E saved \in BOOLEAN : slot' = AfterGuard(slot, saved)
  /\ queue' = Roster(slot)
  /\ results' = Carried(slot)
  /\ total' = Len(Roster(slot)) + Len(Carried(slot))
  /\ pc' = "session"
  /\ exit' = "none"
  /\ UNCHANGED <<skipped, task, aborted, control, portal>>

(* The one path out of the gate that never builds an engine. *)
ResumeNothing ==
  /\ BeginStart
  /\ slot.status # "absent" /\ Roster(slot) = << >>
  /\ \E saved, closed \in BOOLEAN :
       slot' = IF NothingOwed(slot) /\ closed THEN ClosedOut(slot) ELSE AfterGuard(slot, saved)
  /\ exit' = IF NothingOwed(slot) THEN "clean" ELSE "attention"
  /\ UNCHANGED <<pc, work, task, aborted, control, portal>>

(* connect, ensure_session, list and resolve; nothing is written when one fails. *)
EstablishSession ==
  /\ pc = "session"
  /\ \/ pc' = "loop" /\ UNCHANGED <<work, task, aborted, control, exit>>
     \/ Fail
  /\ UNCHANGED <<slot, portal, starts>>

-----------------------------------------------------------------------------
(* The loop. *)

QueueDone ==
  /\ pc = "loop" /\ queue = << >>
  /\ pc' = "finish"
  /\ UNCHANGED <<slot, work, task, aborted, control, exit, portal, starts>>

BoundaryPass ==
  /\ pc = "loop" /\ queue # << >>
  /\ ~ stopRequested /\ ~ pauseRequested
  /\ pc' = "take"
  /\ UNCHANGED <<slot, work, task, aborted, control, exit, portal, starts>>

BoundaryStop ==
  /\ pc = "loop" /\ queue # << >>
  /\ stopRequested
  /\ StopAndDrain("finish")
  /\ UNCHANGED <<portal, starts>>

(* Mutation: the write that records a pause is best effort. *)
PauseUnrecorded ==
  /\ pc = "loop" /\ queue # << >>
  /\ ~ stopRequested /\ pauseRequested
  /\ \E landed \in BOOLEAN : Save(Snapshot("paused", results, skipped, queue, NoTrainee), landed)
  /\ pc' = "paused"
  /\ UNCHANGED <<work, task, aborted, control, exit, portal, starts>>

BoundaryPause ==
  /\ pc = "loop" /\ queue # << >>
  /\ ~ stopRequested /\ pauseRequested
  /\ \/ /\ slot' = Snapshot("paused", results, skipped, queue, NoTrainee)
        /\ pc' = "paused"
        /\ UNCHANGED <<work, task, aborted, control, exit>>
     \/ Fail /\ UNCHANGED slot
  /\ UNCHANGED <<portal, starts>>

(* Mutation: a paused run looks for a stop only while still asked to pause. *)
PausedStopMissed ==
  /\ pc = "paused" /\ stopRequested /\ pauseRequested
  /\ StopAndDrain("finish")
  /\ UNCHANGED <<portal, starts>>

PausedStop ==
  /\ pc = "paused" /\ stopRequested
  /\ StopAndDrain("finish")
  /\ UNCHANGED <<portal, starts>>

PausedResume ==
  /\ pc = "paused" /\ ~ stopRequested /\ ~ pauseRequested
  /\ \/ /\ slot' = Snapshot("running", results, skipped, queue, NoTrainee)
        /\ pc' = "take"
        /\ UNCHANGED <<work, task, aborted, control, exit>>
     \/ Fail /\ UNCHANGED slot
  /\ UNCHANGED <<portal, starts>>

TakeStopped ==
  /\ pc = "take" /\ stopRequested
  /\ pc' = "loop"
  /\ UNCHANGED <<slot, work, task, aborted, control, exit, portal, starts>>

(* Mutation: the pre-submit write is best effort. *)
TakeUnrecorded ==
  /\ pc = "take" /\ ~ stopRequested
  /\ \E landed \in BOOLEAN :
       Save(Snapshot("running", results, skipped, Tail(queue), Head(queue)), landed)
  /\ current' = Head(queue) /\ queue' = Tail(queue)
  /\ pc' = "admit"
  /\ UNCHANGED <<skipped, aborted, results, total, attempts, halt, control, exit, portal, starts>>

(* Mutation: a failed pre-submit write is tried again for ever. *)
TakeAgain ==
  /\ pc = "take" /\ ~ stopRequested
  /\ \/ /\ slot' = Snapshot("running", results, skipped, Tail(queue), Head(queue))
        /\ current' = Head(queue) /\ queue' = Tail(queue)
        /\ pc' = "admit"
     \/ pc' = "loop" /\ UNCHANGED <<slot, current, queue>>
  /\ UNCHANGED <<skipped, aborted, results, total, attempts, halt, control, exit, portal, starts>>

(* The pre-submit write names the trainee, or the trainee goes back and the *)
(* run stops.                                                               *)
Take ==
  /\ pc = "take" /\ ~ stopRequested
  /\ \/ /\ slot' = Snapshot("running", results, skipped, Tail(queue), Head(queue))
        /\ current' = Head(queue) /\ queue' = Tail(queue)
        /\ pc' = "admit"
        /\ UNCHANGED <<skipped, aborted>>
     \/ /\ Drain
        /\ pc' = "finish"
        /\ UNCHANGED <<slot, current>>
  /\ UNCHANGED <<results, total, attempts, halt, control, exit, portal, starts>>

-----------------------------------------------------------------------------
(* process_trainee, and the push and best-effort settle write behind it. *)

Settle(kind, aborting) ==
  /\ results' = IF kind = "skipped" THEN results
                ELSE Append(results, [who |-> current, outcome |-> kind])
  /\ skipped' = IF kind = "skipped" THEN Append(skipped, current) ELSE skipped
  /\ \E landed \in BOOLEAN :
       Save(Snapshot("running", results', skipped', queue, NoTrainee), landed)
  /\ current' = NoTrainee /\ attempts' = 0
  /\ halt' = aborting
  /\ pc' = "settled"
  /\ UNCHANGED <<queue, total, aborted, control, exit, posted, starts>>

(* Stopped before an attempt: the retried failure stands, or nothing was sent. *)
AdmitStopped ==
  /\ pc = "admit" /\ stopRequested
  /\ Settle(IF attempts = 0 THEN "skipped" ELSE "failed", FALSE)
  /\ UNCHANGED inHand

(* Mutation: an attempt is admitted without asking about a stop. *)
AdmitAnyway ==
  /\ pc = "admit"
  /\ attempts' = attempts + 1
  /\ pc' = "admitted"
  /\ UNCHANGED <<slot, work, current, halt, aborted, control, exit, portal, starts>>

Admit ==
  /\ pc = "admit" /\ ~ stopRequested
  /\ attempts' = attempts + 1
  /\ pc' = "admitted"
  /\ UNCHANGED <<slot, work, current, halt, aborted, control, exit, portal, starts>>

(* worker.send, outside the lock: nobody asks about a stop again.  The write   *)
(* has no deadline, so it may also never be done.                             *)
Send ==
  /\ pc = "admitted"
  /\ inHand' = inHand \cup {current}
  /\ pc' = "sent"
  /\ UNCHANGED <<slot, work, task, aborted, control, exit, posted, starts>>

(* What the worker may say: an ok line only after its POST, a claim that     *)
(* nothing was submitted only when it never POSTed, anything else either way. *)
Truthful(resp) ==
  /\ resp.status = "ok" => posted[current] > 0 /\ current \notin inHand
  /\ resp.provesNothing => current \in inHand

GivesUp == attempts >= MaxAttempts

ReplySettles(resp) ==
  /\ pc = "sent" /\ Truthful(resp)
  /\ \/ /\ SettleSubmit(resp) # "retry"
        /\ Settle(SettleSubmit(resp), ShouldAbort(resp))
     \/ /\ SettleSubmit(resp) = "retry" /\ GivesUp
        /\ Settle("failed", FALSE)
  /\ inHand' = IF resp.status = "ready" THEN inHand ELSE inHand \ {current}

ReplyRetries(resp) ==
  /\ pc = "sent" /\ Truthful(resp)
  /\ SettleSubmit(resp) = "retry" /\ ~ GivesUp
  /\ inHand' = inHand \ {current}
  /\ pc' = "backoff"
  /\ UNCHANGED <<slot, work, task, aborted, control, exit, posted, starts>>

(* A failed write; or a timeout, a dead worker, a protocol violation, whose    *)
(* request may live on.                                                       *)
TransportError ==
  /\ pc \in {"admitted", "sent"}
  /\ Settle("indeterminate", TRUE)
  /\ UNCHANGED inHand

(* The delay ran out, or a stop cut it short. *)
BackoffOver ==
  /\ pc = "backoff"
  /\ pc' = "admit"
  /\ UNCHANGED <<slot, work, task, aborted, control, exit, portal, starts>>

Continue ==
  /\ pc = "settled" /\ ~ halt
  /\ pc' = "loop"
  /\ UNCHANGED <<slot, work, task, aborted, control, exit, portal, starts>>

AbortBatch ==
  /\ pc = "settled" /\ halt /\ ~ stopRequested
  /\ Drain
  /\ pc' = "finish"
  /\ UNCHANGED <<slot, results, total, task, control, exit, portal, starts>>

AbortStopped ==
  /\ pc = "settled" /\ halt /\ stopRequested
  /\ StopAndDrain("finish")
  /\ UNCHANGED <<portal, starts>>

-----------------------------------------------------------------------------
(* Completion, under the control lock. *)

LateStop ==
  /\ pc = "finish" /\ stopRequested /\ ~ aborted
  /\ StopAndDrain("closing")
  /\ UNCHANGED <<portal, starts>>

(* Mutation: the completion does not look for a stop. *)
CompleteUnasked ==
  /\ pc = "finish"
  /\ pc' = "closing"
  /\ UNCHANGED <<slot, work, task, aborted, control, exit, portal, starts>>

Complete ==
  /\ pc = "finish" /\ ~ (stopRequested /\ ~ aborted)
  /\ pc' = "closing"
  /\ UNCHANGED <<slot, work, task, aborted, control, exit, portal, starts>>

Reported(outs) == \E i \in DOMAIN results : results[i].outcome \in outs

(* Mutation: only what this process aborted or skipped wants attention. *)
ExitOfThisRun ==
  IF aborted \/ skipped # << >> THEN "attention"
  ELSE IF Reported({"failed"}) THEN "failed" ELSE "clean"

BatchExit ==
  IF aborted \/ Reported({"indeterminate"}) \/ skipped # << >> THEN "attention"
  ELSE IF Reported({"failed"}) THEN "failed" ELSE "clean"

(* Mutation: a run that reached its end records finished. *)
TerminalFinished(landed) ==
  /\ pc = "closing"
  /\ Save(Snapshot("finished", results, skipped, queue, NoTrainee), landed)
  /\ exit' = IF stopRequested /\ ~ landed THEN "attention" ELSE BatchExit
  /\ Forget
  /\ UNCHANGED <<portal, starts>>

(* The terminal write is best effort, except after a stop: then its failure *)
(* is the run's.                                                            *)
Terminal(landed) ==
  /\ pc = "closing"
  /\ Save(Snapshot(IF aborted THEN "aborted" ELSE "finished",
                   results, skipped, queue, NoTrainee), landed)
  /\ exit' = IF stopRequested /\ ~ landed THEN "attention" ELSE BatchExit
  /\ Forget
  /\ UNCHANGED <<portal, starts>>

Close == \E landed \in BOOLEAN : Terminal(landed)

-----------------------------------------------------------------------------
(* The operator (Daemon::control_captured), the worker and the machine. *)

Controllable == Controlled /\ pc \notin {"idle", "closing"} /\ ~ stopRequested

Pause ==
  /\ Controllable
  /\ pauseRequested' = TRUE
  /\ UNCHANGED <<slot, pc, work, task, aborted, stopRequested, exit, portal, starts>>

Resume ==
  /\ Controllable
  /\ pauseRequested' = FALSE
  /\ UNCHANGED <<slot, pc, work, task, aborted, stopRequested, exit, portal, starts>>

Stop ==
  /\ Controllable
  /\ stopRequested' = TRUE /\ pauseRequested' = FALSE
  /\ UNCHANGED <<slot, pc, work, task, aborted, exit, portal, starts>>

WorkerPosts(t) ==
  /\ t \in inHand
  /\ posted' = [posted EXCEPT ![t] = @ + 1]
  /\ inHand' = inHand \ {t}
  /\ UNCHANGED <<slot, pc, work, task, aborted, control, exit, starts>>

Crash ==
  /\ pc # "idle"
  /\ Forget
  /\ exit' = "none"
  /\ UNCHANGED <<slot, portal, starts>>

(* The operator starts nothing more. *)
Rest ==
  /\ pc = "idle" /\ starts = MaxStarts
  /\ UNCHANGED vars

-----------------------------------------------------------------------------
EngineStep ==
  \/ EstablishSession \/ QueueDone \/ BoundaryPass \/ BoundaryStop \/ BoundaryPause
  \/ PausedStop \/ PausedResume \/ TakeStopped \/ Take \/ AdmitStopped \/ Admit
  \/ Send
  \/ \E resp \in Replies : ReplySettles(resp) \/ ReplyRetries(resp)
  \/ TransportError \/ BackoffOver \/ Continue \/ AbortBatch \/ AbortStopped
  \/ LateStop \/ Complete \/ Close

Next ==
  \/ StartRefused \/ StartFresh \/ StartResume \/ ResumeNothing
  \/ EngineStep
  \/ Pause \/ Resume \/ Stop
  \/ \E t \in Trainees : WorkerPosts(t)
  \/ Crash \/ Rest

Spec == Init /\ [][Next]_vars

(* Where the engine writes to its worker: while the session is established   *)
(* and as it sends an admitted request.                                      *)
Writing == {"session", "admitted"}

(* The engine thread is scheduled and every wait for an answer has a timeout; *)
(* a write has none, and a worker that reads nothing may block it for ever.   *)
FairSpec == Spec /\ WF_vars(EngineStep /\ pc \notin Writing)

-----------------------------------------------------------------------------
(* Properties. *)

(* Everyone the file says may have reached the portal. *)
NamedBy(cp) == Who(cp.results) \cup ({cp.inFlight} \ {NoTrainee})

(* Everyone who has been POSTed, or still can be. *)
Exposed == inHand \cup {t \in Trainees : posted[t] > 0}

(* Every variable has the type its declaration says. *)
TypeOK ==
  /\ slot \in Checkpoints
  /\ pc \in {"idle", "session", "loop", "paused", "take", "admit", "admitted", "sent",
             "backoff", "settled", "finish", "closing"}
  /\ queue \in Seq(Trainees) /\ results \in Seq(Row) /\ skipped \in Seq(Trainees)
  /\ total \in Nat /\ current \in Trainees \cup {NoTrainee}
  /\ attempts \in Nat /\ halt \in BOOLEAN /\ aborted \in BOOLEAN
  /\ pauseRequested \in BOOLEAN /\ stopRequested \in BOOLEAN
  /\ exit \in {"none", "clean", "failed", "attention"}
  /\ inHand \in SUBSET Trainees /\ posted \in [Trainees -> Nat]
  /\ starts \in 0 .. MaxStarts

(* However starts, retries, stops, failed writes, crashes and a late worker  *)
(* interleave, no trainee's form is POSTed twice before the batch closes out *)
(* (engine.rs "never re-committing an outcome that isn't provably safe to    *)
(* repeat", recovery.rs "running one cannot produce a duplicate").           *)
AtMostOnce == \A t \in Trainees : posted[t] <= 1

(* A file that does not name a trainee is a file for which no submit was     *)
(* sent: whoever has been or can still be POSTed has a row or is in flight.  *)
NamedBeforeSent == Exposed \subseteq NamedBy(slot)

(* The checkpoint places each trainee of its batch in exactly one of results, *)
(* pending and in_flight, whatever was drained, put back or carried           *)
(* (checkpoint.rs, unaccounted).                                              *)
EveryTraineePlacedOnce ==
  /\ Placed(slot) = slot.total
  /\ NoRepeats(NeverAttempted(slot))
  /\ \A i, j \in DOMAIN slot.results : slot.results[i].who = slot.results[j].who => i = j
  /\ slot.inFlight \notin Who(slot.results)
  /\ NamedBy(slot) \cap Range(NeverAttempted(slot)) = {}

(* Finished means closed out: a file that says so leaves nobody to run       *)
(* (checkpoint.rs, "Finished has to mean closed out, not merely terminal").  *)
FinishedIsClosedOut ==
  slot.status = "finished" => NeverAttempted(slot) = << >> /\ slot.inFlight = NoTrainee

(* While a batch is paused its file says so, and nothing it sent is without  *)
(* a row: a pause is a safe boundary.                                        *)
PausedIsQuiet ==
  pc = "paused" =>
    /\ slot.status = "paused" /\ slot.inFlight = NoTrainee
    /\ Exposed \subseteq Who(slot.results)

(* The checkpoint tells the truth about its batch at every moment another     *)
(* process may read it: the three facts above together.                       *)
FileIsTrue == EveryTraineePlacedOnce /\ FinishedIsClosedOut /\ PausedIsQuiet

(* An unconfirmed row outlives every later rewrite of the slot.              *)
UnconfirmedSurvives ==
  [][Doubtful(slot.results) \subseteq Doubtful(slot'.results)]_vars

(* An accepted stop is kept, whichever lock section or blocking call of the   *)
(* engine it comes in at.  Nobody is begun and no attempt is admitted after   *)
(* it, so that at most one more request reaches the worker, the one whose      *)
(* admission came first; the file goes on saying that the batch is under way   *)
(* until it says aborted, and a run that gets as far as its end neither exits  *)
(* 0 or 1 nor leaves any other last word (engine.rs, "Admission, not the      *)
(* entire blocking send, is serialized with stop", "A stop observed here      *)
(* aborts even on the last row").                                             *)
StopIsKept ==
  [][stopRequested =>
       /\ current' \in {current, NoTrainee} /\ attempts' <= attempts
       /\ Exposed' \subseteq Exposed \cup {current}
       /\ slot' # slot => slot'.status \in {"running", "aborted"}
       /\ pc' = "idle" =>
            exit' \in {"none", "attention"} /\ (slot' # slot => slot'.status = "aborted")]_vars

(* A refusal does not expire by being recorded: between runs, a slot that    *)
(* refuses a plain start goes on refusing until a resume closes it out.      *)
RefusalDoesNotExpire ==
  [][pc = "idle" /\ pc' = "idle" /\ Refused(slot) /\ ~ Refused(slot')
       => NothingOwed(slot) /\ Roster(slot) = << >> /\ slot'.status = "finished"]_vars

(* Exit code 0 from a run tells the truth: every trainee it was asked for,   *)
(* carried ones included, was POSTed and confirmed.                          *)
CleanExitMeansAllConfirmed ==
  [][pc = "closing" /\ exit' = "clean" =>
       /\ Len(results) = total
       /\ \A i \in DOMAIN results :
            results[i].outcome = "success" /\ posted[results[i].who] = 1]_vars

(* A stop ends the run, wherever it arrives, unless a write to the worker     *)
(* never returns (docs/stage32-error-testing.md: the deadlines cover response *)
(* waits and not a blocked pipe write).                                      *)
StopEndsRun == stopRequested ~> (pc = "idle" \/ [](pc \in Writing))

(* A run that nobody pauses ends, with the same exception.                   *)
RunEnds == pc # "idle" ~> (pc = "idle" \/ pauseRequested \/ [](pc \in Writing))

(* No batch hangs, whatever its worker answers or does not answer, but in a   *)
(* write that its worker does not take.                                      *)
RunsEnd == StopEndsRun /\ RunEnds

(* The batch keeps the promise of SubmissionLedger, the record being the      *)
(* checkpoint file.                                                           *)
Ledger == INSTANCE SubmissionLedger WITH named <- NamedBy(slot)

ImplementsLedger == Ledger!Spec

-----------------------------------------------------------------------------
(* The inductive invariant behind AtMostOnce and NamedBeforeSent: the same    *)
(* facts about the file and, while a run exists, about its memory.            *)

Apart(s, t) == NoRepeats(s) /\ NoRepeats(t) /\ Range(s) \cap Range(t) = {}

InTask == pc \in {"admit", "admitted", "sent", "backoff"}

(* Nobody the file names waits in it, and nobody waits in it twice.          *)
FileSeparates ==
  /\ slot.tracks
  /\ Apart(slot.skipped, slot.pending)
  /\ NamedBy(slot) \cap (Range(slot.skipped) \cup Range(slot.pending)) = {}

(* The file names whoever is exposed, and as unconfirmed while a worker may   *)
(* still POST.                                                                *)
FileNames ==
  /\ Exposed \subseteq NamedBy(slot)
  /\ inHand \subseteq Doubtful(slot.results) \cup {slot.inFlight}

RunSeparates ==
  pc # "idle" =>
    /\ Apart(skipped, queue)
    /\ current \notin Who(results)
    /\ (Who(results) \cup {current}) \cap (Range(skipped) \cup Range(queue)) = {}

RunNames ==
  pc # "idle" =>
    /\ Exposed \subseteq Who(results) \cup {current}
    /\ inHand \subseteq Doubtful(results) \cup {current}

TaskInFlight ==
  /\ InTask => current \in Trainees /\ slot.inFlight = current
  /\ ~ InTask => current = NoTrainee
  /\ pc \in {"take", "paused"} => queue # << >>
  /\ pc \in {"idle", "session"} => skipped = << >>

SentOnce ==
  /\ \A t \in Trainees : posted[t] <= 1
  /\ \A t \in inHand : posted[t] = 0
  /\ pc \in {"admit", "admitted", "backoff"} => current \notin Exposed

IInv ==
  /\ TypeOK
  /\ FileSeparates /\ FileNames
  /\ RunSeparates /\ RunNames
  /\ TaskInFlight /\ SentOnce

=============================================================================
