--------------------------- MODULE RefusalAdvice ---------------------------
(***************************************************************************)
(* What a refused start tells the operator (recovery.rs, `refusal` and       *)
(* `reason`), what a resume then does, and how the end of a batch is shown:  *)
(* BatchEngine with the promise of the last refusal, the records the last    *)
(* resume still owes a human, and the daemon's state.  Only the choice of    *)
(* the sentences is modelled, with the number of runs they promise.          *)
(*                                                                          *)
(* The file a first start finds may be an older build's, without the         *)
(* in_flight key.  Such a build dropped a failed write and carried on, so     *)
(* that anybody its queue holds may be on the portal (checkpoint.rs,          *)
(* unvouched_queue): its suspect, the head, is counted in posted; `before`    *)
(* holds those behind the head whom it POSTed.  Whom a file short of its      *)
(* total has lost is not counted: no start knows him.                         *)
(***************************************************************************)
EXTENDS BatchEngine

CONSTANT Files   \* the slot a first start may find

(* What every build leaves in the slot, whatever its counts add up to: nobody *)
(* waits twice or is named and waits, and a build without the in_flight key    *)
(* has nobody under it.                                                       *)
Partitioned(cp) ==
  /\ Apart(cp.skipped, cp.pending)
  /\ NamedBy(cp) \cap (Range(cp.skipped) \cup Range(cp.pending)) = {}
  /\ ~ cp.tracks => cp.inFlight = NoTrainee

ASSUME FilesAssumption == Files \subseteq Checkpoints /\ \A cp \in Files : Partitioned(cp)

VARIABLES
  told,    \* [action, reason, runs] of the last refusal, or NoAdvice
  kept,    \* the settled rows it counted, until a plain start is admitted
  owed,    \* Plan::Resume.owed of the last start
  shown,   \* the daemon's progress state; "active" is any phase of a run
  report,  \* how the run ended, until the batch thread publishes it
  before,  \* ghost: POSTed by an older build from behind its suspect
  erased   \* ghost: those behind the suspect of a file that was given the key

past == <<told, kept, before, erased>>
avars == <<vars, past, owed, shown, report>>

-----------------------------------------------------------------------------
(* The refusal, from the predecessor the guard has already rewritten. *)

Settled(cp) == {cp.results[i] : i \in {j \in DOMAIN cp.results : cp.results[j].outcome \in {"success", "failed"}}}

(* Mutation: the suspect is counted among those a resume would run. *)
RunsPending(slotFound) == Len(NeverAttempted(slotFound))

Runs(slotFound) == Len(Roster(slotFound))

Action(slotFound) ==
  LET cp == MarkInterrupted(Examined(slotFound))
  IN  CASE Unaccounted(cp) > 0 -> "portal first"
        [] Unaccounted(cp) = 0 /\ Runs(slotFound) > 0 -> "continue"
        [] Unaccounted(cp) = 0 /\ Runs(slotFound) = 0 /\ RecordsLandedWork(cp) -> "close out"
        [] OTHER -> "carry"

Reason(slotFound) ==
  LET cp == MarkInterrupted(Examined(slotFound))
  IN  CASE UntrackedSuspect(slotFound) # NoTrainee -> "untracked"
        [] UntrackedSuspect(slotFound) = NoTrainee /\ cp.inFlight # NoTrainee -> "killed"
        [] cp.inFlight = NoTrainee /\ Unaccounted(cp) > 0 -> "short"
        [] cp.inFlight = NoTrainee /\ Unaccounted(cp) = 0 /\ RecordsLandedWork(cp) -> "landed"
        [] OTHER -> "unconfirmed"

NoAdvice == [action |-> "none", reason |-> "none", runs |-> 0]

Refusal(slotFound) ==
  [action |-> Action(slotFound), reason |-> Reason(slotFound), runs |-> Runs(slotFound)]

Owed(slotFound) ==
  Cardinality(Doubtful(Carried(slotFound))) + Unaccounted(Examined(slotFound))

(* Who waits behind the suspect of a file without the in_flight key. *)
Behind(cp) == IF cp.tracks THEN {} ELSE Range(cp.pending) \ {UntrackedSuspect(cp)}

-----------------------------------------------------------------------------
(* Daemon::start: what /status shows of a batch's end. *)

(* Mutation: the daemon trusts the run's own report, as the exit code does. *)
EndOfReport == IF report = "stopped" THEN "stopped" ELSE "complete"

EndShown == IF report = "stopped" \/ owed > 0 THEN "stopped" ELSE "complete"

(* Nobody was POSTed twice by the builds that wrote the file, and whoever was  *)
(* is named in it or waits in a queue that proves nothing.                    *)
AInit ==
  /\ slot \in Files
  /\ posted \in {f \in [Trainees -> {0, 1}] :
                   /\ \A t \in Trainees :
                        f[t] = 1 => t \in NamedBy(slot) \cup {UntrackedSuspect(slot)}
                   /\ \A i \in DOMAIN slot.results :
                        slot.results[i].outcome = "success" => f[slot.results[i].who] = 1}
  /\ before \in SUBSET Behind(slot)
  /\ pc = "idle"
  /\ queue = << >> /\ results = << >> /\ skipped = << >> /\ total = 0
  /\ current = NoTrainee /\ attempts = 0 /\ halt = FALSE /\ aborted = FALSE
  /\ pauseRequested = FALSE /\ stopRequested = FALSE
  /\ exit = "none" /\ inHand = {} /\ starts = 0
  /\ told = NoAdvice /\ kept = {} /\ owed = 0 /\ shown = "idle"
  /\ report = "none" /\ erased = {}

(* A start: the last batch thread has dropped its lease, and the guard may     *)
(* give an old file the key.                                                  *)
AStarts ==
  /\ report = "none" /\ UNCHANGED report
  /\ erased' = IF slot.tracks \/ ~ slot'.tracks THEN erased ELSE Behind(slot)

ARefused ==
  /\ StartRefused /\ AStarts
  /\ told' = Refusal(slot)
  /\ kept' = Settled(Examined(slot))
  /\ UNCHANGED <<owed, shown, before>>

AFresh ==
  /\ StartFresh /\ AStarts
  /\ told' = NoAdvice /\ kept' = {} /\ owed' = 0
  /\ shown' = "active"
  /\ before' = IF slot.status = "finished" THEN {} ELSE before

AResume ==
  /\ StartResume /\ AStarts
  /\ told' = NoAdvice /\ owed' = Owed(slot)
  /\ shown' = "active"
  /\ UNCHANGED <<kept, before>>

AResumeNothing ==
  /\ ResumeNothing /\ AStarts
  /\ told' = NoAdvice /\ owed' = Owed(slot)
  /\ shown' = IF Owed(slot) > 0 THEN "stopped" ELSE "complete"
  /\ UNCHANGED <<kept, before>>

(* A session that cannot be had is answered by the start itself, and its Busy *)
(* guard shows the batch stopped as it drops.                                 *)
ASession ==
  /\ EstablishSession
  /\ shown' = IF pc' = "idle" THEN "stopped" ELSE shown
  /\ UNCHANGED <<past, owed, report>>

(* Sink::write of an aborted record shows the batch stopped at once; when it   *)
(* fails, and the run with it, its thread has that still to do.               *)
AStop ==
  /\ BoundaryStop \/ PausedStop \/ AbortStopped \/ LateStop
  /\ IF pc' = "idle" THEN report' = "stopped" /\ UNCHANGED shown
                     ELSE shown' = "stopped" /\ UNCHANGED report
  /\ UNCHANGED <<past, owed>>

APause ==
  /\ BoundaryPause \/ PausedResume
  /\ report' = IF pc' = "idle" THEN "stopped" ELSE report
  /\ UNCHANGED <<past, owed, shown>>

(* The terminal write, once it has landed, shows the status it wrote. *)
AClose ==
  /\ \E landed \in BOOLEAN :
       /\ Terminal(landed)
       /\ shown' = CASE ~ landed -> shown
                     [] landed /\ aborted -> "stopped"
                     [] landed /\ ~ aborted -> "complete"
       /\ report' = IF aborted \/ (stopRequested /\ ~ landed) THEN "stopped" ELSE "whole"
  /\ UNCHANGED <<past, owed>>

(* The batch thread has its report and publishes it, under the state's mutex  *)
(* once more, with what the start said was owed.                              *)
AEnd ==
  /\ report # "none"
  /\ shown' = EndShown
  /\ report' = "none"
  /\ UNCHANGED <<vars, past, owed>>

(* The daemon dies, in a run or after it. *)
ACrash ==
  /\ Crash \/ (pc = "idle" /\ UNCHANGED vars)
  /\ shown' = "idle" /\ report' = "none"
  /\ UNCHANGED <<past, owed>>

AOther ==
  /\ \/ QueueDone \/ BoundaryPass \/ TakeStopped \/ Take \/ AdmitStopped \/ Admit \/ Send
     \/ \E resp \in Replies : ReplySettles(resp) \/ ReplyRetries(resp)
     \/ TransportError \/ BackoffOver \/ Continue \/ AbortBatch \/ Complete
     \/ Pause \/ Resume \/ Stop \/ Rest
     \/ \E t \in Trainees : WorkerPosts(t)
  /\ UNCHANGED <<past, owed, shown, report>>

ANext ==
  \/ ARefused \/ AFresh \/ AResume \/ AResumeNothing
  \/ ASession \/ AStop \/ APause \/ AClose \/ AEnd \/ ACrash \/ AOther

ASpec == AInit /\ [][ANext]_avars

-----------------------------------------------------------------------------
(* Properties. *)

(* A refusal's advice is kept by the resume it asks for: that resume queues as *)
(* many trainees as the refusal said, whatever the guard's own rewrite of the  *)
(* file did in between, or failed to do (recovery.rs, "counting it would       *)
(* promise a resume one more run than it makes").  Over a file without the     *)
(* in_flight key it is broken by exactly those behind the suspect: once the    *)
(* rewrite has given the file the key, the resume takes them for waiting.      *)
PromiseKept ==
  [][(AResume \/ AResumeNothing) /\ told # NoAdvice =>
       Len(queue') = told.runs + IF told.reason = "untracked" THEN Cardinality(erased) ELSE 0]_avars

(* What a refusal counts as settled is still in the file after any number of  *)
(* resumes, crashes and failed writes, until a plain start is let through     *)
(* ("the N already settled are carried forward").                             *)
HistoryKept == kept \subseteq Settled(slot)

(* POSTs of a trainee, by this build and the one before. *)
Posts(t) == posted[t] + IF t \in before THEN 1 ELSE 0

(* What went before the start is neither lost nor done again: HistoryKept,    *)
(* and nobody whom an earlier run may have POSTed is POSTed once more, nor     *)
(* whom an earlier build may have, the suspect of a file without in_flight     *)
(* among them (recovery.rs, "Run 2 ... trainee 2 must not be run").  The one   *)
(* exception is the code's: whoever waited behind that suspect when a start    *)
(* gave the file the key is queued by a later resume as never attempted.      *)
PastIsKept ==
  /\ HistoryKept
  /\ AtMostOnce
  /\ \A t \in Trainees : Posts(t) > 1 => t \in before \cap erased

(* Once the batch thread has published, a batch is shown complete only if it   *)
(* leaves nobody to be looked up on the portal: no unconfirmed row and no     *)
(* trainee the counts cannot place (daemon.rs, "do not present that as a      *)
(* clean run").  Between the terminal write and that step Sink::write has      *)
(* already shown the word of the file.                                        *)
CompleteOwesNobody ==
  report = "none" /\ shown = "complete" => owed = 0 /\ Doubtful(slot.results) = {}

=============================================================================
