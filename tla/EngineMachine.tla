--------------------------- MODULE EngineMachine ---------------------------
(***************************************************************************)
(* The state machine of rust/src/state.rs as rust/src/engine.rs drives it:   *)
(* BatchEngine with one more variable.  Every move but the two of a pause    *)
(* discards the error of a refused transition and leaves the machine where   *)
(* it is; the two of a pause end the run with it, and PauseIsNeverRefused    *)
(* says that those two are always legal, so a refusal has no action here.    *)
(***************************************************************************)
EXTENDS BatchEngine

VARIABLE machine

mvars == <<vars, machine>>

Active ==
  {"Initializing", "LoadingTrainee", "OpeningForm", "FillingForm", "Validating",
   "Submitting", "Verifying", "Retrying"}

FromActive == {"Retrying", "LoadingTrainee", "Paused", "Stopped", "Complete"}

Forward ==
  [Initializing |-> {}, LoadingTrainee |-> {"OpeningForm"}, OpeningForm |-> {"FillingForm"},
   FillingForm |-> {"Validating"}, Validating |-> {"Submitting"}, Submitting |-> {"Verifying"},
   Verifying |-> {"LoadingTrainee"},
   Retrying |-> {"OpeningForm", "FillingForm", "Validating", "Submitting", "Verifying"}]

(* Mutation: nothing may interrupt a batch that has not loaded a trainee. *)
AllowedOnceLoaded(from) ==
  CASE from = "Idle" -> {"Initializing"}
    [] from = "Initializing" -> {"LoadingTrainee"}
    [] from \in Active \ {"Initializing"} -> FromActive \cup Forward[from]
    [] from = "Paused" -> {"LoadingTrainee", "Stopped", "Complete"}
    [] from \in {"Stopped", "Complete"} -> {"Idle"}

(* Mutation: a paused batch can only be resumed. *)
AllowedPausedResumes(from) ==
  CASE from = "Idle" -> {"Initializing"}
    [] from \in Active -> FromActive \cup Forward[from]
    [] from = "Paused" -> {"LoadingTrainee"}
    [] from \in {"Stopped", "Complete"} -> {"Idle"}

Allowed(from) ==
  CASE from = "Idle" -> {"Initializing"}
    [] from \in Active -> FromActive \cup Forward[from]
    [] from = "Paused" -> {"LoadingTrainee", "Stopped", "Complete"}
    [] from \in {"Stopped", "Complete"} -> {"Idle"}

(* `let _ = transition_to(next)`. *)
Try(next) == machine' = IF next \in Allowed(machine) THEN next ELSE machine

(* The run that a step ends takes its engine and its machine with it. *)
Drives(next) == IF pc' = "idle" THEN machine' = "Idle" ELSE Try(next)

Stays == machine' = IF pc' = "idle" THEN "Idle" ELSE machine

-----------------------------------------------------------------------------
MInit == Init /\ machine = "Idle"

(* run() resets the machine before anything else. *)
MStart == (StartFresh \/ StartResume) /\ machine' = "Initializing"

MStop ==
  /\ BoundaryStop \/ PausedStop \/ AbortBatch \/ AbortStopped \/ LateStop
  /\ Drives("Stopped")

MPause == BoundaryPause /\ Drives("Paused")

MResume == PausedResume /\ Drives("LoadingTrainee")

MTake == Take /\ Drives(IF pc' = "admit" THEN "LoadingTrainee" ELSE "Stopped")

MAdmit == Admit /\ Drives("Submitting")

MReply ==
  \E resp \in Replies :
    \/ ReplySettles(resp) /\ Drives("Verifying")
    \/ ReplyRetries(resp) /\ Drives("Retrying")

MComplete ==
  /\ Complete
  /\ IF machine = "Stopped" THEN UNCHANGED machine ELSE Try("Complete")

MOther ==
  /\ \/ StartRefused \/ ResumeNothing \/ EstablishSession \/ QueueDone \/ BoundaryPass
     \/ TakeStopped \/ AdmitStopped \/ Send \/ TransportError \/ BackoffOver \/ Continue
     \/ Close \/ Pause \/ Resume \/ Stop \/ Crash \/ Rest
     \/ \E t \in Trainees : WorkerPosts(t)
  /\ Stays

MNext ==
  \/ MStart \/ MStop \/ MPause \/ MResume \/ MTake \/ MAdmit \/ MReply \/ MComplete
  \/ MOther

MSpec == MInit /\ [][MNext]_mvars

(* The machine blocks no step, so the fairness is that of the engine's thread. *)
MFairSpec == MSpec /\ WF_vars(EngineStep /\ pc \notin Writing)

-----------------------------------------------------------------------------
(* The transitions of a pause, whose refusal would kill a batch that has only *)
(* been asked to wait, are legal from wherever a boundary can find the        *)
(* machine, after any number of trainees, retries and resumes.                *)
PauseIsNeverRefused ==
  /\ pc = "loop" => "Paused" \in Allowed(machine)
  /\ pc = "paused" => "LoadingTrainee" \in Allowed(machine)

(* Silently refused moves notwithstanding, a completed run leaves the machine *)
(* saying how it ended.                                                       *)
EndIsLabelled ==
  pc = "closing" => machine = IF aborted THEN "Stopped" ELSE "Complete"

(* The machine is where the loop takes it to be, at the moves that matter.    *)
MachineFollows == PauseIsNeverRefused /\ EndIsLabelled

=============================================================================
