-------------------------- MODULE BatchCheckpoint --------------------------
(***************************************************************************)
(* The durable record of a batch (rust/src/checkpoint.rs) and what recovery *)
(* reads off it.  Constant-level: the file's contents and the pure          *)
(* questions asked of it; who writes it and when is in BatchEngine.         *)
(*                                                                          *)
(* Two choices of representation:                                           *)
(*  - `results` of the code is one vector that every reader immediately     *)
(*    splits by outcome (drained_skips / carried); here it is kept split:   *)
(*    `results` holds the rows whose outcome is not Skipped, `skipped` the  *)
(*    trainees of the rows that are.                                        *)
(*  - an absent file is the record NoFile, with status "absent".            *)
(* `tracks` says whether the JSON carries the in_flight key at all.         *)
(***************************************************************************)
EXTENDS Naturals, Sequences, Functions

CONSTANTS Trainees,    \* the trainee ids that can be queued
          NoTrainee    \* in_flight = null

ASSUME NoTraineeAssumption == NoTrainee \notin Trainees

Outcomes == {"success", "failed", "indeterminate"}
Statuses == {"absent", "running", "paused", "finished", "interrupted", "aborted"}

Row == [who : Trainees, outcome : Outcomes]

Checkpoints ==
  [status : Statuses, total : Nat, results : Seq(Row), skipped : Seq(Trainees),
   pending : Seq(Trainees), inFlight : Trainees \cup {NoTrainee}, tracks : BOOLEAN]

NoFile ==
  [status |-> "absent", total |-> 0, results |-> << >>, skipped |-> << >>,
   pending |-> << >>, inFlight |-> NoTrainee, tracks |-> TRUE]

-----------------------------------------------------------------------------
(* Status. *)

IsLive(cp) == cp.status \in {"running", "paused"}

MarkInterrupted(cp) ==
  IF IsLive(cp) THEN [cp EXCEPT !.status = "interrupted"] ELSE cp

-----------------------------------------------------------------------------
(* Who the file names, and in which group. *)

Who(rows) == {rows[i].who : i \in DOMAIN rows}

Doubtful(rows) ==
  {rows[i].who : i \in {j \in DOMAIN rows : rows[j].outcome = "indeterminate"}}

InFlightRows(cp) ==
  IF cp.inFlight = NoTrainee
  THEN << >>
  ELSE << [who |-> cp.inFlight, outcome |-> "indeterminate"] >>

HasUnconfirmed(cp) == cp.inFlight # NoTrainee \/ Doubtful(cp.results) # {}

HasSettled(cp) == \E i \in DOMAIN cp.results : cp.results[i].outcome \in {"success", "failed"}

(* Mutation: the clause asks whether the file claims a live process. *)
RecordsLandedWorkWhileLive(cp) == IsLive(cp) /\ HasSettled(cp)

RecordsLandedWork(cp) == cp.status # "finished" /\ HasSettled(cp)

NeverAttempted(cp) == cp.skipped \o cp.pending

Placed(cp) ==
  Len(cp.results) + Len(cp.skipped) + Len(cp.pending)
    + (IF cp.inFlight = NoTrainee THEN 0 ELSE 1)

Unaccounted(cp) == IF Placed(cp) < cp.total THEN cp.total - Placed(cp) ELSE 0

BlocksStart(cp) ==
  HasUnconfirmed(cp) \/ Unaccounted(cp) > 0 \/ RecordsLandedWork(cp)

-----------------------------------------------------------------------------
(* Files from a build that did not write the in_flight key. *)

UntrackedSuspect(cp) ==
  IF cp.tracks \/ cp.pending = << >> THEN NoTrainee ELSE Head(cp.pending)

(* Mutation: the suspect is kept out of this run's roster and not recorded. *)
PromoteNobody(cp) == cp

(* The suspect is always the head of pending, so taking it out is Tail. *)
PromoteSuspect(cp) ==
  IF UntrackedSuspect(cp) = NoTrainee \/ cp.inFlight # NoTrainee
  THEN cp
  ELSE [cp EXCEPT !.inFlight = Head(cp.pending), !.pending = Tail(cp.pending)]

UnvouchedQueue(cp) ==
  [i \in 1 .. Len(cp.pending) |-> [who |-> cp.pending[i], outcome |-> "indeterminate"]]

=============================================================================
