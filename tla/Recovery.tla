------------------------------ MODULE Recovery ------------------------------
(***************************************************************************)
(* What a start may do with the checkpoint slot (recovery.rs, `guard`), as   *)
(* functions of the slot it finds.  The guard reads, promotes the suspect of *)
(* an untracked file, decides, and only then rewrites the file; BatchEngine  *)
(* turns these answers into its start actions.                               *)
(***************************************************************************)
EXTENDS BatchCheckpoint, FiniteSets

(* The predecessor as the guard sees it, the suspect already in flight. *)
Examined(slot) == PromoteSuspect(slot)

(* The refusal is decided before mark_interrupted rewrites the status. *)
Refused(slot) == BlocksStart(Examined(slot))

NeedsRecording(slot) ==
  IsLive(Examined(slot)) \/ UntrackedSuspect(slot) # NoTrainee

(* Every write of this build carries the in_flight key. *)
Recorded(slot) == [MarkInterrupted(Examined(slot)) EXCEPT !.tracks = TRUE]

(* A failed save is reported and otherwise ignored. *)
AfterGuard(slot, saved) ==
  IF NeedsRecording(slot) /\ saved THEN Recorded(slot) ELSE slot

Continuable(slot) ==
  IF slot.tracks THEN NeverAttempted(Examined(slot)) ELSE Examined(slot).skipped

(* Mutation: whoever was in flight is queued again. *)
RosterWithInFlight(slot) ==
  [i \in DOMAIN InFlightRows(Examined(slot)) |-> InFlightRows(Examined(slot))[i].who]
    \o Continuable(slot)

(* Everyone of s but t, in the order of s. *)
Without(s, t) ==
  LET others == {i \in DOMAIN s : s[i] # t}
      Nth(k) == CHOOSE i \in others : Cardinality({j \in others : j <= i}) = k
  IN  [k \in 1 .. Cardinality(others) |-> s[Nth(k)]]

Roster(slot) ==
  LET suspect == UntrackedSuspect(slot)
  IN  IF suspect = NoTrainee
      THEN Continuable(slot)
      ELSE Without(Continuable(slot), suspect)

Stranded(slot) ==
  IF slot.tracks THEN << >> ELSE UnvouchedQueue(Examined(slot))

(* Mutation: only the settled rows are carried. *)
CarriedSettled(slot) ==
  SelectSeq(Examined(slot).results, LAMBDA row : row.outcome # "indeterminate")
    \o InFlightRows(Examined(slot))

(* Mutation: the rows that landed are history and stay behind. *)
CarriedOwed(slot) ==
  (SelectSeq(Examined(slot).results, LAMBDA row : row.outcome = "indeterminate")
    \o InFlightRows(Examined(slot))) \o Stranded(slot)

Carried(slot) ==
  (Examined(slot).results \o InFlightRows(Examined(slot))) \o Stranded(slot)

(* owed = 0 *)
NothingOwed(slot) ==
  /\ ~ HasUnconfirmed(Examined(slot))
  /\ Stranded(slot) = << >>
  /\ Unaccounted(Examined(slot)) = 0

(* The acknowledged predecessor with nothing to run and nothing owed. *)
ClosedOut(slot) == [Recorded(slot) EXCEPT !.status = "finished"]

=============================================================================
