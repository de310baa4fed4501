------------------------- MODULE BatchEngineProofs -------------------------
(***************************************************************************)
(* Proofs about BatchEngine, for every roster, retry limit, number of starts *)
(* and set of worker replies.  The lemmas on sequences come first, then the  *)
(* type invariant, then the inductive invariant IInv and what it implies, and *)
(* at the end the state machine that EngineMachine puts beside the loop.     *)
(***************************************************************************)
EXTENDS EngineMachine, SequenceTheorems, TLAPS

-----------------------------------------------------------------------------
(* Sequences of trainees and rows. *)

(* Range is the set of the elements at the indices 1..Len. *)
LEMMA RangeIndices ==
  ASSUME NEW S, NEW s \in Seq(S)
  PROVE  Range(s) = {s[i] : i \in 1 .. Len(s)} /\ DOMAIN s = 1 .. Len(s)
BY DEF Range

(* Taking the head off a sequence without repeats removes it for good. *)
LEMMA HeadApart ==
  ASSUME NEW S, NEW s \in Seq(S), s # << >>
  PROVE  /\ Head(s) \in S /\ Tail(s) \in Seq(S)
         /\ Range(s) = {Head(s)} \cup Range(Tail(s))
         /\ NoRepeats(s) => NoRepeats(Tail(s)) /\ Head(s) \notin Range(Tail(s))
<1>1. /\ Head(s) \in S /\ Tail(s) \in Seq(S) /\ Len(s) \in Nat \ {0}
      /\ Len(Tail(s)) = Len(s) - 1 /\ Head(s) = s[1]
      /\ \A i \in 1 .. Len(s) - 1 : Tail(s)[i] = s[i + 1]
  BY HeadTailProperties, EmptySeq, LenProperties
<1>2. DOMAIN s = 1 .. Len(s) /\ DOMAIN Tail(s) = 1 .. Len(s) - 1
  BY <1>1
<1>3. Range(s) = {Head(s)} \cup Range(Tail(s))
  <2>1. ASSUME NEW x \in Range(s) PROVE x \in {Head(s)} \cup Range(Tail(s))
    <3>1. PICK i \in 1 .. Len(s) : x = s[i]  BY <1>2 DEF Range
    <3>2. CASE i = 1  BY <1>1, <3>1, <3>2
    <3>3. CASE i # 1
      <4>1. i - 1 \in 1 .. Len(s) - 1 /\ Tail(s)[i - 1] = s[i]  BY <1>1, <3>3
      <4> QED BY <1>2, <3>1, <4>1 DEF Range
    <3> QED BY <3>2, <3>3
  <2>2. ASSUME NEW x \in {Head(s)} \cup Range(Tail(s)) PROVE x \in Range(s)
    <3>1. CASE x = Head(s)  BY <1>1, <1>2, <3>1 DEF Range
    <3>2. CASE x \in Range(Tail(s))
      <4>1. PICK i \in 1 .. Len(s) - 1 : x = Tail(s)[i]  BY <1>2, <3>2 DEF Range
      <4>2. i + 1 \in 1 .. Len(s) /\ x = s[i + 1]  BY <1>1, <4>1
      <4> QED BY <1>2, <4>2 DEF Range
    <3> QED BY <3>1, <3>2
  <2> QED BY <2>1, <2>2
<1>4. ASSUME NoRepeats(s) PROVE NoRepeats(Tail(s)) /\ Head(s) \notin Range(Tail(s))
  BY <1>1, <1>2, <1>4 DEF NoRepeats, Range
<1> QED BY <1>1, <1>3, <1>4

(* Concatenating two sequences that share nothing introduces no repeat. *)
LEMMA ConcatApart ==
  ASSUME NEW S, NEW s \in Seq(S), NEW u \in Seq(S)
  PROVE  /\ s \o u \in Seq(S)
         /\ Range(s \o u) = Range(s) \cup Range(u)
         /\ Apart(s, u) => NoRepeats(s \o u)
<1>1. s \o u \in Seq(S) /\ Range(s \o u) = Range(s) \cup Range(u)
  BY ConcatProperties, RangeConcatenation
<1>2. ASSUME Apart(s, u) PROVE NoRepeats(s \o u)
  <2>1. /\ Len(s) \in Nat /\ Len(u) \in Nat
        /\ DOMAIN s = 1 .. Len(s) /\ DOMAIN u = 1 .. Len(u)
        /\ DOMAIN (s \o u) = 1 .. Len(s) + Len(u)
        /\ \A i \in 1 .. Len(s) + Len(u) :
             (s \o u)[i] = IF i <= Len(s) THEN s[i] ELSE u[i - Len(s)]
    BY <1>1, ConcatProperties, LenProperties
  <2>2. SUFFICES ASSUME NEW i \in DOMAIN (s \o u), NEW j \in DOMAIN (s \o u),
                        (s \o u)[i] = (s \o u)[j]
                 PROVE  i = j
    BY DEF NoRepeats
  <2>3. CASE i <= Len(s) /\ j <= Len(s)  BY <1>2, <2>1, <2>2, <2>3 DEF Apart, NoRepeats
  <2>4. CASE i > Len(s) /\ j > Len(s)
    <3>1. i - Len(s) \in DOMAIN u /\ j - Len(s) \in DOMAIN u /\ u[i - Len(s)] = u[j - Len(s)]
      BY <2>1, <2>2, <2>4
    <3>2. i - Len(s) = j - Len(s)  BY <1>2, <3>1 DEF Apart, NoRepeats
    <3> QED BY <2>1, <3>2
  <2>5. CASE i <= Len(s) /\ j > Len(s)
    <3>1. s[i] \in Range(s) /\ j - Len(s) \in DOMAIN u /\ u[j - Len(s)] = s[i]
      BY <2>1, <2>2, <2>5 DEF Range
    <3>2. s[i] \in Range(u)  BY <3>1 DEF Range
    <3> QED BY <1>2, <3>1, <3>2 DEF Apart
  <2>6. CASE i > Len(s) /\ j <= Len(s)
    <3>1. s[j] \in Range(s) /\ i - Len(s) \in DOMAIN u /\ u[i - Len(s)] = s[j]
      BY <2>1, <2>2, <2>6 DEF Range
    <3>2. s[j] \in Range(u)  BY <3>1 DEF Range
    <3> QED BY <1>2, <3>1, <3>2 DEF Apart
  <2> QED BY <2>1, <2>3, <2>4, <2>5, <2>6
<1> QED BY <1>1, <1>2

(* Pushing a row adds its trainee, to the doubtful ones if it is doubtful. *)
LEMMA PushRow ==
  ASSUME NEW rows \in Seq(Row), NEW r \in Row
  PROVE  /\ Append(rows, r) \in Seq(Row)
         /\ Who(Append(rows, r)) = Who(rows) \cup {r.who}
         /\ Doubtful(Append(rows, r)) =
              Doubtful(rows) \cup (IF r.outcome = "indeterminate" THEN {r.who} ELSE {})
<1>1. /\ Append(rows, r) \in Seq(Row) /\ Len(rows) \in Nat
      /\ DOMAIN rows = 1 .. Len(rows)
      /\ DOMAIN Append(rows, r) = 1 .. Len(rows) + 1
      /\ \A i \in 1 .. Len(rows) : Append(rows, r)[i] = rows[i]
      /\ Append(rows, r)[Len(rows) + 1] = r
  BY AppendProperties, LenProperties
<1>2. DOMAIN Append(rows, r) = DOMAIN rows \cup {Len(rows) + 1}
  BY <1>1
<1>3. Who(Append(rows, r)) = Who(rows) \cup {r.who}
  BY <1>1, <1>2 DEF Who
<1>4. Doubtful(Append(rows, r)) =
        Doubtful(rows) \cup (IF r.outcome = "indeterminate" THEN {r.who} ELSE {})
  BY <1>1, <1>2 DEF Doubtful
<1> QED BY <1>1, <1>3, <1>4

(* What dedupe may return is a sequence of trainees without repeats. *)
LEMMA DedupedProperties ==
  ASSUME NEW job \in Jobs, NEW q \in Deduped(job)
  PROVE  q \in Seq(Trainees) /\ NoRepeats(q)
<1>1. job \in Seq(Trainees) /\ Range(job) \subseteq Trainees
  BY JobsAssumption, RangeOfSeq
<1>2. Len(job) \in Nat /\ NoRepeats(q)  BY <1>1 DEF Deduped
<1>3. PICK n \in 0 .. Len(job) : q \in [1 .. n -> Range(job)]  BY DEF Deduped
<1>4. q \in [1 .. n -> Trainees] /\ n \in Nat  BY <1>1, <1>2, <1>3
<1> QED BY <1>2, <1>4, SeqDef

-----------------------------------------------------------------------------
(* The recovery guard, over a file of this build. *)

(* The guard may change a tracked file's status and nothing else. *)
SameGroups(cp, file) ==
  /\ cp \in Checkpoints /\ cp.tracks
  /\ cp.results = file.results /\ cp.skipped = file.skipped
  /\ cp.pending = file.pending /\ cp.inFlight = file.inFlight

LEMMA GuardKeepsGroups ==
  ASSUME NEW file \in Checkpoints, file.tracks, NEW saved \in BOOLEAN
  PROVE  /\ Examined(file) = file /\ UntrackedSuspect(file) = NoTrainee
         /\ SameGroups(AfterGuard(file, saved), file)
         /\ SameGroups(ClosedOut(file), file)
<1>1. UntrackedSuspect(file) = NoTrainee  BY DEF UntrackedSuspect
<1>2. Examined(file) = file  BY <1>1 DEF Examined, PromoteSuspect
<1>3. SameGroups(Recorded(file), file)
  BY <1>2 DEF Recorded, MarkInterrupted, SameGroups, Checkpoints, Statuses
<1>4. SameGroups(ClosedOut(file), file)
  BY <1>3 DEF ClosedOut, SameGroups, Checkpoints, Statuses
<1>5. SameGroups(file, file)  BY DEF SameGroups
<1> QED BY <1>1, <1>2, <1>3, <1>4, <1>5 DEF AfterGuard

(* A resume queues exactly the waiting trainees and carries everyone named. *)
LEMMA ResumeSplits ==
  ASSUME NEW file \in Checkpoints, file.tracks
  PROVE  /\ Roster(file) = file.skipped \o file.pending
         /\ Carried(file) \in Seq(Row)
         /\ Who(Carried(file)) = NamedBy(file)
         /\ Doubtful(Carried(file)) =
              Doubtful(file.results) \cup ({file.inFlight} \ {NoTrainee})
<1>1. Examined(file) = file /\ UntrackedSuspect(file) = NoTrainee
  BY GuardKeepsGroups, TRUE \in BOOLEAN
<1>2. Roster(file) = file.skipped \o file.pending
  BY <1>1 DEF Roster, Continuable, NeverAttempted
<1>3. file.results \in Seq(Row) /\ file.inFlight \in Trainees \cup {NoTrainee}
  BY DEF Checkpoints
<1>4. Carried(file) = (file.results \o InFlightRows(file)) \o << >>
  BY <1>1 DEF Carried, Stranded
<1>5. CASE file.inFlight = NoTrainee
  <2>1. Carried(file) = file.results
    BY <1>3, <1>4, <1>5, ConcatEmptySeq DEF InFlightRows
  <2> QED BY <1>2, <1>3, <1>5, <2>1 DEF NamedBy
<1>6. CASE file.inFlight # NoTrainee
  <2> DEFINE r == [who |-> file.inFlight, outcome |-> "indeterminate"]
  <2>1. r \in Row /\ r.who = file.inFlight /\ r.outcome = "indeterminate"
    BY <1>3, <1>6 DEF Row, Outcomes
  <2>2. file.results \o << r >> = Append(file.results, r) /\ Append(file.results, r) \in Seq(Row)
    BY <1>3, <2>1, AppendIsConcat, AppendProperties
  <2>3. Carried(file) = Append(file.results, r)
    BY <1>4, <1>6, <2>2, ConcatEmptySeq DEF InFlightRows
  <2> HIDE DEF r
  <2> QED BY <1>2, <1>3, <1>6, <2>1, <2>3, PushRow DEF NamedBy
<1> QED BY <1>5, <1>6

(* A tracked file that does not refuse a start names nobody, unless it says   *)
(* its batch finished; and then it leaves nobody in doubt.                    *)
LEMMA UnrefusedNames ==
  ASSUME NEW file \in Checkpoints, file.tracks, ~ Refused(file)
  PROVE  /\ file.inFlight = NoTrainee /\ Doubtful(file.results) = {}
         /\ file.status # "finished" => NamedBy(file) = {}
<1>1. Examined(file) = file  BY GuardKeepsGroups, TRUE \in BOOLEAN
<1>2. file.inFlight = NoTrainee /\ Doubtful(file.results) = {}
  BY <1>1 DEF Refused, BlocksStart, HasUnconfirmed
<1>3. ASSUME file.status # "finished" PROVE NamedBy(file) = {}
  <2>1. \A i \in DOMAIN file.results : file.results[i].outcome \notin {"success", "failed"}
    BY <1>1, <1>3 DEF Refused, BlocksStart, RecordsLandedWork, HasSettled
  <2>2. \A i \in DOMAIN file.results : file.results[i] \in Row
    BY DEF Checkpoints
  <2>3. \A i \in DOMAIN file.results : file.results[i].outcome = "indeterminate"
    BY <2>1, <2>2 DEF Row, Outcomes
  <2>4. DOMAIN file.results = {}  BY <1>2, <2>3 DEF Doubtful
  <2> QED BY <1>2, <2>4 DEF NamedBy, Who
<1> QED BY <1>2, <1>3

-----------------------------------------------------------------------------
(* Types. *)

LEMMA SnapshotType ==
  ASSUME NEW status \in Statuses, total \in Nat, NEW res \in Seq(Row),
         NEW skp \in Seq(Trainees), NEW q \in Seq(Trainees),
         NEW t \in Trainees \cup {NoTrainee}
  PROVE  /\ Snapshot(status, res, skp, q, t) \in Checkpoints
         /\ Snapshot(status, res, skp, q, t).tracks
BY DEF Snapshot, Checkpoints

LEMMA ForgetType ==
  ASSUME Forget
  PROVE  /\ pc' = "idle" /\ queue' \in Seq(Trainees)
         /\ results' \in Seq(Row) /\ skipped' \in Seq(Trainees)
         /\ total' \in Nat /\ current' \in Trainees \cup {NoTrainee} /\ attempts' \in Nat
         /\ halt' \in BOOLEAN /\ aborted' \in BOOLEAN
         /\ pauseRequested' \in BOOLEAN /\ stopRequested' \in BOOLEAN
<1>1. << >> \in Seq(Trainees) /\ << >> \in Seq(Row) /\ 0 \in Nat
  BY EmptySeq
<1>2. /\ halt' \in BOOLEAN /\ aborted' \in BOOLEAN
      /\ pauseRequested' \in BOOLEAN /\ stopRequested' \in BOOLEAN
  BY Zenon DEF Forget
<1> QED BY <1>1, <1>2 DEF Forget

TypeInv == TypeOK /\ slot.tracks

(* A write by this build carries the in_flight key, so a tracked file stays one. *)
StaysTracked == slot.tracks => slot'.tracks

LEMMA StopType ==
  ASSUME TypeOK, NEW next \in {"finish", "closing"},
         StopAndDrain(next), UNCHANGED <<portal, starts>>
  PROVE  TypeOK' /\ StaysTracked
<1> USE DEF StaysTracked, TypeOK, portal, control, task
<1>1. CASE Fail /\ UNCHANGED slot
  BY <1>1, ForgetType DEF Fail
<1>2. CASE /\ slot' = Snapshot("aborted", results, skipped, queue, NoTrainee)
           /\ Drain /\ pc' = next
           /\ UNCHANGED <<results, total, task, control, exit>>
  <2>1. slot' \in Checkpoints /\ slot'.tracks
    BY <1>2, SnapshotType DEF Statuses
  <2>2. skipped' \in Seq(Trainees) /\ queue' \in Seq(Trainees) /\ aborted' \in BOOLEAN
    BY <1>2, ConcatProperties DEF Drain
  <2> QED BY <1>2, <2>1, <2>2
<1> QED BY <1>1, <1>2 DEF StopAndDrain

LEMMA SettleType ==
  ASSUME TypeOK, InTask, current \in Trainees,
         NEW kind \in Outcomes \cup {"skipped"}, NEW aborting \in BOOLEAN,
         Settle(kind, aborting), inHand' \in SUBSET Trainees
  PROVE  TypeOK' /\ StaysTracked
<1> USE DEF StaysTracked, TypeOK, control
<1> DEFINE r == [who |-> current, outcome |-> kind]
<1>1. results' \in Seq(Row)
  <2>1. CASE kind = "skipped"  BY <2>1 DEF Settle
  <2>2. CASE kind # "skipped"
    <3>1. r \in Row  BY <2>2 DEF Row
    <3> QED BY <2>2, <3>1, AppendProperties DEF Settle
  <2> QED BY <2>1, <2>2
<1>2. skipped' \in Seq(Trainees)
  BY AppendProperties DEF Settle
<1>3. slot' \in Checkpoints /\ (slot.tracks => slot'.tracks)
  <2>1. Snapshot("running", results', skipped', queue, NoTrainee) \in Checkpoints
        /\ Snapshot("running", results', skipped', queue, NoTrainee).tracks
    BY <1>1, <1>2, SnapshotType DEF Statuses
  <2> QED BY <2>1 DEF Settle, Save
<1> QED BY <1>1, <1>2, <1>3 DEF Settle

LEMMA TypeInit == Init => TypeInv
<1> SUFFICES ASSUME Init PROVE TypeInv  OBVIOUS
<1> USE DEF Init, TypeInv, TypeOK
<1>1. slot \in Checkpoints /\ slot.tracks
  BY EmptySeq DEF NoFile, Checkpoints, Statuses
<1>2. queue \in Seq(Trainees) /\ results \in Seq(Row) /\ skipped \in Seq(Trainees)
  BY EmptySeq
<1>3. halt \in BOOLEAN /\ aborted \in BOOLEAN /\ pauseRequested \in BOOLEAN /\ stopRequested \in BOOLEAN
  BY Zenon
<1>4. inHand \in SUBSET Trainees /\ posted \in [Trainees -> Nat] /\ starts \in 0 .. MaxStarts
  BY MaxStartsAssumption
<1> QED BY <1>1, <1>2, <1>3, <1>4

(* The reset of a fresh start over a closed-out batch. *)
LEMMA PostedReset ==
  ASSUME posted \in [Trainees -> Nat],
         posted' = IF slot.status = "finished" THEN [t \in Trainees |-> 0] ELSE posted
  PROVE  posted' \in [Trainees -> Nat]
OBVIOUS

(* A response either settles the attempt or asks for another one. *)
LEMMA VerdictType ==
  ASSUME NEW resp
  PROVE  /\ SettleSubmit(resp) # "retry" => SettleSubmit(resp) \in Outcomes \cup {"skipped"}
         /\ ShouldAbort(resp) \in BOOLEAN
<1>1. SettleSubmit(resp) \in {"indeterminate", "success", "failed", "retry"}
  BY DEF SettleSubmit
<1>2. ShouldAbort(resp) \in BOOLEAN
  BY Zenon DEF ShouldAbort, AbortsBatch
<1> QED BY <1>1, <1>2 DEF Outcomes

(* Promoting the suspect keeps the rows. *)
LEMMA ExaminedType ==
  ASSUME NEW file \in Checkpoints
  PROVE  Examined(file) \in Checkpoints /\ Examined(file).results = file.results
<1>1. CASE UntrackedSuspect(file) = NoTrainee \/ file.inFlight # NoTrainee
  BY <1>1 DEF Examined, PromoteSuspect
<1>2. CASE ~ (UntrackedSuspect(file) = NoTrainee \/ file.inFlight # NoTrainee)
  <2>1. file.pending \in Seq(Trainees) /\ file.pending # << >>
    BY <1>2 DEF UntrackedSuspect, Checkpoints
  <2>2. Head(file.pending) \in Trainees /\ Tail(file.pending) \in Seq(Trainees)
    BY <2>1, HeadApart
  <2> QED BY <1>2, <2>2 DEF Examined, PromoteSuspect, Checkpoints
<1> QED BY <1>1, <1>2

(* The guard of a start leaves a checkpoint, of this build if it was one. *)
LEMMA GuardType ==
  ASSUME NEW file \in Checkpoints, NEW saved \in BOOLEAN
  PROVE  /\ AfterGuard(file, saved) \in Checkpoints /\ ClosedOut(file) \in Checkpoints
         /\ file.tracks => AfterGuard(file, saved).tracks
         /\ ClosedOut(file).tracks
<1>1. Examined(file) \in Checkpoints
  BY ExaminedType
<1>2. Recorded(file) \in Checkpoints /\ Recorded(file).tracks
  BY <1>1 DEF Recorded, MarkInterrupted, Checkpoints, Statuses
<1>3. ClosedOut(file) \in Checkpoints /\ ClosedOut(file).tracks
  BY <1>2 DEF ClosedOut, Checkpoints, Statuses
<1> QED BY <1>2, <1>3 DEF AfterGuard

(* A resume starts from the rows of the file, the one in flight and the stranded. *)
LEMMA CarriedType ==
  ASSUME NEW file \in Checkpoints
  PROVE  /\ Carried(file) \in Seq(Row)
         /\ Range(Carried(file)) = Range(file.results) \cup Range(InFlightRows(Examined(file)))
                                      \cup Range(Stranded(file))
<1> DEFINE cp == Examined(file)
<1>1. cp \in Checkpoints /\ cp.results = file.results
  BY ExaminedType
<1> HIDE DEF cp
<1>2. cp.results \in Seq(Row) /\ InFlightRows(cp) \in Seq(Row)
  <2>1. CASE cp.inFlight = NoTrainee
    BY <1>1, <2>1, EmptySeq DEF InFlightRows, Checkpoints
  <2>2. CASE cp.inFlight # NoTrainee
    <3>1. cp.inFlight \in Trainees /\ cp.results \in Seq(Row)
      BY <1>1, <2>2 DEF Checkpoints
    <3>2. [who |-> cp.inFlight, outcome |-> "indeterminate"] \in Row
      BY <3>1 DEF Row, Outcomes
    <3> QED BY <2>2, <3>1, <3>2 DEF InFlightRows
  <2> QED BY <2>1, <2>2
<1>3. UnvouchedQueue(cp) \in Seq(Row)
  <2>1. cp.pending \in Seq(Trainees) /\ Len(cp.pending) \in Nat
    BY <1>1, LenProperties DEF Checkpoints
  <2>2. \A i \in 1 .. Len(cp.pending) :
          [who |-> cp.pending[i], outcome |-> "indeterminate"] \in Row
    BY <2>1 DEF Row, Outcomes
  <2>3. UnvouchedQueue(cp) \in [1 .. Len(cp.pending) -> Row]
    BY <2>2 DEF UnvouchedQueue
  <2> QED BY <2>1, <2>3, SeqDef
<1>4. Stranded(file) \in Seq(Row)
  BY <1>3, EmptySeq DEF Stranded, cp
<1>5. /\ cp.results \o InFlightRows(cp) \in Seq(Row)
      /\ Range(cp.results \o InFlightRows(cp)) = Range(cp.results) \cup Range(InFlightRows(cp))
  BY <1>2, ConcatApart
<1>6. Carried(file) = (cp.results \o InFlightRows(cp)) \o Stranded(file)
  BY DEF Carried, cp
<1>7. /\ Carried(file) \in Seq(Row)
      /\ Range(Carried(file)) = Range(cp.results \o InFlightRows(cp)) \cup Range(Stranded(file))
  <2> DEFINE s == cp.results \o InFlightRows(cp)
             u == Stranded(file)
  <2>1. s \in Seq(Row) /\ u \in Seq(Row)  BY <1>4, <1>5
  <2> HIDE DEF s, u
  <2>2. s \o u \in Seq(Row) /\ Range(s \o u) = Range(s) \cup Range(u)  BY <2>1, ConcatApart
  <2> QED BY <1>6, <2>2 DEF s, u
<1> QED BY <1>1, <1>5, <1>7 DEF cp

(* Every action keeps the types, over any file whose roster has one. *)
LEMMA TypesKept ==
  ASSUME TypeOK, TaskInFlight, Roster(slot) \in Seq(Trainees), [Next]_vars
  PROVE  TypeOK' /\ StaysTracked
<1> USE DEF StaysTracked, TypeOK
<1>g. ASSUME NEW saved \in BOOLEAN
      PROVE  /\ AfterGuard(slot, saved) \in Checkpoints
             /\ slot.tracks => AfterGuard(slot, saved).tracks
             /\ ClosedOut(slot) \in Checkpoints /\ ClosedOut(slot).tracks
  BY GuardType
<1>s. ASSUME BeginStart PROVE starts' \in 0 .. MaxStarts
  BY <1>s, MaxStartsAssumption DEF BeginStart
<1>b. << >> \in Seq(Row)
  BY EmptySeq
<1>w. ASSUME NEW status \in Statuses
      PROVE  /\ Snapshot(status, results, skipped, queue, NoTrainee) \in Checkpoints
             /\ Snapshot(status, results, skipped, queue, NoTrainee).tracks
  BY SnapshotType
<1>1. CASE StartRefused
  BY <1>1, <1>g, <1>s DEF StartRefused, BeginStart, work, task, control, portal
<1>2. CASE StartFresh
  <2>1. queue' \in Seq(Trainees)  BY <1>2, DedupedProperties DEF StartFresh
  <2>2. total' \in Nat  BY <1>2, <2>1, LenProperties DEF StartFresh
  <2>3. posted' \in [Trainees -> Nat]  BY <1>2, PostedReset DEF StartFresh
  <2> QED BY <1>2, <1>g, <1>s, <1>b, <2>1, <2>2, <2>3
          DEF StartFresh, BeginStart, task, control
<1>3. CASE StartResume
  <2>1. Roster(slot) \in Seq(Trainees) /\ Carried(slot) \in Seq(Row)
    BY CarriedType
  <2>2. Len(Roster(slot)) + Len(Carried(slot)) \in Nat
    BY <2>1, LenProperties
  <2> QED BY <1>3, <1>g, <1>s, <2>1, <2>2 DEF StartResume, BeginStart, task, control, portal
<1>4. CASE ResumeNothing
  BY <1>4, <1>g, <1>s DEF ResumeNothing, BeginStart, work, task, control, portal
<1>5. CASE EstablishSession
  BY <1>5, ForgetType DEF EstablishSession, Fail, work, task, control, portal
<1>6. CASE QueueDone \/ BoundaryPass \/ TakeStopped \/ BackoffOver \/ Continue \/ Complete
  BY <1>6 DEF QueueDone, BoundaryPass, TakeStopped, BackoffOver, Continue, Complete,
              work, task, control, portal
<1>7. CASE BoundaryStop \/ PausedStop \/ AbortStopped \/ LateStop
  BY <1>7, StopType DEF BoundaryStop, PausedStop, AbortStopped, LateStop
<1>8. CASE BoundaryPause
  BY <1>8, <1>w, ForgetType DEF BoundaryPause, Fail, Statuses, work, task, control, portal
<1>9. CASE PausedResume
  BY <1>9, <1>w, ForgetType DEF PausedResume, Fail, Statuses, work, task, control, portal
<1>10. CASE Take
  <2>1. queue # << >>  BY <1>10 DEF Take, TaskInFlight
  <2>2. Head(queue) \in Trainees /\ Tail(queue) \in Seq(Trainees)
    BY <2>1, HeadApart
  <2>3. /\ Snapshot("running", results, skipped, Tail(queue), Head(queue)) \in Checkpoints
        /\ Snapshot("running", results, skipped, Tail(queue), Head(queue)).tracks
    BY <2>2, SnapshotType DEF Statuses
  <2>4. skipped \o queue \in Seq(Trainees) /\ << >> \in Seq(Trainees)
    BY ConcatProperties, EmptySeq
  <2> QED BY <1>10, <2>2, <2>3, <2>4 DEF Take, Drain, control, portal
<1>11. CASE AdmitStopped
  <2>1. InTask /\ current \in Trainees  BY <1>11 DEF AdmitStopped, InTask, TaskInFlight
  <2>2. inHand' \in SUBSET Trainees  BY <1>11 DEF AdmitStopped
  <2> QED BY <1>11, <2>1, <2>2, SettleType DEF AdmitStopped, Outcomes
<1>12. CASE Admit \/ Send
  <2>1. current \in Trainees  BY <1>12 DEF Admit, Send, InTask, TaskInFlight
  <2>2. CASE Admit  BY <2>1, <2>2 DEF Admit, work, control, portal
  <2>3. CASE Send  BY <2>1, <2>3 DEF Send, work, task, control
  <2> QED BY <1>12, <2>2, <2>3
<1>13. ASSUME NEW resp \in Replies, ReplySettles(resp) PROVE TypeOK' /\ StaysTracked
  <2>1. InTask /\ current \in Trainees  BY <1>13 DEF ReplySettles, InTask, TaskInFlight
  <2>2. inHand' \in SUBSET Trainees  BY <1>13 DEF ReplySettles
  <2> QED BY <1>13, <2>1, <2>2, SettleType, VerdictType DEF ReplySettles, Outcomes
<1>14. ASSUME NEW resp \in Replies, ReplyRetries(resp) PROVE TypeOK' /\ StaysTracked
  BY <1>14 DEF ReplyRetries, work, task, control
<1>15. CASE TransportError
  <2>1. InTask /\ current \in Trainees  BY <1>15 DEF TransportError, InTask, TaskInFlight
  <2>2. inHand' \in SUBSET Trainees  BY <1>15 DEF TransportError
  <2> QED BY <1>15, <2>1, <2>2, SettleType DEF TransportError, Outcomes
<1>16. CASE AbortBatch
  BY <1>16, ConcatProperties, EmptySeq DEF AbortBatch, Drain, task, control, portal
<1>17. CASE Close
  <2>1. slot' \in Checkpoints /\ (slot.tracks => slot'.tracks)
    BY <1>17, <1>w DEF Close, Terminal, Save, Statuses
  <2>2. exit' \in {"none", "clean", "failed", "attention"}
    BY <1>17 DEF Close, Terminal, BatchExit
  <2> QED BY <1>17, <2>1, <2>2, ForgetType DEF Close, Terminal, portal
<1>18. CASE Pause \/ Resume \/ Stop
  <2>1. pauseRequested' \in BOOLEAN /\ stopRequested' \in BOOLEAN
    BY <1>18, Zenon DEF Pause, Resume, Stop
  <2> QED BY <1>18, <2>1 DEF Pause, Resume, Stop, work, task, portal
<1>19. CASE \E t \in Trainees : WorkerPosts(t)
  BY <1>19 DEF WorkerPosts, work, task, control
<1>20. CASE Crash
  BY <1>20, ForgetType DEF Crash, portal
<1>21. CASE UNCHANGED vars
  BY <1>21 DEF vars, work, task, control, portal
<1> QED
  BY <1>1, <1>2, <1>3, <1>4, <1>5, <1>6, <1>7, <1>8, <1>9, <1>10, <1>11, <1>12, <1>13,
     <1>14, <1>15, <1>16, <1>17, <1>18, <1>19, <1>20, <1>21
  DEF Next, EngineStep, Rest

(* Over a file of this build the roster is who waits in it. *)
LEMMA TypeStep == ASSUME TypeInv, TaskInFlight, [Next]_vars PROVE TypeInv'
<1>1. slot \in Checkpoints /\ slot.tracks  BY DEF TypeInv, TypeOK
<1>2. slot.skipped \in Seq(Trainees) /\ slot.pending \in Seq(Trainees)
  BY <1>1 DEF Checkpoints
<1>3. slot.skipped \o slot.pending \in Seq(Trainees)
  BY <1>2, ConcatApart
<1>4. Roster(slot) \in Seq(Trainees)
  BY <1>1, <1>3, ResumeSplits
<1> QED BY <1>4, TypesKept DEF TypeInv, StaysTracked

-----------------------------------------------------------------------------
(* The inductive invariant, but for the types. *)

Accounts ==
  FileSeparates /\ FileNames /\ RunSeparates /\ RunNames /\ TaskInFlight /\ SentOnce

(* Nothing repeats in the empty sequence. *)
LEMMA EmptyApart ==
  /\ NoRepeats(<< >>) /\ Range(<< >>) = {}
  /\ Who(<< >>) = {} /\ Doubtful(<< >>) = {}
BY DEF NoRepeats, Range, Who, Doubtful

(* Appending a newcomer introduces no repeat. *)
LEMMA AppendApart ==
  ASSUME NEW S, NEW s \in Seq(S), NEW x \in S
  PROVE  /\ Range(Append(s, x)) = Range(s) \cup {x}
         /\ NoRepeats(s) /\ x \notin Range(s) => NoRepeats(Append(s, x))
<1>1. /\ Len(s) \in Nat /\ DOMAIN s = 1 .. Len(s)
      /\ DOMAIN Append(s, x) = 1 .. Len(s) + 1
      /\ \A i \in 1 .. Len(s) : Append(s, x)[i] = s[i]
      /\ Append(s, x)[Len(s) + 1] = x
  BY AppendProperties, LenProperties
<1>2. DOMAIN Append(s, x) = DOMAIN s \cup {Len(s) + 1}
  BY <1>1
<1> QED BY <1>1, <1>2 DEF Range, NoRepeats

(* The ranges of typed sequences and the trainees of typed rows. *)
LEMMA TypedRanges ==
  ASSUME TypeOK
  PROVE  /\ Range(skipped) \subseteq Trainees /\ Range(queue) \subseteq Trainees
         /\ Range(slot.skipped) \subseteq Trainees /\ Range(slot.pending) \subseteq Trainees
         /\ Who(results) \subseteq Trainees /\ Who(slot.results) \subseteq Trainees
         /\ Exposed \subseteq Trainees /\ NoTrainee \notin Trainees
<1> USE DEF TypeOK
<1>1. /\ slot.skipped \in Seq(Trainees) /\ slot.pending \in Seq(Trainees)
      /\ slot.results \in Seq(Row)
  BY DEF Checkpoints
<1>2. ASSUME NEW rows \in Seq(Row) PROVE Who(rows) \subseteq Trainees
  <2>1. \A i \in DOMAIN rows : rows[i] \in Row  OBVIOUS
  <2> QED BY <2>1 DEF Who, Row
<1> QED BY <1>1, <1>2, RangeOfSeq, NoTraineeAssumption DEF Exposed

LEMMA RunRanges ==
  ASSUME TypeInv
  PROVE  /\ Range(skipped) \subseteq Trainees /\ Range(queue) \subseteq Trainees
         /\ Range(slot.skipped) \subseteq Trainees /\ Range(slot.pending) \subseteq Trainees
         /\ Who(results) \subseteq Trainees /\ Who(slot.results) \subseteq Trainees
         /\ Exposed \subseteq Trainees /\ NoTrainee \notin Trainees
BY TypedRanges DEF TypeInv

(* A file written outside a task from the run's memory accounts as it does. *)
LEMMA WrittenAccounts ==
  ASSUME TypeInv, Accounts, pc # "idle", ~ InTask, NEW status,
         slot' = Snapshot(status, results, skipped, queue, NoTrainee), UNCHANGED portal
  PROVE  FileSeparates' /\ FileNames'
<1>1. /\ Apart(skipped, queue) /\ current = NoTrainee
      /\ Who(results) \cap (Range(skipped) \cup Range(queue)) = {}
      /\ Exposed \subseteq Who(results) \cup {NoTrainee}
      /\ inHand \subseteq Doubtful(results) \cup {NoTrainee}
  BY DEF Accounts, RunSeparates, RunNames, TaskInFlight
<1>2. Exposed \subseteq Trainees /\ NoTrainee \notin Trainees /\ inHand \subseteq Exposed
  BY RunRanges DEF Exposed
<1>3. /\ slot'.tracks /\ slot'.results = results /\ slot'.skipped = skipped
      /\ slot'.pending = queue /\ slot'.inFlight = NoTrainee
  BY DEF Snapshot
<1>4. NamedBy(slot') = Who(results)
  BY <1>3 DEF NamedBy
<1>5. FileSeparates'
  BY <1>1, <1>3, <1>4 DEF FileSeparates
<1>6. Exposed' = Exposed /\ inHand' = inHand
  BY DEF Exposed, portal
<1>7. Exposed' \subseteq NamedBy(slot') /\ inHand' \subseteq Doubtful(slot'.results) \cup {slot'.inFlight}
  BY <1>1, <1>2, <1>3, <1>4, <1>6
<1> QED BY <1>5, <1>7 DEF FileNames

(* A run that is gone leaves the file to account for everyone. *)
LEMMA ForgetAccounts ==
  ASSUME Accounts, Forget, UNCHANGED portal, FileSeparates', FileNames'
  PROVE  Accounts'
<1>1. RunSeparates' /\ RunNames'
  BY DEF Forget, RunSeparates, RunNames
<1>2. TaskInFlight'
  BY DEF Forget, TaskInFlight, InTask
<1>3. SentOnce'
  BY DEF Forget, portal, SentOnce, Accounts
<1> QED BY <1>1, <1>2, <1>3 DEF Accounts

(* So does a run that touched nothing but its place in the loop. *)
LEMMA MoveAccounts ==
  ASSUME Accounts, pc # "idle", pc' # "idle", UNCHANGED <<slot, work, current, portal>>,
         InTask' <=> InTask,
         pc' = "take" => queue # << >>,
         pc' \notin {"session", "paused"},
         pc' = "admit" => pc = "backoff", pc' = "admitted" => pc = "admit",
         pc' = "backoff" => FALSE
  PROVE  Accounts'
<1> USE DEF Accounts, work, portal
<1>1. FileSeparates' /\ FileNames'
  BY DEF FileSeparates, FileNames, Exposed
<1>2. RunSeparates' /\ RunNames'
  BY DEF RunSeparates, RunNames, Exposed
<1>3. TaskInFlight'
  BY DEF TaskInFlight
<1>4. SentOnce'
  BY DEF SentOnce, Exposed
<1> QED BY <1>1, <1>2, <1>3, <1>4

(* Draining moves the queue behind the skipped rows. *)
LEMMA DrainAccounts ==
  ASSUME TypeInv, Accounts, pc # "idle", ~ InTask, Drain,
         pc' \in {"finish", "closing"}, UNCHANGED <<results, current, portal>>,
         FileSeparates', FileNames'
  PROVE  Accounts'
<1>1. /\ NoRepeats(skipped') /\ Range(skipped') = Range(skipped) \cup Range(queue)
      /\ queue' = << >>
  BY ConcatApart DEF TypeInv, TypeOK, Accounts, RunSeparates, Drain
<1>2. RunSeparates'
  BY <1>1, EmptyApart DEF RunSeparates, Accounts, Apart
<1>3. RunNames'
  BY DEF RunNames, Accounts, Exposed, portal
<1>4. TaskInFlight'
  BY DEF TaskInFlight, Accounts, InTask
<1>5. SentOnce'
  BY DEF SentOnce, Accounts, portal
<1> QED BY <1>2, <1>3, <1>4, <1>5 DEF Accounts

(* A stop, its write landed or failed. *)
LEMMA StopAccounts ==
  ASSUME TypeInv, Accounts, pc # "idle", ~ InTask, NEW next \in {"finish", "closing"},
         StopAndDrain(next), UNCHANGED <<portal, starts>>
  PROVE  Accounts'
<1>1. CASE Fail /\ UNCHANGED slot
  <2>1. FileSeparates' /\ FileNames'
    BY <1>1 DEF Accounts, FileSeparates, FileNames, Exposed, portal
  <2> QED BY <1>1, <2>1, ForgetAccounts DEF Fail
<1>2. CASE /\ slot' = Snapshot("aborted", results, skipped, queue, NoTrainee)
           /\ Drain /\ pc' = next
           /\ UNCHANGED <<results, total, task, control, exit>>
  <2>1. FileSeparates' /\ FileNames'
    BY <1>2, WrittenAccounts
  <2> QED BY <1>2, <2>1, DrainAccounts DEF task
<1> QED BY <1>1, <1>2 DEF StopAndDrain

(* Settling turns the trainee in flight into a row, an unconfirmed one if its *)
(* request may live on, a drained one only if it was never sent.              *)
LEMMA SettleAccounts ==
  ASSUME TypeInv, TypeInv', Accounts, InTask, pc # "idle",
         NEW kind \in Outcomes \cup {"skipped"}, NEW aborting,
         Settle(kind, aborting), inHand' \subseteq inHand,
         kind = "indeterminate" \/ current \notin inHand',
         kind = "skipped" => current \notin Exposed
  PROVE  Accounts'
<1> DEFINE r == [who |-> current, outcome |-> kind]
<1>1. /\ current \in Trainees /\ current \notin Range(skipped) \cup Range(queue)
      /\ NoRepeats(skipped) /\ NoRepeats(queue) /\ Range(skipped) \cap Range(queue) = {}
      /\ Who(results) \cap (Range(skipped) \cup Range(queue)) = {}
      /\ Exposed \subseteq Who(results) \cup {current}
      /\ inHand \subseteq Doubtful(results) \cup {current}
      /\ current' = NoTrainee /\ pc' = "settled" /\ queue' = queue
  BY DEF Accounts, RunSeparates, RunNames, TaskInFlight, Apart, Settle
<1>2. /\ Who(results') = Who(results) \cup (IF kind = "skipped" THEN {} ELSE {current})
      /\ Doubtful(results') =
           Doubtful(results) \cup (IF kind = "indeterminate" THEN {current} ELSE {})
  <2>1. CASE kind = "skipped"  BY <2>1 DEF Settle
  <2>2. CASE kind # "skipped"
    <3>1. r \in Row /\ r.who = current /\ r.outcome = kind  BY <1>1, <2>2 DEF Row
    <3>2. results' = Append(results, r)  BY <2>2 DEF Settle
    <3>3. results \in Seq(Row)  BY DEF TypeInv, TypeOK
    <3> HIDE DEF r
    <3> QED BY <2>2, <3>1, <3>2, <3>3, PushRow
  <2> QED BY <2>1, <2>2
<1>3. /\ NoRepeats(skipped')
      /\ Range(skipped') = Range(skipped) \cup (IF kind = "skipped" THEN {current} ELSE {})
  <2>1. CASE kind # "skipped"  BY <1>1, <2>1 DEF Settle
  <2>2. CASE kind = "skipped"
    BY <1>1, <2>2, AppendApart DEF Settle, TypeInv, TypeOK
  <2> QED BY <2>1, <2>2
<1>4. Exposed' \subseteq Exposed /\ inHand' \subseteq Exposed
  BY DEF Exposed, Settle
<1>5. /\ NoTrainee \notin Trainees /\ Exposed \subseteq Trainees
      /\ Range(skipped) \subseteq Trainees /\ Range(queue) \subseteq Trainees
  BY RunRanges
<1>6. /\ Apart(skipped', queue')
      /\ Who(results') \cap (Range(skipped') \cup Range(queue')) = {}
      /\ NoTrainee \notin Range(skipped') \cup Range(queue')
  <2>1. CASE kind = "skipped"
    <3>1. Who(results') = Who(results) /\ Range(skipped') = Range(skipped) \cup {current}
      BY <1>2, <1>3, <2>1
    <3>2. current \notin Who(results)
      BY DEF Accounts, RunSeparates
    <3> QED BY <1>1, <1>3, <1>5, <3>1, <3>2 DEF Apart
  <2>2. CASE kind # "skipped"
    <3>1. Who(results') = Who(results) \cup {current} /\ Range(skipped') = Range(skipped)
      BY <1>2, <1>3, <2>2
    <3> QED BY <1>1, <1>3, <1>5, <3>1 DEF Apart
  <2> QED BY <2>1, <2>2
<1>7. Exposed' \subseteq Who(results') /\ inHand' \subseteq Doubtful(results')
  BY <1>1, <1>2, <1>4
<1>8. RunSeparates' /\ RunNames' /\ TaskInFlight'
  <2>1. Who(results') \subseteq Trainees  BY <1>1, <1>2, RunRanges
  <2> QED BY <1>1, <1>5, <1>6, <1>7, <2>1 DEF RunSeparates, RunNames, TaskInFlight, InTask
<1>9. SentOnce'
  BY <1>1, <1>4 DEF SentOnce, Accounts, Settle
<1>10. CASE slot' = slot
  <2>1. FileSeparates'  BY <1>10 DEF FileSeparates, Accounts
  <2>2. FileNames'  BY <1>4, <1>10 DEF FileNames, Accounts
  <2> QED BY <1>8, <1>9, <2>1, <2>2 DEF Accounts
<1>11. CASE slot' = Snapshot("running", results', skipped', queue, NoTrainee)
  <2>1. /\ slot'.tracks /\ slot'.results = results' /\ slot'.skipped = skipped'
        /\ slot'.pending = queue' /\ slot'.inFlight = NoTrainee
    BY <1>1, <1>11 DEF Snapshot
  <2>2. NamedBy(slot') = Who(results')  BY <2>1 DEF NamedBy
  <2>3. FileSeparates'  BY <1>6, <2>1, <2>2 DEF FileSeparates
  <2>4. FileNames'  BY <1>7, <2>1, <2>2 DEF FileNames
  <2> QED BY <1>8, <1>9, <2>3, <2>4 DEF Accounts
<1> QED BY <1>10, <1>11 DEF Settle, Save

(* The dequeue names the trainee first, or drains the queue with it back in.  *)
LEMMA TakeAccounts ==
  ASSUME TypeInv, Accounts, Take
  PROVE  Accounts'
<1>1. /\ pc = "take" /\ queue # << >> /\ current = NoTrainee
      /\ NoRepeats(skipped) /\ NoRepeats(queue) /\ Range(skipped) \cap Range(queue) = {}
      /\ Who(results) \cap (Range(skipped) \cup Range(queue)) = {}
      /\ Exposed \subseteq Who(results) \cup {NoTrainee}
      /\ inHand \subseteq Doubtful(results) \cup {NoTrainee}
  BY DEF Take, Accounts, RunSeparates, RunNames, TaskInFlight, InTask, Apart
<1>2. /\ NoTrainee \notin Trainees /\ Exposed \subseteq Trainees /\ inHand \subseteq Exposed
      /\ Range(skipped) \subseteq Trainees /\ Range(queue) \subseteq Trainees
  BY RunRanges DEF Exposed
<1>3. /\ Head(queue) \in Trainees
      /\ Range(queue) = {Head(queue)} \cup Range(Tail(queue))
      /\ NoRepeats(Tail(queue)) /\ Head(queue) \notin Range(Tail(queue))
  BY <1>1, HeadApart DEF TypeInv, TypeOK
<1>4. Exposed' = Exposed /\ UNCHANGED <<results, portal>>
  BY DEF Take, Exposed, portal
<1>5. CASE /\ slot' = Snapshot("running", results, skipped, Tail(queue), Head(queue))
           /\ current' = Head(queue) /\ queue' = Tail(queue)
           /\ pc' = "admit" /\ UNCHANGED <<skipped, aborted>>
  <2>1. /\ slot'.tracks /\ slot'.results = results /\ slot'.skipped = skipped
        /\ slot'.pending = Tail(queue) /\ slot'.inFlight = Head(queue)
    BY <1>5 DEF Snapshot
  <2>2. NamedBy(slot') = Who(results) \cup {Head(queue)}
    BY <1>2, <1>3, <2>1 DEF NamedBy
  <2>3. /\ Apart(skipped, Tail(queue))
        /\ (Who(results) \cup {Head(queue)}) \cap (Range(skipped) \cup Range(Tail(queue))) = {}
    BY <1>1, <1>3 DEF Apart
  <2>4. FileSeparates' /\ RunSeparates'
    <3>1. Head(queue) \notin Who(results)  BY <1>1, <1>3
    <3> QED BY <1>4, <1>5, <2>1, <2>2, <2>3, <3>1 DEF FileSeparates, RunSeparates
  <2>5. /\ Exposed' \subseteq Who(results) /\ inHand' \subseteq Doubtful(results)
    BY <1>1, <1>2, <1>4 DEF portal
  <2>6. FileNames' /\ RunNames'
    BY <1>4, <1>5, <2>1, <2>2, <2>5 DEF FileNames, RunNames
  <2>7. TaskInFlight'
    BY <1>3, <1>5, <2>1 DEF TaskInFlight, InTask
  <2>8. Head(queue) \notin Exposed
    BY <1>1, <1>2, <1>3
  <2>9. SentOnce'
    BY <1>4, <1>5, <2>8 DEF SentOnce, Accounts, portal
  <2> QED BY <2>4, <2>6, <2>7, <2>9 DEF Accounts
<1>6. CASE Drain /\ pc' = "finish" /\ UNCHANGED <<slot, current>>
  <2>1. FileSeparates' /\ FileNames'
    BY <1>4, <1>6 DEF FileSeparates, FileNames, Accounts, portal
  <2> QED BY <1>1, <1>4, <1>6, <2>1, DrainAccounts DEF InTask
<1> QED BY <1>5, <1>6 DEF Take

(* A request that is sent is for a trainee the file names and nobody exposed   *)
(* yet.                                                                       *)
LEMMA SendAccounts ==
  ASSUME TypeInv, Accounts, Send
  PROVE  Accounts'
<1>1. /\ current \in Trainees /\ slot.inFlight = current /\ current \notin Exposed
      /\ pc = "admitted" /\ pc' = "sent" /\ inHand' = inHand \cup {current}
  BY DEF Send, Accounts, TaskInFlight, SentOnce, InTask
<1>2. UNCHANGED <<slot, results, skipped, queue, current, posted>>
  BY DEF Send, work, task
<1>3. Exposed' = Exposed \cup {current}
  BY <1>1, <1>2 DEF Exposed
<1>4. current \in NamedBy(slot)
  BY <1>1, NoTraineeAssumption DEF NamedBy
<1>5. FileSeparates' /\ FileNames'
  BY <1>1, <1>2, <1>3, <1>4 DEF FileSeparates, FileNames, Accounts
<1>6. RunSeparates' /\ RunNames' /\ TaskInFlight'
  BY <1>1, <1>2, <1>3 DEF RunSeparates, RunNames, TaskInFlight, InTask, Accounts
<1>7. posted[current] = 0
  BY <1>1 DEF Exposed, TypeInv, TypeOK
<1>8. SentOnce'
  BY <1>1, <1>2, <1>7 DEF SentOnce, Accounts
<1> QED BY <1>5, <1>6, <1>8 DEF Accounts

(* A POST turns a request in hand into one that was made. *)
LEMMA PostAccounts ==
  ASSUME TypeInv, Accounts, NEW t \in Trainees, WorkerPosts(t)
  PROVE  Accounts'
<1>1. /\ t \in inHand /\ inHand' = inHand \ {t}
      /\ posted' = [posted EXCEPT ![t] = @ + 1] /\ posted[t] = 0
      /\ UNCHANGED <<slot, pc, results, skipped, queue, current>>
  BY DEF WorkerPosts, work, task, Accounts, SentOnce
<1>2. posted \in [Trainees -> Nat]  BY DEF TypeInv, TypeOK
<1>3. /\ posted'[t] = 1 /\ \A u \in Trainees \ {t} : posted'[u] = posted[u]
  BY <1>1, <1>2
<1>4. Exposed' = Exposed
  BY <1>1, <1>2, <1>3 DEF Exposed
<1>5. FileSeparates' /\ FileNames' /\ RunSeparates' /\ RunNames' /\ TaskInFlight'
  BY <1>1, <1>4
  DEF Accounts, FileSeparates, FileNames, RunSeparates, RunNames, TaskInFlight, InTask
<1>6. SentOnce'
  <2>1. \A u \in Trainees : posted'[u] <= 1
    BY <1>3 DEF Accounts, SentOnce
  <2>2. inHand \subseteq Trainees
    BY DEF TypeInv, TypeOK
  <2>3. \A u \in inHand' : posted'[u] = 0
    BY <1>1, <1>3, <2>2 DEF Accounts, SentOnce
  <2> QED BY <1>1, <1>4, <2>1, <2>3 DEF Accounts, SentOnce
<1> QED BY <1>5, <1>6 DEF Accounts

(* What the guard leaves behind still separates and names as it did. *)
LEMMA GuardAccounts ==
  ASSUME TypeInv, Accounts, SameGroups(slot', slot), Exposed' \subseteq Exposed, inHand' = inHand
  PROVE  FileSeparates' /\ FileNames'
<1>1. /\ slot'.tracks /\ slot'.results = slot.results /\ slot'.skipped = slot.skipped
      /\ slot'.pending = slot.pending /\ slot'.inFlight = slot.inFlight
  BY DEF SameGroups
<1>2. NamedBy(slot') = NamedBy(slot)
  BY <1>1 DEF NamedBy
<1>3. FileSeparates'
  BY <1>1, <1>2 DEF FileSeparates, Accounts
<1>4. FileNames'
  BY <1>1, <1>2 DEF FileNames, Accounts
<1> QED BY <1>3, <1>4

(* A start that runs nothing. *)
LEMMA IdleStartAccounts ==
  ASSUME TypeInv, Accounts, StartRefused \/ ResumeNothing
  PROVE  Accounts'
<1>1. slot \in Checkpoints /\ slot.tracks
  BY DEF TypeInv, TypeOK
<1>2. SameGroups(slot', slot)
  <2>1. CASE StartRefused  BY <1>1, <2>1, GuardKeepsGroups DEF StartRefused
  <2>2. CASE ResumeNothing  BY <1>1, <2>2, GuardKeepsGroups DEF ResumeNothing
  <2> QED BY <2>1, <2>2
<1>3. pc = "idle" /\ pc' = "idle" /\ UNCHANGED <<current, skipped, inHand, posted>>
  BY DEF StartRefused, ResumeNothing, BeginStart, work, task, portal
<1>4. FileSeparates' /\ FileNames'
  BY <1>2, <1>3, GuardAccounts DEF Exposed
<1>5. RunSeparates' /\ RunNames' /\ TaskInFlight' /\ SentOnce'
  BY <1>3 DEF Accounts, RunSeparates, RunNames, TaskInFlight, InTask, SentOnce
<1> QED BY <1>4, <1>5 DEF Accounts

(* A fresh start finds nobody exposed, or closes the old account. *)
LEMMA FreshAccounts ==
  ASSUME TypeInv, Accounts, StartFresh
  PROVE  Accounts'
<1>1. slot \in Checkpoints /\ slot.tracks
  BY DEF TypeInv, TypeOK
<1>2. SameGroups(slot', slot)
  BY <1>1, GuardKeepsGroups DEF StartFresh
<1>3. /\ pc = "idle" /\ pc' = "session" /\ UNCHANGED <<current, skipped, inHand>>
      /\ results' = << >> /\ skipped = << >> /\ current = NoTrainee
  BY DEF StartFresh, BeginStart, task, Accounts, TaskInFlight, InTask
<1>4. queue' \in Seq(Trainees) /\ NoRepeats(queue')
  BY DedupedProperties DEF StartFresh
<1>5. slot.inFlight = NoTrainee /\ Doubtful(slot.results) = {}
  BY <1>1, UnrefusedNames DEF StartFresh
<1>6. inHand = {} /\ inHand \subseteq Trainees /\ NoTrainee \notin Trainees
  BY <1>5, NoTraineeAssumption DEF Accounts, FileNames, TypeInv, TypeOK
<1>7. Exposed' = {} /\ \A t \in Trainees : posted'[t] = 0
  <2>1. CASE slot.status = "finished"
    BY <1>3, <1>6, <2>1 DEF StartFresh, Exposed
  <2>2. CASE slot.status # "finished"
    <3>1. NamedBy(slot) = {}  BY <1>1, <2>2, UnrefusedNames DEF StartFresh
    <3>2. Exposed = {} /\ posted' = posted  BY <2>2, <3>1 DEF Accounts, FileNames, StartFresh
    <3>3. \A t \in Trainees : posted[t] = 0
      BY <3>2 DEF Exposed, TypeInv, TypeOK
    <3> QED BY <1>3, <1>6, <3>2, <3>3 DEF Exposed
  <2> QED BY <2>1, <2>2
<1>8. FileSeparates' /\ FileNames'
  BY <1>2, <1>3, <1>7, GuardAccounts
<1>9. NoTrainee \notin Range(queue')
  BY <1>4, <1>6, RangeOfSeq
<1>10. RunSeparates' /\ RunNames' /\ TaskInFlight'
  BY <1>3, <1>4, <1>6, <1>7, <1>9, EmptyApart
  DEF RunSeparates, RunNames, TaskInFlight, InTask, Apart
<1>11. SentOnce'
  BY <1>3, <1>6, <1>7 DEF SentOnce
<1> QED BY <1>8, <1>10, <1>11 DEF Accounts

(* A resume queues who waits and carries who is named. *)
LEMMA ResumeAccounts ==
  ASSUME TypeInv, Accounts, StartResume
  PROVE  Accounts'
<1>1. slot \in Checkpoints /\ slot.tracks
  BY DEF TypeInv, TypeOK
<1>2. slot.skipped \in Seq(Trainees) /\ slot.pending \in Seq(Trainees)
  BY <1>1 DEF Checkpoints
<1>3. SameGroups(slot', slot)
  BY <1>1, GuardKeepsGroups DEF StartResume
<1>4. /\ pc = "idle" /\ pc' = "session" /\ UNCHANGED <<current, skipped, inHand, posted>>
      /\ skipped = << >> /\ current = NoTrainee
  BY DEF StartResume, BeginStart, task, portal, Accounts, TaskInFlight, InTask
<1>5. /\ queue' = slot.skipped \o slot.pending
      /\ Who(results') = NamedBy(slot)
      /\ Doubtful(results') = Doubtful(slot.results) \cup ({slot.inFlight} \ {NoTrainee})
  BY <1>1, ResumeSplits DEF StartResume
<1>6. /\ NoRepeats(queue')
      /\ Range(queue') = Range(slot.skipped) \cup Range(slot.pending)
  BY <1>2, <1>5, ConcatApart DEF Accounts, FileSeparates
<1>7. /\ NoTrainee \notin Trainees /\ inHand \subseteq Trainees
      /\ Range(queue') \subseteq Trainees /\ NoTrainee \notin NamedBy(slot)
  BY <1>6, RunRanges DEF NamedBy, TypeInv, TypeOK
<1>8. FileSeparates' /\ FileNames'
  BY <1>3, <1>4, GuardAccounts DEF Exposed
<1>9. RunSeparates'
  BY <1>4, <1>5, <1>6, <1>7, EmptyApart DEF RunSeparates, Apart, Accounts, FileSeparates
<1>10. RunNames'
  <2>1. Exposed' = Exposed  BY <1>4 DEF Exposed
  <2> QED BY <1>4, <1>5, <1>7, <2>1 DEF RunNames, Accounts, FileNames
<1>11. TaskInFlight'
  BY <1>4 DEF TaskInFlight, InTask
<1>12. SentOnce'
  BY <1>4 DEF SentOnce, Accounts
<1> QED BY <1>8, <1>9, <1>10, <1>11, <1>12 DEF Accounts

(* Every action keeps the accounts. *)
LEMMA AccountsStep ==
  ASSUME TypeInv, TypeInv', Accounts, [Next]_vars
  PROVE  Accounts'
<1>f. ASSUME Forget, UNCHANGED <<slot, portal>> PROVE Accounts'
  <2>1. FileSeparates' /\ FileNames'
    BY <1>f DEF Accounts, FileSeparates, FileNames, Exposed, portal
  <2> QED BY <1>f, <2>1, ForgetAccounts
<1>w. ASSUME pc # "idle", ~ InTask, UNCHANGED <<work, current, portal>>, pc' \in {"paused", "take"},
             NEW status, slot' = Snapshot(status, results, skipped, queue, NoTrainee),
             queue # << >>
      PROVE  Accounts'
  <2>1. FileSeparates' /\ FileNames'
    BY <1>w, WrittenAccounts
  <2>2. RunSeparates' /\ RunNames' /\ TaskInFlight' /\ SentOnce'
    BY <1>w
    DEF Accounts, RunSeparates, RunNames, TaskInFlight, SentOnce, InTask, Exposed, work, portal
  <2> QED BY <2>1, <2>2 DEF Accounts
<1>1. CASE StartRefused \/ ResumeNothing
  BY <1>1, IdleStartAccounts
<1>2. CASE StartFresh
  BY <1>2, FreshAccounts
<1>3. CASE StartResume
  BY <1>3, ResumeAccounts
<1>4. CASE EstablishSession
  <2>1. CASE Fail  BY <1>4, <2>1, <1>f DEF EstablishSession, Fail
  <2>2. CASE pc' = "loop" /\ UNCHANGED <<work, task, aborted, control, exit>>
    BY <1>4, <2>2, MoveAccounts DEF EstablishSession, InTask, task
  <2> QED BY <1>4, <2>1, <2>2 DEF EstablishSession
<1>5. CASE \/ QueueDone \/ BoundaryPass \/ TakeStopped \/ BackoffOver \/ Continue \/ Complete
           \/ Admit
  <2>1. /\ UNCHANGED <<slot, work, current, portal>>
        /\ \/ pc = "loop" /\ pc' = "finish"
           \/ pc = "loop" /\ pc' = "take" /\ queue # << >>
           \/ pc = "take" /\ pc' = "loop"
           \/ pc = "backoff" /\ pc' = "admit"
           \/ pc = "settled" /\ pc' = "loop"
           \/ pc = "finish" /\ pc' = "closing"
           \/ pc = "admit" /\ pc' = "admitted"
    BY <1>5
    DEF QueueDone, BoundaryPass, TakeStopped, BackoffOver, Continue, Complete, Admit, task
  <2> QED BY <2>1, MoveAccounts DEF InTask
<1>6. CASE BoundaryStop \/ PausedStop \/ AbortStopped \/ LateStop
  <2>1. pc # "idle" /\ ~ InTask
    BY <1>6 DEF BoundaryStop, PausedStop, AbortStopped, LateStop, InTask
  <2> QED BY <1>6, <2>1, StopAccounts DEF BoundaryStop, PausedStop, AbortStopped, LateStop
<1>7. CASE BoundaryPause
  <2>1. CASE Fail /\ UNCHANGED slot  BY <1>7, <2>1, <1>f DEF BoundaryPause, Fail
  <2>2. CASE ~ (Fail /\ UNCHANGED slot)
    <3>1. /\ slot' = Snapshot("paused", results, skipped, queue, NoTrainee)
          /\ pc = "loop" /\ pc' = "paused" /\ queue # << >>
          /\ UNCHANGED <<work, current, portal>>
      BY <1>7, <2>2 DEF BoundaryPause, task
    <3> QED BY <3>1, <1>w DEF InTask
  <2> QED BY <2>1, <2>2
<1>8. CASE PausedResume
  <2>1. CASE Fail /\ UNCHANGED slot  BY <1>8, <2>1, <1>f DEF PausedResume, Fail
  <2>2. CASE ~ (Fail /\ UNCHANGED slot)
    <3>1. /\ slot' = Snapshot("running", results, skipped, queue, NoTrainee)
          /\ pc = "paused" /\ pc' = "take"
          /\ UNCHANGED <<work, current, portal>>
      BY <1>8, <2>2 DEF PausedResume, task
    <3>2. queue # << >>
      BY <3>1 DEF Accounts, TaskInFlight
    <3> QED BY <3>1, <3>2, <1>w DEF InTask
  <2> QED BY <2>1, <2>2
<1>9. CASE Take
  BY <1>9, TakeAccounts
<1>10. CASE AdmitStopped
  <2>1. InTask /\ pc # "idle" /\ current \notin Exposed /\ current \notin inHand'
    BY <1>10 DEF AdmitStopped, InTask, Accounts, SentOnce, Exposed
  <2> QED BY <1>10, <2>1, SettleAccounts DEF AdmitStopped, Outcomes
<1>11. CASE Send
  BY <1>11, SendAccounts
<1>12. ASSUME NEW resp \in Replies, ReplySettles(resp) PROVE Accounts'
  <2>1. InTask /\ pc # "idle" /\ inHand' \subseteq inHand
    BY <1>12 DEF ReplySettles, InTask
  <2>2. current \notin inHand' \/ resp.status = "ready"
    BY <1>12 DEF ReplySettles
  <2>3. resp.status = "ready" => SettleSubmit(resp) = "indeterminate"
    BY DEF SettleSubmit
  <2>4. SettleSubmit(resp) # "skipped"
    BY DEF SettleSubmit
  <2> QED BY <1>12, <2>1, <2>2, <2>3, <2>4, SettleAccounts, VerdictType
          DEF ReplySettles, Outcomes
<1>13. ASSUME NEW resp \in Replies, ReplyRetries(resp) PROVE Accounts'
  <2>1. /\ pc = "sent" /\ pc' = "backoff" /\ inHand' = inHand \ {current}
        /\ current \in inHand /\ posted[current] = 0
        /\ UNCHANGED <<slot, results, skipped, queue, current, posted>>
    BY <1>13 DEF ReplyRetries, Truthful, SettleSubmit, work, task, Accounts, SentOnce
  <2>2. Exposed' = Exposed \ {current}
    BY <2>1 DEF Exposed
  <2>3. FileSeparates' /\ FileNames' /\ RunSeparates' /\ RunNames' /\ TaskInFlight'
    BY <2>1, <2>2
    DEF Accounts, FileSeparates, FileNames, RunSeparates, RunNames, TaskInFlight, InTask
  <2>4. SentOnce'
    BY <2>1, <2>2 DEF Accounts, SentOnce
  <2> QED BY <2>3, <2>4 DEF Accounts
<1>14. CASE TransportError
  <2>1. InTask /\ pc # "idle"  BY <1>14 DEF TransportError, InTask
  <2> QED BY <1>14, <2>1, SettleAccounts DEF TransportError, Outcomes
<1>15. CASE AbortBatch
  <2>1. FileSeparates' /\ FileNames'
    BY <1>15 DEF AbortBatch, Accounts, FileSeparates, FileNames, Exposed, portal
  <2> QED BY <1>15, <2>1, DrainAccounts DEF AbortBatch, InTask, task
<1>16. CASE Close
  <2>1. PICK landed \in BOOLEAN :
          Save(Snapshot(IF aborted THEN "aborted" ELSE "finished",
                        results, skipped, queue, NoTrainee), landed)
    BY <1>16 DEF Close, Terminal
  <2>2. FileSeparates' /\ FileNames'
    <3>1. CASE landed
      BY <1>16, <2>1, <3>1, WrittenAccounts DEF Close, Terminal, Save, InTask
    <3>2. CASE ~ landed
      BY <1>16, <2>1, <3>2
      DEF Close, Terminal, Save, Accounts, FileSeparates, FileNames, Exposed, portal
    <3> QED BY <3>1, <3>2
  <2> QED BY <1>16, <2>2, ForgetAccounts DEF Close, Terminal
<1>17. CASE Pause \/ Resume \/ Stop \/ UNCHANGED vars
  BY <1>17
  DEF Pause, Resume, Stop, vars, work, task, portal, Accounts, FileSeparates, FileNames,
      RunSeparates, RunNames, TaskInFlight, SentOnce, InTask, Exposed
<1>18. CASE \E t \in Trainees : WorkerPosts(t)
  BY <1>18, PostAccounts
<1>19. CASE Crash
  BY <1>19, <1>f DEF Crash
<1> QED
  BY <1>1, <1>2, <1>3, <1>4, <1>5, <1>6, <1>7, <1>8, <1>9, <1>10, <1>11, <1>12, <1>13,
     <1>14, <1>15, <1>16, <1>17, <1>18, <1>19
  DEF Next, EngineStep, Rest

LEMMA AccountsInit == Init => Accounts
<1> SUFFICES ASSUME Init PROVE Accounts  OBVIOUS
<1>1. /\ slot = NoFile /\ pc = "idle" /\ skipped = << >> /\ current = NoTrainee
      /\ inHand = {} /\ posted = [t \in Trainees |-> 0]
  BY DEF Init
<1>2. Exposed = {}  BY <1>1 DEF Exposed
<1>3. FileSeparates /\ FileNames
  BY <1>1, <1>2, EmptyApart DEF FileSeparates, FileNames, NoFile, NamedBy, Apart
<1>4. RunSeparates /\ RunNames /\ TaskInFlight /\ SentOnce
  BY <1>1, <1>2 DEF RunSeparates, RunNames, TaskInFlight, InTask, SentOnce
<1> QED BY <1>3, <1>4 DEF Accounts

-----------------------------------------------------------------------------
(* Theorems. *)

(* IInv holds in every state: the engine's file and memory never lose sight  *)
(* of a trainee whose form may be on its way to the portal.                  *)
THEOREM Inductive == Spec => []IInv
<1>1. IInv <=> TypeInv /\ Accounts
  BY DEF IInv, TypeInv, Accounts, FileSeparates
<1>2. Init => IInv
  BY <1>1, TypeInit, AccountsInit
<1>3. IInv /\ [Next]_vars => IInv'
  <2> SUFFICES ASSUME IInv, [Next]_vars PROVE IInv'  OBVIOUS
  <2>1. TypeInv /\ Accounts  BY <1>1
  <2>2. TypeInv'  BY <2>1, TypeStep DEF Accounts
  <2>3. Accounts'  BY <2>1, <2>2, AccountsStep
  <2> QED BY <2>2, <2>3 DEF IInv, TypeInv, Accounts, FileSeparates
<1> QED BY <1>2, <1>3, PTL DEF Spec

(* Every variable keeps its type: what save_checkpoint writes is always a     *)
(* checkpoint, whichever path wrote it.                                       *)
THEOREM Types == Spec => []TypeOK
BY Inductive, PTL DEF IInv

(* No trainee's form is POSTed twice before its batch closes out, whatever    *)
(* the roster, the retry limit and the number of starts, stops and crashes.   *)
THEOREM NoDuplicates == Spec => []AtMostOnce
<1>1. IInv => AtMostOnce  BY DEF IInv, SentOnce, AtMostOnce
<1> QED BY <1>1, Inductive, PTL

(* Whoever was or can be POSTed is named by the file on disk.                 *)
THEOREM NeverUnnamed == Spec => []NamedBeforeSent
<1>1. IInv => NamedBeforeSent  BY DEF IInv, FileNames, NamedBeforeSent
<1> QED BY <1>1, Inductive, PTL

-----------------------------------------------------------------------------
(* A stop, from its acceptance to the end of the run. *)

(* A stop belongs to a run, and what reaches the last write of a stopped run   *)
(* has been marked aborted.                                                   *)
StopHeld ==
  /\ pc = "idle" => ~ stopRequested
  /\ pc = "closing" /\ stopRequested => aborted

LEMMA StopHeldStep == ASSUME StopHeld, [Next]_vars PROVE StopHeld'
<1> USE DEF StopHeld
<1>1. CASE StartRefused \/ StartFresh \/ StartResume \/ ResumeNothing
  BY <1>1 DEF StartRefused, StartFresh, StartResume, ResumeNothing, BeginStart, control
<1>2. CASE EstablishSession \/ BoundaryPause \/ PausedResume \/ Close \/ Crash
  BY <1>2 DEF EstablishSession, BoundaryPause, PausedResume, Close, Terminal, Crash, Fail, Forget
<1>3. CASE BoundaryStop \/ PausedStop \/ AbortStopped \/ LateStop
  BY <1>3
  DEF BoundaryStop, PausedStop, AbortStopped, LateStop, StopAndDrain, Drain, Fail, Forget
<1>4. CASE AdmitStopped \/ TransportError \/ \E resp \in Replies : ReplySettles(resp)
  BY <1>4 DEF AdmitStopped, TransportError, ReplySettles, Settle
<1>5. CASE \/ QueueDone \/ BoundaryPass \/ TakeStopped \/ Take \/ BackoffOver \/ Continue
           \/ Admit \/ Send \/ AbortBatch \/ \E resp \in Replies : ReplyRetries(resp)
  BY <1>5
  DEF QueueDone, BoundaryPass, TakeStopped, Take, BackoffOver, Continue, Admit, Send, AbortBatch,
      ReplyRetries
<1>6. CASE Complete
  BY <1>6 DEF Complete, control
<1>7. CASE Pause \/ Resume \/ Stop
  BY <1>7 DEF Pause, Resume, Stop, Controllable
<1>8. CASE (\E t \in Trainees : WorkerPosts(t)) \/ UNCHANGED vars
  BY <1>8 DEF WorkerPosts, vars, control
<1> QED
  BY <1>1, <1>2, <1>3, <1>4, <1>5, <1>6, <1>7, <1>8 DEF Next, EngineStep, Rest

(* What a step of a stopped run may do with the trainee in hand, with the      *)
(* worker and with the file.                                                  *)
TaskKept == current' \in {current, NoTrainee} /\ attempts' <= attempts
WorkerKept == Exposed' \subseteq Exposed \cup {current}
WordKept ==
  /\ slot' # slot => slot'.status \in {"running", "aborted"}
  /\ pc' = "idle" =>
       exit' \in {"none", "attention"} /\ (slot' # slot => slot'.status = "aborted")

LEMMA StopKept ==
  ASSUME TypeOK, StopHeld, [Next]_vars, stopRequested
  PROVE  TaskKept /\ WorkerKept /\ WordKept
<1>i. pc # "idle" /\ attempts \in Nat /\ 0 <= attempts
  BY DEF StopHeld, TypeOK
<1>f. ASSUME Forget PROVE TaskKept /\ pc' = "idle"
  BY <1>i, <1>f DEF Forget, TaskKept
<1>m. ASSUME UNCHANGED task PROVE TaskKept
  BY <1>i, <1>m DEF task, TaskKept
<1>q. ASSUME inHand' \subseteq inHand \cup {current}, posted' = posted PROVE WorkerKept
  BY <1>q DEF WorkerKept, Exposed
<1>s. ASSUME NEW kind, NEW aborting, Settle(kind, aborting), inHand' \subseteq inHand
      PROVE  TaskKept /\ WorkerKept /\ WordKept
  <2>1. TaskKept
    BY <1>i, <1>s DEF Settle, TaskKept
  <2>2. WorkerKept
    BY <1>q, <1>s DEF Settle
  <2>3. WordKept
    BY <1>s DEF Settle, Save, Snapshot, WordKept
  <2> QED BY <2>1, <2>2, <2>3
<1>1. ~ (StartRefused \/ StartFresh \/ StartResume \/ ResumeNothing \/ Rest)
  BY <1>i DEF StartRefused, StartFresh, StartResume, ResumeNothing, BeginStart, Rest
<1>2. ~ (\/ BoundaryPass \/ BoundaryPause \/ PausedResume \/ Take \/ Admit
         \/ AbortBatch \/ Pause \/ Resume \/ Stop)
  BY DEF BoundaryPass, BoundaryPause, PausedResume, Take, Admit, AbortBatch, Pause, Resume, Stop,
         Controllable
<1>3. CASE EstablishSession
  <2>1. TaskKept
    BY <1>3, <1>f, <1>m DEF EstablishSession, Fail
  <2>2. WorkerKept
    BY <1>3, <1>q DEF EstablishSession, portal
  <2>3. WordKept
    BY <1>3 DEF EstablishSession, Fail, WordKept
  <2> QED BY <2>1, <2>2, <2>3
<1>4. CASE BoundaryStop \/ PausedStop \/ AbortStopped \/ LateStop
  <2>1. PICK next \in {"finish", "closing"} : StopAndDrain(next)
    BY <1>4 DEF BoundaryStop, PausedStop, AbortStopped, LateStop
  <2>2. TaskKept
    BY <1>f, <1>m, <2>1 DEF StopAndDrain, Fail
  <2>3. WorkerKept
    BY <1>4, <1>q DEF BoundaryStop, PausedStop, AbortStopped, LateStop, portal
  <2>4. WordKept
    BY <2>1 DEF StopAndDrain, Fail, Snapshot, WordKept
  <2> QED BY <2>2, <2>3, <2>4
<1>5. CASE AdmitStopped
  BY <1>5, <1>s DEF AdmitStopped
<1>6. CASE \E resp \in Replies : ReplySettles(resp)
  BY <1>6, <1>s DEF ReplySettles
<1>7. CASE TransportError
  BY <1>7, <1>s DEF TransportError
<1>8. CASE \/ QueueDone \/ TakeStopped \/ BackoffOver \/ Continue \/ Complete \/ Send
           \/ \E resp \in Replies : ReplyRetries(resp)
  <2>1. UNCHANGED <<slot, task>> /\ pc' # "idle"
    BY <1>8 DEF QueueDone, TakeStopped, BackoffOver, Continue, Complete, Send, ReplyRetries
  <2>2. inHand' \subseteq inHand \cup {current} /\ posted' = posted
    BY <1>8
    DEF QueueDone, TakeStopped, BackoffOver, Continue, Complete, Send, ReplyRetries, portal
  <2> QED BY <1>m, <1>q, <2>1, <2>2 DEF WordKept
<1>9. CASE Close
  <2>1. PICK landed \in BOOLEAN : Terminal(landed)
    BY <1>9 DEF Close
  <2>2. aborted /\ BatchExit = "attention"
    BY <2>1 DEF Terminal, StopHeld, BatchExit
  <2>3. WordKept
    BY <2>1, <2>2 DEF Terminal, Save, Snapshot, WordKept
  <2>4. WorkerKept
    BY <1>q, <2>1 DEF Terminal, portal
  <2> QED BY <1>f, <2>1, <2>3, <2>4 DEF Terminal
<1>10. CASE Crash
  BY <1>10, <1>f, <1>q DEF Crash, WordKept, portal
<1>11. CASE UNCHANGED vars
  BY <1>11, <1>i, <1>m, <1>q DEF vars, WordKept, portal
<1>12. CASE \E t \in Trainees : WorkerPosts(t)
  <2>1. PICK t \in Trainees : WorkerPosts(t)
    BY <1>12
  <2>2. Exposed' \subseteq Exposed
    BY <2>1 DEF WorkerPosts, Exposed, TypeOK
  <2> QED BY <1>i, <1>m, <2>1, <2>2 DEF WorkerPosts, WorkerKept, WordKept
<1> QED
  BY <1>1, <1>2, <1>3, <1>4, <1>5, <1>6, <1>7, <1>8, <1>9, <1>10, <1>11, <1>12
  DEF Next, EngineStep

(* An accepted stop is not lost on the way to the end of its run: nobody is    *)
(* begun, no attempt is admitted, the one request that may still leave was     *)
(* admitted before it, and the run's last word is that it was aborted.        *)
THEOREM StopIsObeyed == Spec => StopIsKept
<1>1. Init => StopHeld
  BY DEF Init, StopHeld
<1>2. StopHeld /\ [Next]_vars => StopHeld'
  BY StopHeldStep
<1> DEFINE Kept ==
             /\ current' \in {current, NoTrainee} /\ attempts' <= attempts
             /\ Exposed' \subseteq Exposed \cup {current}
             /\ slot' # slot => slot'.status \in {"running", "aborted"}
             /\ pc' = "idle" =>
                  exit' \in {"none", "attention"} /\ (slot' # slot => slot'.status = "aborted")
<1>3. IInv /\ StopHeld /\ [Next]_vars => (stopRequested => Kept)
  BY StopKept DEF IInv, TaskKept, WorkerKept, WordKept
<1> HIDE DEF Kept
<1>4. Spec => [][stopRequested => Kept]_vars
  BY <1>1, <1>2, <1>3, Inductive, PTL DEF Spec
<1> QED BY <1>4 DEF StopIsKept, Kept

-----------------------------------------------------------------------------
(* Unconfirmed rows. *)

(* The run carries every unconfirmed row of the file it would rewrite. *)
RunCarries == pc # "idle" => Doubtful(slot.results) \subseteq Doubtful(results)

(* What a step may do to the doubt: none is lost, and the run still carries it. *)
DoubtKept == Doubtful(slot.results) \subseteq Doubtful(slot'.results) /\ RunCarries'

(* Writing the rows of a run that carries the doubt keeps it. *)
LEMMA WrittenKeeps ==
  ASSUME RunCarries, pc # "idle", slot'.results = results \/ slot' = slot,
         results' = results \/ pc' = "idle"
  PROVE  DoubtKept
BY DEF RunCarries, DoubtKept

LEMMA StopKeeps ==
  ASSUME RunCarries, pc # "idle", NEW next, StopAndDrain(next)
  PROVE  DoubtKept
<1>1. slot'.results = results \/ slot' = slot
  BY DEF StopAndDrain, Snapshot, Fail
<1>2. results' = results \/ pc' = "idle"
  BY DEF StopAndDrain, Fail, Forget
<1> QED BY <1>1, <1>2, WrittenKeeps

LEMMA SettleKeeps ==
  ASSUME TypeInv, TaskInFlight, RunCarries, InTask,
         NEW kind \in Outcomes \cup {"skipped"}, NEW aborting, Settle(kind, aborting)
  PROVE  DoubtKept
<1> DEFINE r == [who |-> current, outcome |-> kind]
<1>1. Doubtful(results) \subseteq Doubtful(results')
  <2>1. CASE kind = "skipped"  BY <2>1 DEF Settle
  <2>2. CASE kind # "skipped"
    <3>1. r \in Row  BY <2>2 DEF Row, TaskInFlight
    <3>2. results' = Append(results, r)  BY <2>2 DEF Settle
    <3>3. results \in Seq(Row)  BY DEF TypeInv, TypeOK
    <3> HIDE DEF r
    <3> QED BY <3>1, <3>2, <3>3, PushRow
  <2> QED BY <2>1, <2>2
<1>2. slot'.results = results' \/ slot' = slot
  BY DEF Settle, Save, Snapshot
<1>3. Doubtful(slot.results) \subseteq Doubtful(results)
  BY DEF RunCarries, InTask
<1> QED BY <1>1, <1>2, <1>3 DEF DoubtKept, RunCarries

LEMMA StartKeeps ==
  ASSUME TypeInv, RunCarries,
         StartRefused \/ StartFresh \/ StartResume \/ ResumeNothing
  PROVE  DoubtKept
<1>1. slot \in Checkpoints /\ slot.tracks  BY DEF TypeInv, TypeOK
<1>g. ASSUME NEW saved \in BOOLEAN
      PROVE  AfterGuard(slot, saved).results = slot.results /\ ClosedOut(slot).results = slot.results
  BY <1>1, GuardKeepsGroups DEF SameGroups
<1>2. slot'.results = slot.results
  <2>1. \/ \E saved \in BOOLEAN : slot' = AfterGuard(slot, saved)
        \/ slot' = ClosedOut(slot)
    BY DEF StartRefused, StartFresh, StartResume, ResumeNothing
  <2>2. ClosedOut(slot).results = slot.results
    BY <1>g, TRUE \in BOOLEAN
  <2> QED BY <1>g, <2>1, <2>2
<1>3. CASE StartRefused \/ ResumeNothing
  BY <1>2, <1>3 DEF StartRefused, ResumeNothing, BeginStart, DoubtKept, RunCarries
<1>4. CASE StartFresh
  <2>1. Doubtful(slot.results) = {}
    BY <1>1, <1>4, UnrefusedNames DEF StartFresh
  <2> QED BY <1>2, <2>1 DEF DoubtKept, RunCarries
<1>5. CASE StartResume
  <2>1. results' = Carried(slot)  BY <1>5 DEF StartResume
  <2>2. Doubtful(slot.results) \subseteq Doubtful(Carried(slot))
    BY <1>1, ResumeSplits
  <2> QED BY <1>2, <2>1, <2>2 DEF DoubtKept, RunCarries
<1> QED BY <1>3, <1>4, <1>5

LEMMA DoubtStep == ASSUME TypeInv, TaskInFlight, RunCarries, [Next]_vars PROVE DoubtKept
<1>1. CASE StartRefused \/ StartFresh \/ StartResume \/ ResumeNothing
  BY <1>1, StartKeeps
<1>2. CASE EstablishSession \/ BoundaryPause \/ PausedResume \/ Take
  <2>1. pc # "idle"
    BY <1>2 DEF EstablishSession, BoundaryPause, PausedResume, Take
  <2>2. slot'.results = results \/ slot' = slot
    BY <1>2 DEF EstablishSession, BoundaryPause, PausedResume, Take, Snapshot
  <2>3. results' = results \/ pc' = "idle"
    BY <1>2 DEF EstablishSession, BoundaryPause, PausedResume, Take, Fail, Forget, work
  <2> QED BY <2>1, <2>2, <2>3, WrittenKeeps
<1>3. CASE BoundaryStop \/ PausedStop \/ AbortStopped \/ LateStop
  BY <1>3, StopKeeps DEF BoundaryStop, PausedStop, AbortStopped, LateStop
<1>4. CASE AdmitStopped
  BY <1>4, SettleKeeps DEF AdmitStopped, InTask, Outcomes
<1>5. CASE \E resp \in Replies : ReplySettles(resp)
  BY <1>5, SettleKeeps, VerdictType DEF ReplySettles, InTask, Outcomes
<1>6. CASE TransportError
  BY <1>6, SettleKeeps DEF TransportError, InTask, Outcomes
<1>7. CASE Close
  BY <1>7, WrittenKeeps DEF Close, Terminal, Save, Snapshot, Forget
<1>8. CASE \/ QueueDone \/ BoundaryPass \/ TakeStopped \/ BackoffOver \/ Continue \/ Complete
           \/ Admit \/ Send \/ AbortBatch \/ \E resp \in Replies : ReplyRetries(resp)
  <2>1. pc # "idle" /\ slot' = slot /\ results' = results
    BY <1>8 DEF QueueDone, BoundaryPass, TakeStopped, BackoffOver, Continue, Complete,
                Admit, Send, AbortBatch, ReplyRetries, work
  <2> QED BY <2>1, WrittenKeeps
<1>9. CASE Pause \/ Resume \/ Stop \/ (\E t \in Trainees : WorkerPosts(t)) \/ UNCHANGED vars
  BY <1>9 DEF Pause, Resume, Stop, WorkerPosts, vars, work, DoubtKept, RunCarries
<1>10. CASE Crash
  BY <1>10 DEF Crash, Forget, DoubtKept, RunCarries
<1> QED
  BY <1>1, <1>2, <1>3, <1>4, <1>5, <1>6, <1>7, <1>8, <1>9, <1>10 DEF Next, EngineStep, Rest

(* Whoever the file leaves in doubt stays in doubt through every rewrite by    *)
(* every later run: only an operator takes a name off that list.              *)
THEOREM DoubtSurvives == Spec => UnconfirmedSurvives
<1>1. Init => RunCarries
  BY DEF Init, RunCarries
<1>2. IInv /\ RunCarries /\ [Next]_vars => DoubtKept
  BY DoubtStep DEF IInv, TypeInv, FileSeparates
<1>3. DoubtKept => RunCarries' /\ Doubtful(slot.results) \subseteq Doubtful(slot'.results)
  BY DEF DoubtKept
<1> QED BY <1>1, <1>2, <1>3, Inductive, PTL DEF Spec, UnconfirmedSurvives

-----------------------------------------------------------------------------
(* A pause, and the file it left. *)

(* The file a pause wrote is the run's own record, whole. *)
PauseWritten ==
  pc = "paused" =>
    slot.status = "paused" /\ slot.inFlight = NoTrainee /\ slot.results = results

LEMMA PauseStep == ASSUME PauseWritten, [Next]_vars PROVE PauseWritten'
<1>1. CASE StartRefused \/ StartFresh \/ StartResume \/ ResumeNothing
  BY <1>1
  DEF StartRefused, StartFresh, StartResume, ResumeNothing, BeginStart, PauseWritten
<1>2. CASE BoundaryPause
  BY <1>2 DEF BoundaryPause, PauseWritten, Snapshot, Fail, Forget, work
<1>3. CASE BoundaryStop \/ PausedStop \/ AbortStopped \/ LateStop
  BY <1>3
  DEF BoundaryStop, PausedStop, AbortStopped, LateStop, StopAndDrain, Fail, Forget, PauseWritten
<1>4. CASE AdmitStopped \/ TransportError \/ \E resp \in Replies : ReplySettles(resp)
  BY <1>4 DEF AdmitStopped, TransportError, ReplySettles, Settle, PauseWritten
<1>5. CASE EstablishSession \/ PausedResume \/ Take \/ Close \/ Crash
  BY <1>5
  DEF EstablishSession, PausedResume, Take, Close, Terminal, Crash, Fail, Forget, PauseWritten
<1>6. CASE \/ QueueDone \/ BoundaryPass \/ TakeStopped \/ BackoffOver \/ Continue \/ Complete
           \/ Admit \/ Send \/ AbortBatch \/ \E resp \in Replies : ReplyRetries(resp)
  BY <1>6
  DEF QueueDone, BoundaryPass, TakeStopped, BackoffOver, Continue, Complete, Admit, Send,
      AbortBatch, ReplyRetries, PauseWritten
<1>7. CASE Pause \/ Resume \/ Stop \/ (\E t \in Trainees : WorkerPosts(t)) \/ UNCHANGED vars
  BY <1>7 DEF Pause, Resume, Stop, WorkerPosts, vars, work, PauseWritten
<1> QED
  BY <1>1, <1>2, <1>3, <1>4, <1>5, <1>6, <1>7 DEF Next, EngineStep, Rest

(* A paused batch has its record on disk and nothing unrecorded with the      *)
(* worker: the pause was taken at a boundary, and its write came first.       *)
THEOREM PauseIsSafe == Spec => []PausedIsQuiet
<1>1. Init => PauseWritten
  BY DEF Init, PauseWritten
<1>2. IInv /\ PauseWritten => PausedIsQuiet
  <2> SUFFICES ASSUME IInv, PauseWritten, pc = "paused" PROVE PausedIsQuiet
    BY DEF PausedIsQuiet
  <2>1. current = NoTrainee
    BY DEF IInv, TaskInFlight, InTask
  <2>2. Exposed \subseteq Who(results) \cup {NoTrainee}
    BY <2>1 DEF IInv, RunNames
  <2>3. Exposed \subseteq Trainees
    BY DEF Exposed, IInv, TypeOK
  <2> QED BY <2>2, <2>3, NoTraineeAssumption DEF PauseWritten, PausedIsQuiet
<1>3. PauseWritten /\ [Next]_vars => PauseWritten'
  BY PauseStep
<1> QED BY <1>1, <1>2, <1>3, Inductive, PTL DEF Spec

-----------------------------------------------------------------------------
(* Closing out. *)

(* Nobody is left aside by a run that was not aborted or asked to stop, and    *)
(* what reaches the last write of a run that was not is closed out.           *)
NobodyLeft ==
  /\ pc # "idle" /\ skipped # << >> => aborted \/ stopRequested
  /\ pc \in {"finish", "closing"} => queue = << >>
  /\ pc = "closing" => aborted \/ skipped = << >>

(* A stop that wins the lock drains what waits and marks the run aborted. *)
LEMMA StopLeavesNobody ==
  ASSUME FinishedIsClosedOut, NEW next \in {"finish", "closing"}, StopAndDrain(next)
  PROVE  NobodyLeft' /\ FinishedIsClosedOut'
<1>1. CASE Fail /\ UNCHANGED slot
  BY <1>1 DEF Fail, Forget, NobodyLeft, FinishedIsClosedOut, NeverAttempted
<1>2. CASE /\ slot' = Snapshot("aborted", results, skipped, queue, NoTrainee)
           /\ Drain /\ pc' = next
  BY <1>2 DEF Drain, Snapshot, NobodyLeft, FinishedIsClosedOut
<1> QED BY <1>1, <1>2 DEF StopAndDrain

LEMMA SettleLeavesNobody ==
  ASSUME NobodyLeft, FinishedIsClosedOut, pc \in {"admit", "admitted", "sent"},
         NEW kind \in Outcomes \cup {"skipped"}, NEW aborting, Settle(kind, aborting),
         kind = "skipped" => stopRequested
  PROVE  NobodyLeft' /\ FinishedIsClosedOut'
<1>1. NobodyLeft'
  BY DEF Settle, NobodyLeft, control
<1>2. slot'.status = "running" \/ slot' = slot
  BY DEF Settle, Save, Snapshot
<1>3. FinishedIsClosedOut'
  BY <1>2 DEF FinishedIsClosedOut, NeverAttempted
<1> QED BY <1>1, <1>3

(* The gate says finished only of a file that owes nothing and has no roster. *)
LEMMA StartLeavesNobody ==
  ASSUME TypeInv, TaskInFlight, NobodyLeft, FinishedIsClosedOut,
         StartRefused \/ StartFresh \/ StartResume \/ ResumeNothing
  PROVE  NobodyLeft' /\ FinishedIsClosedOut'
<1>1. slot \in Checkpoints /\ slot.tracks  BY DEF TypeInv, TypeOK
<1>2. Examined(slot) = slot
  BY <1>1, GuardKeepsGroups, TRUE \in BOOLEAN
<1>g. ASSUME NEW saved \in BOOLEAN, slot' = AfterGuard(slot, saved)
      PROVE  FinishedIsClosedOut'
  <2>1. SameGroups(slot', slot)
    BY <1>1, <1>g, GuardKeepsGroups
  <2>2. slot'.status = "finished" => slot.status = "finished"
    BY <1>1, <1>2, <1>g DEF AfterGuard, Recorded, MarkInterrupted, Checkpoints
  <2> QED BY <2>1, <2>2 DEF FinishedIsClosedOut, NeverAttempted, SameGroups
<1>c. ASSUME NothingOwed(slot), Roster(slot) = << >>, slot' = ClosedOut(slot)
      PROVE  FinishedIsClosedOut'
  <2>1. SameGroups(slot', slot)
    BY <1>1, <1>c, GuardKeepsGroups, TRUE \in BOOLEAN
  <2>2. slot.inFlight = NoTrainee
    BY <1>2, <1>c DEF NothingOwed, HasUnconfirmed
  <2>3. NeverAttempted(slot) = << >>
    BY <1>1, <1>c, ResumeSplits DEF NeverAttempted
  <2> QED BY <2>1, <2>2, <2>3 DEF FinishedIsClosedOut, NeverAttempted, SameGroups
<1>3. FinishedIsClosedOut'
  <2>1. CASE StartRefused \/ StartFresh \/ StartResume
    BY <2>1, <1>g DEF StartRefused, StartFresh, StartResume
  <2>2. CASE ResumeNothing
    BY <2>2, <1>g, <1>c DEF ResumeNothing
  <2> QED BY <2>1, <2>2
<1>4. NobodyLeft'
  BY DEF StartRefused, StartFresh, StartResume, ResumeNothing, BeginStart, TaskInFlight, work,
         NobodyLeft
<1> QED BY <1>3, <1>4

LEMMA NobodyLeftStep ==
  ASSUME TypeInv, TaskInFlight, NobodyLeft, FinishedIsClosedOut, [Next]_vars
  PROVE  NobodyLeft' /\ FinishedIsClosedOut'
<1> USE DEF NobodyLeft, FinishedIsClosedOut, NeverAttempted
<1>1. CASE StartRefused \/ StartFresh \/ StartResume \/ ResumeNothing
  BY <1>1, StartLeavesNobody
<1>2. CASE EstablishSession \/ BoundaryPause \/ PausedResume
  BY <1>2
  DEF EstablishSession, BoundaryPause, PausedResume, Snapshot, Fail, Forget, work, control
<1>3. CASE BoundaryStop \/ PausedStop \/ AbortStopped
  BY <1>3, StopLeavesNobody DEF BoundaryStop, PausedStop, AbortStopped
<1>4. CASE LateStop
  BY <1>4, StopLeavesNobody DEF LateStop
<1>5. CASE Take
  BY <1>5 DEF Take, Drain, Snapshot, control
<1>6. CASE AdmitStopped
  BY <1>6, SettleLeavesNobody DEF AdmitStopped, Outcomes
<1>7. CASE \E resp \in Replies : ReplySettles(resp)
  <2>1. PICK resp \in Replies : ReplySettles(resp)
    BY <1>7
  <2>2. SettleSubmit(resp) # "skipped"
    BY DEF SettleSubmit
  <2> QED BY <2>1, <2>2, SettleLeavesNobody, VerdictType DEF ReplySettles, Outcomes
<1>8. CASE TransportError
  BY <1>8, SettleLeavesNobody DEF TransportError, Outcomes
<1>9. CASE QueueDone \/ Complete
  BY <1>9 DEF QueueDone, Complete, work, control
<1>10. CASE Close
  <2>1. queue = << >> /\ (aborted \/ skipped = << >>)
    BY <1>10 DEF Close, Terminal
  <2>2. slot' = slot \/ slot' = Snapshot(IF aborted THEN "aborted" ELSE "finished",
                                         results, skipped, queue, NoTrainee)
    BY <1>10 DEF Close, Terminal, Save
  <2>3. FinishedIsClosedOut'
    BY <2>1, <2>2, ConcatEmptySeq, EmptySeq DEF Snapshot
  <2> QED BY <1>10, <2>3 DEF Close, Terminal, Forget
<1>11. CASE \/ BoundaryPass \/ TakeStopped \/ BackoffOver \/ Continue \/ Admit \/ Send
            \/ AbortBatch \/ \E resp \in Replies : ReplyRetries(resp)
  BY <1>11
  DEF BoundaryPass, TakeStopped, BackoffOver, Continue, Admit, Send, AbortBatch, Drain,
      ReplyRetries, work, task, control
<1>12. CASE Pause \/ Resume \/ Stop \/ (\E t \in Trainees : WorkerPosts(t)) \/ UNCHANGED vars
  BY <1>12 DEF Pause, Resume, Stop, WorkerPosts, Controllable, vars, work, control
<1>13. CASE Crash
  BY <1>13 DEF Crash, Forget
<1> QED
  BY <1>1, <1>2, <1>3, <1>4, <1>5, <1>6, <1>7, <1>8, <1>9, <1>10, <1>11, <1>12, <1>13
  DEF Next, EngineStep, Rest

(* A file that says finished leaves nobody to run and nobody in flight, and   *)
(* the gate that reads it may pass over it.                                   *)
THEOREM FinishedMeansFinished == Spec => []FinishedIsClosedOut
<1>1. Init => NobodyLeft /\ FinishedIsClosedOut
  BY DEF Init, NobodyLeft, FinishedIsClosedOut, NoFile
<1>2. IInv /\ NobodyLeft /\ FinishedIsClosedOut /\ [Next]_vars
        => NobodyLeft' /\ FinishedIsClosedOut'
  BY NobodyLeftStep DEF IInv, TypeInv, FileSeparates
<1> QED BY <1>1, <1>2, Inductive, PTL DEF Spec

-----------------------------------------------------------------------------
(* Everyone has one place. *)

RowsOnce(rows) == \A i, j \in DOMAIN rows : rows[i].who = rows[j].who => i = j

(* How many trainees a run holds: rows, skips, the queue and the task. *)
Held ==
  Len(results) + Len(skipped) + Len(queue) + (IF current = NoTrainee THEN 0 ELSE 1)

FileCounts ==
  /\ Placed(slot) = slot.total
  /\ RowsOnce(slot.results)
  /\ slot.inFlight \notin Who(slot.results)

RunCounts == pc # "idle" => Held = total /\ RowsOnce(results)

(* A newcomer's row leaves one row each. *)
LEMMA RowAdded ==
  ASSUME NEW rows \in Seq(Row), NEW r \in Row, RowsOnce(rows), r.who \notin Who(rows)
  PROVE  RowsOnce(Append(rows, r)) /\ Len(Append(rows, r)) = Len(rows) + 1
<1>1. /\ Len(rows) \in Nat /\ DOMAIN rows = 1 .. Len(rows)
      /\ DOMAIN Append(rows, r) = 1 .. Len(rows) + 1
      /\ \A i \in 1 .. Len(rows) : Append(rows, r)[i] = rows[i]
      /\ Append(rows, r)[Len(rows) + 1] = r
      /\ Len(Append(rows, r)) = Len(rows) + 1
  BY AppendProperties, LenProperties
<1>2. DOMAIN Append(rows, r) = DOMAIN rows \cup {Len(rows) + 1}
  BY <1>1
<1> QED BY <1>1, <1>2 DEF RowsOnce, Who

LEMMA RunLengths ==
  ASSUME TypeInv
  PROVE  /\ Len(results) \in Nat /\ Len(skipped) \in Nat /\ Len(queue) \in Nat
         /\ total \in Nat /\ Len(<< >>) = 0
         /\ slot.total \in Nat /\ Len(slot.results) \in Nat
         /\ Len(slot.skipped) \in Nat /\ Len(slot.pending) \in Nat
BY LenProperties, EmptySeq DEF TypeInv, TypeOK, Checkpoints

(* A write between two trainees places everyone the run holds. *)
LEMMA BoundaryPlaces ==
  ASSUME TypeInv, TaskInFlight, RunCounts, pc # "idle", ~ InTask, NEW status,
         slot' = Snapshot(status, results, skipped, queue, NoTrainee)
  PROVE  FileCounts'
<1>1. current = NoTrainee /\ Held = total /\ RowsOnce(results)
  BY DEF TaskInFlight, RunCounts
<1>2. Placed(slot') = slot'.total
  BY <1>1, RunLengths DEF Snapshot, Placed, Held
<1>3. RowsOnce(slot'.results) /\ slot'.inFlight = NoTrainee /\ slot'.results = results
  BY <1>1 DEF Snapshot
<1>4. NoTrainee \notin Who(results)
  BY RunRanges, NoTraineeAssumption
<1> QED BY <1>2, <1>3, <1>4 DEF FileCounts

LEMMA ForgetCounts == ASSUME FileCounts, Forget, slot' = slot PROVE FileCounts' /\ RunCounts'
BY DEF Forget, FileCounts, RunCounts

LEMMA DrainCounts ==
  ASSUME TypeInv, RunCounts, pc # "idle", Drain, UNCHANGED <<results, total, task>>
  PROVE  RunCounts'
<1>1. /\ Len(skipped') = Len(skipped) + Len(queue) /\ Len(queue') = 0
      /\ results' = results /\ total' = total /\ current' = current
  BY RunLengths, ConcatProperties DEF Drain, TypeInv, TypeOK, task
<1>2. Held' = Held
  BY <1>1, RunLengths DEF Held
<1> QED BY <1>1, <1>2 DEF RunCounts

LEMMA StopCounts ==
  ASSUME TypeInv, TaskInFlight, FileCounts, RunCounts, pc # "idle", ~ InTask,
         NEW next \in {"finish", "closing"}, StopAndDrain(next)
  PROVE  FileCounts' /\ RunCounts'
<1>1. CASE Fail /\ UNCHANGED slot
  BY <1>1, ForgetCounts DEF Fail
<1>2. CASE /\ slot' = Snapshot("aborted", results, skipped, queue, NoTrainee)
           /\ Drain
           /\ UNCHANGED <<results, total, task, control, exit>>
  BY <1>2, BoundaryPlaces, DrainCounts
<1> QED BY <1>1, <1>2 DEF StopAndDrain

(* A settled trainee moves from the task to a row or to the skips. *)
LEMMA SettleCounts ==
  ASSUME TypeInv, Accounts, FileCounts, RunCounts, InTask,
         NEW kind \in Outcomes \cup {"skipped"}, NEW aborting, Settle(kind, aborting)
  PROVE  FileCounts' /\ RunCounts'
<1> DEFINE r == [who |-> current, outcome |-> kind]
<1>1. /\ pc # "idle" /\ current \in Trainees /\ current \notin Who(results)
      /\ Held = total /\ RowsOnce(results)
  BY DEF Accounts, TaskInFlight, RunSeparates, RunCounts, InTask
<1>2. Len(results) + Len(skipped) + Len(queue) + 1 = total
  BY <1>1, NoTraineeAssumption DEF Held
<1>3. /\ current' = NoTrainee /\ queue' = queue /\ total' = total /\ pc' = "settled"
  BY DEF Settle
<1>4. /\ Len(results') + Len(skipped') = Len(results) + Len(skipped) + 1
      /\ RowsOnce(results')
      /\ Len(results') \in Nat /\ Len(skipped') \in Nat
      /\ NoTrainee \notin Who(results')
  <2>1. NoTrainee \notin Who(results)
    BY RunRanges, NoTraineeAssumption
  <2>2. CASE kind = "skipped"
    <3>1. Len(skipped') = Len(skipped) + 1 /\ results' = results
      BY <1>1, <2>2, AppendProperties DEF Settle, TypeInv, TypeOK
    <3> QED BY <1>1, <2>1, <3>1, RunLengths
  <2>3. CASE kind # "skipped"
    <3>1. r \in Row /\ r.who = current
      BY <1>1, <2>3 DEF Row
    <3>2. results' = Append(results, r) /\ skipped' = skipped
      BY <2>3 DEF Settle
    <3>3. results \in Seq(Row)
      BY DEF TypeInv, TypeOK
    <3> HIDE DEF r
    <3>4. RowsOnce(results') /\ Len(results') = Len(results) + 1
      BY <1>1, <3>1, <3>2, <3>3, RowAdded
    <3>5. Who(results') = Who(results) \cup {current}
      BY <3>1, <3>2, <3>3, PushRow
    <3> QED BY <1>1, <2>1, <3>2, <3>4, <3>5, RunLengths, NoTraineeAssumption
  <2> QED BY <2>2, <2>3
<1>5. RunCounts'
  BY <1>2, <1>3, <1>4, RunLengths DEF RunCounts, Held
<1>6. CASE slot' = Snapshot("running", results', skipped', queue, NoTrainee)
  <2>1. /\ slot'.results = results' /\ slot'.inFlight = NoTrainee
        /\ slot'.skipped = skipped' /\ slot'.pending = queue /\ slot'.total = total
    BY <1>6 DEF Snapshot
  <2>2. Placed(slot') = slot'.total
    BY <1>2, <1>4, <2>1, RunLengths DEF Placed
  <2> QED BY <1>4, <1>5, <2>1, <2>2 DEF FileCounts
<1>7. CASE slot' = slot
  BY <1>5, <1>7 DEF FileCounts
<1> QED BY <1>5, <1>6, <1>7 DEF Settle, Save

(* The guard and the close-out leave every group, and the total, as they were. *)
LEMMA GuardCounts ==
  ASSUME TypeInv, FileCounts,
         \/ \E saved \in BOOLEAN : slot' = AfterGuard(slot, saved)
         \/ slot' = ClosedOut(slot)
  PROVE  FileCounts'
<1>1. slot \in Checkpoints /\ slot.tracks
  BY DEF TypeInv, TypeOK
<1>2. Examined(slot) = slot /\ SameGroups(ClosedOut(slot), slot)
      /\ \A saved \in BOOLEAN : SameGroups(AfterGuard(slot, saved), slot)
  BY <1>1, GuardKeepsGroups, TRUE \in BOOLEAN
<1>3. SameGroups(slot', slot)
  BY <1>2
<1>4. slot'.total = slot.total
  <2>1. Recorded(slot).total = slot.total /\ Recorded(slot) \in Checkpoints
    BY <1>1, <1>2 DEF Recorded, MarkInterrupted, Checkpoints, Statuses
  <2> QED BY <2>1 DEF AfterGuard, ClosedOut, Checkpoints
<1> QED BY <1>3, <1>4 DEF SameGroups, FileCounts, Placed

(* A resume takes over every row, once, and everybody who waits. *)
LEMMA ResumeCounts ==
  ASSUME TypeInv, Accounts, FileCounts, StartResume
  PROVE  RunCounts'
<1>1. slot \in Checkpoints /\ slot.tracks
  BY DEF TypeInv, TypeOK
<1>2. /\ queue' = Roster(slot) /\ results' = Carried(slot) /\ skipped' = skipped
      /\ current' = current /\ total' = Len(Roster(slot)) + Len(Carried(slot))
      /\ skipped = << >> /\ current = NoTrainee
  BY DEF StartResume, BeginStart, task, Accounts, TaskInFlight, InTask
<1>3. Roster(slot) \in Seq(Trainees) /\ Carried(slot) \in Seq(Row)
  <2>1. Roster(slot) = slot.skipped \o slot.pending /\ Carried(slot) \in Seq(Row)
    BY <1>1, ResumeSplits
  <2> QED BY <1>1, <2>1, ConcatProperties DEF Checkpoints
<1>4. Len(Roster(slot)) \in Nat /\ Len(Carried(slot)) \in Nat /\ Len(skipped) = 0
  BY <1>2, <1>3, LenProperties, RunLengths
<1>5. Held' = total'
  BY <1>2, <1>4 DEF Held
<1>6. Examined(slot) = slot
  BY <1>1, GuardKeepsGroups, TRUE \in BOOLEAN
<1>7. Carried(slot) = (slot.results \o InFlightRows(slot)) \o << >>
  BY <1>1, <1>6 DEF Carried, Stranded
<1>8. slot.results \in Seq(Row) /\ slot.inFlight \in Trainees \cup {NoTrainee}
  BY <1>1 DEF Checkpoints
<1>9. CASE slot.inFlight = NoTrainee
  <2>1. Carried(slot) = slot.results
    BY <1>7, <1>8, <1>9, ConcatEmptySeq DEF InFlightRows
  <2> QED BY <1>2, <1>5, <2>1 DEF RunCounts, FileCounts
<1>10. CASE slot.inFlight # NoTrainee
  <2> DEFINE r == [who |-> slot.inFlight, outcome |-> "indeterminate"]
  <2>1. r \in Row /\ r.who = slot.inFlight
    BY <1>8, <1>10 DEF Row, Outcomes
  <2>2. slot.results \o << r >> = Append(slot.results, r) /\ Append(slot.results, r) \in Seq(Row)
    BY <1>8, <2>1, AppendIsConcat, AppendProperties
  <2>3. Carried(slot) = Append(slot.results, r)
    BY <1>7, <1>10, <2>2, ConcatEmptySeq DEF InFlightRows
  <2> HIDE DEF r
  <2>4. RowsOnce(Carried(slot))
    BY <1>8, <2>1, <2>3, RowAdded DEF FileCounts
  <2> QED BY <1>2, <1>5, <2>4 DEF RunCounts
<1> QED BY <1>9, <1>10

LEMMA TakeCounts ==
  ASSUME TypeInv, Accounts, FileCounts, RunCounts, Take
  PROVE  FileCounts' /\ RunCounts'
<1>1. /\ pc = "take" /\ current = NoTrainee /\ queue # << >>
      /\ Held = total /\ RowsOnce(results)
  BY DEF Take, Accounts, TaskInFlight, InTask, RunCounts
<1>2. /\ Head(queue) \in Trainees /\ Tail(queue) \in Seq(Trainees)
      /\ Len(Tail(queue)) = Len(queue) - 1
  BY <1>1, HeadTailProperties DEF TypeInv, TypeOK
<1>3. CASE /\ slot' = Snapshot("running", results, skipped, Tail(queue), Head(queue))
           /\ current' = Head(queue) /\ queue' = Tail(queue)
           /\ UNCHANGED <<skipped, aborted>>
  <2>1. results' = results /\ total' = total /\ skipped' = skipped
    BY <1>3 DEF Take
  <2>2. Held' = total'
    BY <1>1, <1>2, <1>3, <2>1, RunLengths, NoTraineeAssumption DEF Held
  <2>3. /\ slot'.results = results /\ slot'.inFlight = Head(queue) /\ slot'.skipped = skipped
        /\ slot'.pending = Tail(queue) /\ slot'.total = total
    BY <1>3 DEF Snapshot
  <2>4. Placed(slot') = slot'.total
    BY <1>1, <1>2, <2>3, RunLengths, NoTraineeAssumption DEF Held, Placed
  <2>5. Head(queue) \notin Who(results)
    <3>1. Head(queue) \in Range(queue)
      BY <1>1, HeadApart DEF TypeInv, TypeOK, Accounts, RunSeparates, Apart
    <3> QED BY <1>1, <3>1 DEF Accounts, RunSeparates
  <2> QED BY <1>1, <2>1, <2>2, <2>3, <2>4, <2>5 DEF FileCounts, RunCounts
<1>4. CASE Drain /\ UNCHANGED <<slot, current>>
  <2>1. UNCHANGED <<results, total, task>>
    BY <1>4 DEF Take, task
  <2> QED BY <1>1, <1>4, <2>1, DrainCounts DEF FileCounts
<1> QED BY <1>3, <1>4 DEF Take

LEMMA CountsStep ==
  ASSUME TypeInv, Accounts, FileCounts, RunCounts, [Next]_vars
  PROVE  FileCounts' /\ RunCounts'
<1>t. TaskInFlight  BY DEF Accounts
<1>1. CASE StartRefused \/ ResumeNothing
  <2>1. FileCounts'
    BY <1>1, GuardCounts DEF StartRefused, ResumeNothing
  <2> QED BY <1>1, <2>1 DEF StartRefused, ResumeNothing, BeginStart, RunCounts
<1>2. CASE StartFresh
  <2>1. FileCounts'
    BY <1>2, GuardCounts DEF StartFresh
  <2>2. PICK job \in Jobs : queue' \in Deduped(job)
    BY <1>2 DEF StartFresh
  <2>3. /\ results' = << >> /\ total' = Len(queue') /\ skipped' = << >> /\ current' = NoTrainee
    BY <1>t, <1>2 DEF StartFresh, BeginStart, TaskInFlight, InTask, task
  <2>4. Len(queue') \in Nat /\ Len(<< >>) = 0
    BY <2>2, DedupedProperties, LenProperties, RunLengths
  <2> QED BY <2>1, <2>3, <2>4 DEF RunCounts, Held, RowsOnce
<1>3. CASE StartResume
  BY <1>3, GuardCounts, ResumeCounts DEF StartResume
<1>4. CASE EstablishSession
  BY <1>4, ForgetCounts
  DEF EstablishSession, Fail, FileCounts, RunCounts, Held, work, task
<1>5. CASE BoundaryPause \/ PausedResume
  <2>1. pc # "idle" /\ ~ InTask
    BY <1>5 DEF BoundaryPause, PausedResume, InTask
  <2>2. CASE Fail /\ UNCHANGED slot
    BY <2>2, ForgetCounts DEF Fail
  <2>3. CASE /\ \E status \in {"paused", "running"} :
                  slot' = Snapshot(status, results, skipped, queue, NoTrainee)
             /\ UNCHANGED <<work, task>>
    BY <1>t, <2>1, <2>3, BoundaryPlaces DEF RunCounts, Held, work, task
  <2> QED BY <1>5, <2>2, <2>3 DEF BoundaryPause, PausedResume
<1>6. CASE BoundaryStop \/ PausedStop \/ AbortStopped \/ LateStop
  BY <1>t, <1>6, StopCounts
  DEF BoundaryStop, PausedStop, AbortStopped, LateStop, InTask
<1>7. CASE Take
  BY <1>7, TakeCounts
<1>8. CASE AdmitStopped
  BY <1>8, SettleCounts DEF AdmitStopped, InTask, Outcomes
<1>9. CASE \E resp \in Replies : ReplySettles(resp)
  BY <1>9, SettleCounts, VerdictType DEF ReplySettles, InTask, Outcomes
<1>10. CASE TransportError
  BY <1>10, SettleCounts DEF TransportError, InTask, Outcomes
<1>11. CASE AbortBatch
  BY <1>11, DrainCounts DEF AbortBatch, FileCounts
<1>12. CASE Close
  <2>1. FileCounts'
    <3>1. pc # "idle" /\ ~ InTask
      BY <1>12 DEF Close, Terminal, InTask
    <3> QED BY <1>t, <1>12, <3>1, BoundaryPlaces DEF Close, Terminal, Save, FileCounts
  <2> QED BY <1>12, <2>1 DEF Close, Terminal, Forget, RunCounts
<1>13. CASE \/ QueueDone \/ BoundaryPass \/ TakeStopped \/ BackoffOver \/ Continue \/ Complete
            \/ Admit \/ Send \/ \E resp \in Replies : ReplyRetries(resp)
  BY <1>13
  DEF QueueDone, BoundaryPass, TakeStopped, BackoffOver, Continue, Complete, Admit, Send,
      ReplyRetries, work, task, FileCounts, RunCounts, Held
<1>14. CASE Pause \/ Resume \/ Stop \/ (\E t \in Trainees : WorkerPosts(t)) \/ UNCHANGED vars
  BY <1>14
  DEF Pause, Resume, Stop, WorkerPosts, vars, work, task, FileCounts, RunCounts, Held
<1>15. CASE Crash
  BY <1>15, ForgetCounts DEF Crash
<1> QED
  BY <1>1, <1>2, <1>3, <1>4, <1>5, <1>6, <1>7, <1>8, <1>9, <1>10, <1>11, <1>12, <1>13, <1>14,
     <1>15
  DEF Next, EngineStep, Rest

LEMMA InitCounts == Init => FileCounts /\ RunCounts
<1> SUFFICES ASSUME Init PROVE FileCounts /\ RunCounts  OBVIOUS
<1>1. slot = NoFile /\ pc = "idle" /\ Len(<< >>) = 0
  BY EmptySeq, LenProperties DEF Init
<1> QED BY <1>1, EmptyApart DEF FileCounts, RunCounts, NoFile, Placed, RowsOnce

(* Every trainee of the batch is in exactly one place of the file: a row, a    *)
(* skip, the queue or in flight, and the places add up to its total.          *)
THEOREM EachPlacedOnce == Spec => []EveryTraineePlacedOnce
<1>1. Init => FileCounts /\ RunCounts
  BY InitCounts
<1>2. IInv /\ FileCounts => EveryTraineePlacedOnce
  <2> SUFFICES ASSUME IInv, FileCounts PROVE EveryTraineePlacedOnce  OBVIOUS
  <2>1. slot.skipped \in Seq(Trainees) /\ slot.pending \in Seq(Trainees)
    BY DEF IInv, TypeOK, Checkpoints
  <2>2. Apart(slot.skipped, slot.pending)
    BY DEF IInv, FileSeparates
  <2>3. /\ NoRepeats(NeverAttempted(slot))
        /\ Range(NeverAttempted(slot)) = Range(slot.skipped) \cup Range(slot.pending)
    BY <2>1, <2>2, ConcatApart DEF NeverAttempted, Apart
  <2> QED BY <2>3 DEF EveryTraineePlacedOnce, FileCounts, RowsOnce, IInv, FileSeparates
<1>3. IInv /\ FileCounts /\ RunCounts /\ [Next]_vars => FileCounts' /\ RunCounts'
  BY CountsStep DEF IInv, TypeInv, Accounts, FileSeparates
<1> QED BY <1>1, <1>2, <1>3, Inductive, PTL DEF Spec

(* The three facts together: whoever reads the file, at any moment, reads what  *)
(* is so.                                                                     *)
THEOREM TrueFile == Spec => []FileIsTrue
<1>1. EveryTraineePlacedOnce /\ FinishedIsClosedOut /\ PausedIsQuiet => FileIsTrue
  BY DEF FileIsTrue
<1> QED BY <1>1, EachPlacedOnce, FinishedMeansFinished, PauseIsSafe, PTL

-----------------------------------------------------------------------------
(* Refusals. *)

(* Between runs only a close-out lifts a refusal: the guard records a batch   *)
(* as interrupted, and an interrupted batch is refused like a running one.    *)
THEOREM RefusalStands == Spec => RefusalDoesNotExpire
<1>1. ASSUME IInv, [Next]_vars, pc = "idle", pc' = "idle", Refused(slot), ~ Refused(slot')
      PROVE  NothingOwed(slot) /\ Roster(slot) = << >> /\ slot'.status = "finished"
  <2>1. slot \in Checkpoints /\ slot.tracks
    BY <1>1 DEF IInv, TypeOK, FileSeparates
  <2>2. Examined(slot) = slot
    BY <2>1, GuardKeepsGroups, TRUE \in BOOLEAN
  <2>3. ASSUME NEW saved \in BOOLEAN, slot' = AfterGuard(slot, saved) PROVE FALSE
    <3>1. SameGroups(slot', slot) /\ Examined(slot') = slot'
      BY <2>1, <2>3, GuardKeepsGroups, TRUE \in BOOLEAN DEF SameGroups
    <3>2. /\ slot'.total = slot.total
          /\ slot'.status = "finished" => slot.status = "finished"
      BY <2>1, <2>2, <2>3 DEF AfterGuard, Recorded, MarkInterrupted, Checkpoints
    <3>3. BlocksStart(slot) => BlocksStart(slot')
      BY <3>1, <3>2
      DEF SameGroups, BlocksStart, HasUnconfirmed, Unaccounted, Placed, RecordsLandedWork, HasSettled
    <3> QED BY <1>1, <2>2, <3>1, <3>3 DEF Refused
  <2>4. slot' # slot
    BY <1>1
  <2>5. StartRefused \/ StartFresh \/ StartResume \/ ResumeNothing
    <3>1. ~ EngineStep
      BY <1>1, <2>4
      DEF EngineStep, EstablishSession, QueueDone, BoundaryPass, BoundaryStop, BoundaryPause,
          PausedStop, PausedResume, TakeStopped, Take, AdmitStopped, Admit, Send, ReplySettles,
          ReplyRetries, TransportError, BackoffOver, Continue, AbortBatch, AbortStopped,
          LateStop, Complete, Close, Terminal
    <3> QED BY <1>1, <2>4, <3>1 DEF Next, Pause, Resume, Stop, WorkerPosts, Crash, Rest, vars
  <2>6. /\ NothingOwed(slot) /\ Roster(slot) = << >> /\ slot' = ClosedOut(slot)
    BY <2>3, <2>5 DEF StartRefused, StartFresh, StartResume, ResumeNothing
  <2>7. slot'.status = "finished"
    BY <2>1, <2>2, <2>6 DEF ClosedOut, Recorded, MarkInterrupted, Checkpoints
  <2> QED BY <2>6, <2>7
<1> QED BY <1>1, Inductive, PTL DEF Spec, RefusalDoesNotExpire

-----------------------------------------------------------------------------
(* What a row of success stands for. *)

Landed(rows) == {rows[i].who : i \in {j \in DOMAIN rows : rows[j].outcome = "success"}}

(* A success row of a run, or of a file whose batch has not finished, stands   *)
(* for a POST that was made since its batch began.                            *)
LandedPosted ==
  /\ slot.status # "finished" => \A t \in Landed(slot.results) : posted[t] > 0
  /\ pc # "idle" => \A t \in Landed(results) : posted[t] > 0

LEMMA RowLanded ==
  ASSUME NEW rows \in Seq(Row), NEW r \in Row
  PROVE  Landed(Append(rows, r)) =
           Landed(rows) \cup (IF r.outcome = "success" THEN {r.who} ELSE {})
<1>1. /\ Len(rows) \in Nat /\ DOMAIN rows = 1 .. Len(rows)
      /\ DOMAIN Append(rows, r) = 1 .. Len(rows) + 1
      /\ \A i \in 1 .. Len(rows) : Append(rows, r)[i] = rows[i]
      /\ Append(rows, r)[Len(rows) + 1] = r
  BY AppendProperties, LenProperties
<1>2. DOMAIN Append(rows, r) = DOMAIN rows \cup {Len(rows) + 1}
  BY <1>1
<1> QED BY <1>1, <1>2 DEF Landed

(* A step that POSTs nothing and writes the run's rows or none. *)
LEMMA WrittenLanded ==
  ASSUME LandedPosted, pc # "idle", posted' = posted,
         slot'.results = results \/ slot' = slot,
         results' = results \/ pc' = "idle"
  PROVE  LandedPosted'
BY DEF LandedPosted

LEMMA StopLanded ==
  ASSUME LandedPosted, pc # "idle", UNCHANGED <<portal, starts>>, NEW next, StopAndDrain(next)
  PROVE  LandedPosted'
<1>1. slot'.results = results \/ slot' = slot
  BY DEF StopAndDrain, Snapshot, Fail
<1>2. (results' = results \/ pc' = "idle") /\ posted' = posted
  BY DEF StopAndDrain, Fail, Forget, portal
<1> QED BY <1>1, <1>2, WrittenLanded

LEMMA SettleLanded ==
  ASSUME TypeInv, TaskInFlight, LandedPosted, InTask,
         NEW kind \in Outcomes \cup {"skipped"}, NEW aborting, Settle(kind, aborting),
         kind = "success" => posted[current] > 0
  PROVE  LandedPosted'
<1> DEFINE r == [who |-> current, outcome |-> kind]
<1>1. \A t \in Landed(results') : posted[t] > 0
  <2>1. CASE kind = "skipped"
    BY <2>1 DEF Settle, LandedPosted, InTask
  <2>2. CASE kind # "skipped"
    <3>1. r \in Row /\ r.who = current /\ r.outcome = kind
      BY <2>2 DEF Row, TaskInFlight
    <3>2. results' = Append(results, r)
      BY <2>2 DEF Settle
    <3>3. results \in Seq(Row)
      BY DEF TypeInv, TypeOK
    <3> HIDE DEF r
    <3> QED BY <3>1, <3>2, <3>3, RowLanded DEF LandedPosted, InTask
  <2> QED BY <2>1, <2>2
<1>2. (slot'.results = results' \/ slot' = slot) /\ posted' = posted
  BY DEF Settle, Save, Snapshot
<1> QED BY <1>1, <1>2 DEF LandedPosted

(* A finished batch has no roster, so a resume never takes one up. *)
LEMMA StartLanded ==
  ASSUME TypeInv, FinishedIsClosedOut, LandedPosted,
         StartRefused \/ StartFresh \/ StartResume \/ ResumeNothing
  PROVE  LandedPosted'
<1>1. slot \in Checkpoints /\ slot.tracks
  BY DEF TypeInv, TypeOK
<1>2. /\ Examined(slot) = slot
      /\ \A saved \in BOOLEAN : SameGroups(AfterGuard(slot, saved), slot)
      /\ SameGroups(ClosedOut(slot), slot)
  BY <1>1, GuardKeepsGroups, TRUE \in BOOLEAN
<1>3. \A saved \in BOOLEAN : slot.status = "finished" => AfterGuard(slot, saved).status = "finished"
  BY <1>1, <1>2 DEF AfterGuard, Recorded, MarkInterrupted, Checkpoints, IsLive
<1>4. ClosedOut(slot).status = "finished"
  BY <1>1, <1>2 DEF ClosedOut, Recorded, MarkInterrupted, Checkpoints
<1>5. /\ slot'.results = slot.results
      /\ slot.status = "finished" => slot'.status = "finished"
  BY <1>2, <1>3, <1>4 DEF StartRefused, StartFresh, StartResume, ResumeNothing, SameGroups
<1>6. CASE StartRefused \/ ResumeNothing
  BY <1>5, <1>6 DEF StartRefused, ResumeNothing, BeginStart, portal, LandedPosted
<1>7. CASE StartFresh
  <2>1. results' = << >> /\ (slot.status = "finished" \/ posted' = posted)
    BY <1>7 DEF StartFresh
  <2>2. Landed(<< >>) = {}
    BY DEF Landed
  <2> QED BY <1>5, <2>1, <2>2 DEF LandedPosted
<1>8. CASE StartResume
  <2>1. results' = Carried(slot) /\ posted' = posted /\ Roster(slot) # << >>
    BY <1>8 DEF StartResume, portal
  <2>2. slot.status # "finished"
    BY <1>1, <2>1, ResumeSplits DEF FinishedIsClosedOut, NeverAttempted
  <2>3. Carried(slot) = (slot.results \o InFlightRows(slot)) \o << >>
    BY <1>1, <1>2 DEF Carried, Stranded
  <2>4. slot.results \in Seq(Row) /\ slot.inFlight \in Trainees \cup {NoTrainee}
    BY <1>1 DEF Checkpoints
  <2>5. Landed(Carried(slot)) = Landed(slot.results)
    <3>1. CASE slot.inFlight = NoTrainee
      BY <2>3, <2>4, <3>1, ConcatEmptySeq DEF InFlightRows
    <3>2. CASE slot.inFlight # NoTrainee
      <4> DEFINE r == [who |-> slot.inFlight, outcome |-> "indeterminate"]
      <4>1. r \in Row /\ r.outcome # "success"
        BY <2>4, <3>2 DEF Row, Outcomes
      <4>2. /\ slot.results \o << r >> = Append(slot.results, r)
            /\ Append(slot.results, r) \in Seq(Row)
        BY <2>4, <4>1, AppendIsConcat, AppendProperties
      <4>3. Carried(slot) = Append(slot.results, r)
        BY <2>3, <3>2, <4>2, ConcatEmptySeq DEF InFlightRows
      <4> HIDE DEF r
      <4> QED BY <2>4, <4>1, <4>3, RowLanded
    <3> QED BY <3>1, <3>2
  <2> QED BY <1>5, <2>1, <2>2, <2>5 DEF LandedPosted
<1> QED BY <1>6, <1>7, <1>8

LEMMA LandedStep ==
  ASSUME TypeInv, TaskInFlight, FinishedIsClosedOut, LandedPosted, [Next]_vars
  PROVE  LandedPosted'
<1>1. CASE StartRefused \/ StartFresh \/ StartResume \/ ResumeNothing
  BY <1>1, StartLanded
<1>2. CASE EstablishSession \/ BoundaryPause \/ PausedResume \/ Take
  <2>1. pc # "idle" /\ posted' = posted
    BY <1>2 DEF EstablishSession, BoundaryPause, PausedResume, Take, portal
  <2>2. slot'.results = results \/ slot' = slot
    BY <1>2 DEF EstablishSession, BoundaryPause, PausedResume, Take, Snapshot
  <2>3. results' = results \/ pc' = "idle"
    BY <1>2 DEF EstablishSession, BoundaryPause, PausedResume, Take, Fail, Forget, work
  <2> QED BY <2>1, <2>2, <2>3, WrittenLanded
<1>3. CASE BoundaryStop \/ PausedStop \/ AbortStopped \/ LateStop
  BY <1>3, StopLanded DEF BoundaryStop, PausedStop, AbortStopped, LateStop
<1>4. CASE AdmitStopped
  BY <1>4, SettleLanded DEF AdmitStopped, InTask, Outcomes
<1>5. CASE \E resp \in Replies : ReplySettles(resp)
  <2>1. PICK resp \in Replies : ReplySettles(resp)
    BY <1>5
  <2>2. SettleSubmit(resp) = "success" => resp.status = "ok"
    BY DEF SettleSubmit
  <2>3. SettleSubmit(resp) = "success" => posted[current] > 0
    BY <2>1, <2>2 DEF ReplySettles, Truthful
  <2> QED BY <2>1, <2>3, SettleLanded, VerdictType DEF ReplySettles, InTask, Outcomes
<1>6. CASE TransportError
  BY <1>6, SettleLanded DEF TransportError, InTask, Outcomes
<1>7. CASE Close
  BY <1>7, WrittenLanded DEF Close, Terminal, Save, Snapshot, Forget, portal
<1>8. CASE \/ QueueDone \/ BoundaryPass \/ TakeStopped \/ BackoffOver \/ Continue \/ Complete
           \/ Admit \/ Send \/ AbortBatch \/ \E resp \in Replies : ReplyRetries(resp)
  <2>1. pc # "idle" /\ slot' = slot /\ results' = results /\ posted' = posted
    BY <1>8
    DEF QueueDone, BoundaryPass, TakeStopped, BackoffOver, Continue, Complete, Admit, Send,
        AbortBatch, ReplyRetries, work, portal
  <2> QED BY <2>1, WrittenLanded
<1>9. CASE Pause \/ Resume \/ Stop \/ UNCHANGED vars
  BY <1>9 DEF Pause, Resume, Stop, vars, work, portal, LandedPosted
<1>10. CASE \E t \in Trainees : WorkerPosts(t)
  <2>1. PICK t \in Trainees : WorkerPosts(t)
    BY <1>10
  <2>2. slot' = slot /\ pc' = pc /\ results' = results
    BY <2>1 DEF WorkerPosts, work
  <2>3. \A u : posted[u] > 0 => posted'[u] > 0
    BY <2>1 DEF WorkerPosts, TypeInv, TypeOK
  <2> QED BY <2>2, <2>3 DEF LandedPosted
<1>11. CASE Crash
  BY <1>11 DEF Crash, Forget, portal, LandedPosted
<1> QED
  BY <1>1, <1>2, <1>3, <1>4, <1>5, <1>6, <1>7, <1>8, <1>9, <1>10, <1>11 DEF Next, EngineStep, Rest

(* A run has no exit code before it ends. *)
ExitOpen == pc # "idle" => exit = "none"

LEMMA ExitStep == ASSUME ExitOpen, [Next]_vars PROVE ExitOpen'
<1>1. CASE StartRefused \/ StartFresh \/ StartResume \/ ResumeNothing
  BY <1>1 DEF StartRefused, StartFresh, StartResume, ResumeNothing, BeginStart, ExitOpen
<1>2. CASE \/ EstablishSession \/ BoundaryPause \/ PausedResume \/ Close \/ Crash
           \/ BoundaryStop \/ PausedStop \/ AbortStopped \/ LateStop
  BY <1>2
  DEF EstablishSession, BoundaryPause, PausedResume, Close, Terminal, Crash, BoundaryStop, PausedStop,
      AbortStopped, LateStop, StopAndDrain, Fail, Forget, ExitOpen
<1>3. CASE AdmitStopped \/ TransportError \/ \E resp \in Replies : ReplySettles(resp)
  BY <1>3 DEF AdmitStopped, TransportError, ReplySettles, Settle, ExitOpen
<1>4. CASE \/ QueueDone \/ BoundaryPass \/ TakeStopped \/ Take \/ BackoffOver \/ Continue
           \/ Complete \/ Admit \/ Send \/ AbortBatch \/ \E resp \in Replies : ReplyRetries(resp)
  BY <1>4
  DEF QueueDone, BoundaryPass, TakeStopped, Take, BackoffOver, Continue, Complete, Admit,
      Send, AbortBatch, ReplyRetries, ExitOpen
<1>5. CASE Pause \/ Resume \/ Stop \/ (\E t \in Trainees : WorkerPosts(t)) \/ UNCHANGED vars
  BY <1>5 DEF Pause, Resume, Stop, WorkerPosts, vars, ExitOpen
<1> QED BY <1>1, <1>2, <1>3, <1>4, <1>5 DEF Next, EngineStep, Rest

(* Only the last action of a run reports a clean exit. *)
LEMMA CleanCloses ==
  ASSUME ExitOpen, [Next]_vars, pc = "closing", exit' = "clean"
  PROVE  Close
<1>1. exit = "none"
  BY DEF ExitOpen
<1>2. ~ (StartRefused \/ StartFresh \/ StartResume \/ ResumeNothing)
  BY DEF StartRefused, StartFresh, StartResume, ResumeNothing, BeginStart
<1>3. ~ (\/ EstablishSession \/ QueueDone \/ BoundaryPass \/ BoundaryStop \/ BoundaryPause
         \/ PausedStop \/ PausedResume \/ TakeStopped \/ Take \/ AdmitStopped \/ Admit \/ Send
         \/ (\E resp \in Replies : ReplySettles(resp) \/ ReplyRetries(resp))
         \/ TransportError \/ BackoffOver \/ Continue \/ AbortBatch \/ AbortStopped
         \/ LateStop \/ Complete)
  BY DEF EstablishSession, QueueDone, BoundaryPass, BoundaryStop, BoundaryPause,
         PausedStop, PausedResume, TakeStopped, Take, AdmitStopped, Admit, Send, ReplySettles,
         ReplyRetries, TransportError, BackoffOver, Continue, AbortBatch, AbortStopped,
         LateStop, Complete
<1>4. ~ (Pause \/ Resume \/ Stop \/ (\E t \in Trainees : WorkerPosts(t)) \/ UNCHANGED vars)
  BY <1>1 DEF Pause, Resume, Stop, WorkerPosts, vars
<1>5. ~ Crash
  BY DEF Crash
<1> QED BY <1>2, <1>3, <1>4, <1>5 DEF Next, EngineStep, Rest

(* Exit code 0 is earned: all the trainees the run was asked for have a row,   *)
(* every row is a success, and each stands for exactly one POST.             *)
THEOREM CleanIsConfirmed == Spec => CleanExitMeansAllConfirmed
<1> DEFINE Earned == /\ Len(results) = total
                     /\ \A i \in DOMAIN results :
                          results[i].outcome = "success" /\ posted[results[i].who] = 1
<1>1. Init => LandedPosted /\ NobodyLeft /\ FinishedIsClosedOut /\ FileCounts /\ RunCounts /\ ExitOpen
  BY InitCounts DEF Init, LandedPosted, NoFile, Landed, NobodyLeft, FinishedIsClosedOut, ExitOpen
<1>2. IInv /\ FinishedIsClosedOut /\ LandedPosted /\ [Next]_vars => LandedPosted'
  BY LandedStep DEF IInv, TypeInv, FileSeparates
<1>3. IInv /\ NobodyLeft /\ FinishedIsClosedOut /\ [Next]_vars
        => NobodyLeft' /\ FinishedIsClosedOut'
  BY NobodyLeftStep DEF IInv, TypeInv, FileSeparates
<1>4. IInv /\ FileCounts /\ RunCounts /\ [Next]_vars => FileCounts' /\ RunCounts'
  BY CountsStep DEF IInv, TypeInv, Accounts, FileSeparates
<1>5. ASSUME IInv, NobodyLeft, RunCounts, LandedPosted, ExitOpen, [Next]_vars,
             pc = "closing", exit' = "clean"
      PROVE  Earned
  <2>1. Close
    BY <1>5, CleanCloses
  <2>2. /\ ~ aborted /\ skipped = << >> /\ queue = << >> /\ current = NoTrainee
        /\ \A i \in DOMAIN results : results[i].outcome \notin {"failed", "indeterminate"}
    BY <1>5, <2>1
    DEF Close, Terminal, BatchExit, Reported, NobodyLeft, IInv, TaskInFlight, InTask
  <2>3. results \in Seq(Row) /\ Len(results) \in Nat /\ Len(<< >>) = 0
    BY <1>5, LenProperties, EmptySeq DEF IInv, TypeOK
  <2>4. Len(results) = total
    BY <1>5, <2>2, <2>3 DEF RunCounts, Held
  <2>5. ASSUME NEW i \in DOMAIN results
        PROVE  results[i].outcome = "success" /\ posted[results[i].who] = 1
    <3>1. results[i] \in Row
      BY <2>3, <2>5
    <3>2. results[i].outcome = "success" /\ results[i].who \in Trainees
      BY <2>2, <3>1 DEF Row, Outcomes
    <3>3. posted[results[i].who] > 0
      BY <1>5, <3>2 DEF LandedPosted, Landed
    <3>4. posted[results[i].who] \in Nat /\ posted[results[i].who] <= 1
      BY <1>5, <3>2 DEF IInv, TypeOK, SentOnce
    <3> QED BY <3>2, <3>3, <3>4
  <2> QED BY <2>4, <2>5
<1>6. ExitOpen /\ [Next]_vars => ExitOpen'
  BY ExitStep
<1>7. IInv /\ NobodyLeft /\ RunCounts /\ LandedPosted /\ ExitOpen /\ [Next]_vars
        => (pc = "closing" /\ exit' = "clean" => Earned)
  BY <1>5
<1> HIDE DEF Earned
<1>8. Spec => [][pc = "closing" /\ exit' = "clean" => Earned]_vars
  BY <1>1, <1>2, <1>3, <1>4, <1>6, <1>7, Inductive, PTL DEF Spec
<1> QED BY <1>8 DEF CleanExitMeansAllConfirmed, Earned

-----------------------------------------------------------------------------
(* The ledger. *)

LEMMA NamedAreTrainees ==
  ASSUME NEW cp \in Checkpoints
  PROVE  NamedBy(cp) \subseteq Trainees
<1>1. cp.results \in Seq(Row) /\ cp.inFlight \in Trainees \cup {NoTrainee}
  BY DEF Checkpoints
<1>2. \A i \in DOMAIN cp.results : cp.results[i] \in Row
  BY <1>1
<1> QED BY <1>1, <1>2 DEF NamedBy, Who, Row

(* A step that hands nobody over and POSTs nothing rewrites the record.      *)
LEMMA QuietRewrites ==
  ASSUME IInv', inHand' \subseteq inHand, posted' = posted
  PROVE  Ledger!Rewrite
<1>1. slot' \in Checkpoints
  BY DEF IInv, TypeOK
<1>2. NamedBy(slot') \subseteq Trainees
  BY <1>1, NamedAreTrainees
<1>3. Exposed' \subseteq NamedBy(slot')
  BY DEF IInv, FileNames
<1> QED BY <1>2, <1>3 DEF Ledger!Rewrite, Ledger!Exposed, Exposed

(* A fresh start over a finished file opens a new account.                   *)
LEMMA FreshReopens ==
  ASSUME IInv, IInv', StartFresh
  PROVE  Ledger!Rewrite \/ Ledger!Reopen
<1>1. slot \in Checkpoints /\ slot.tracks
  BY DEF IInv, TypeOK, FileSeparates
<1>2. CASE slot.status # "finished"
  BY <1>2, QuietRewrites DEF StartFresh
<1>3. CASE slot.status = "finished"
  <2>1. SameGroups(slot', slot)
    BY <1>1, GuardKeepsGroups DEF StartFresh
  <2>2. NamedBy(slot') = NamedBy(slot)
    BY <2>1 DEF SameGroups, NamedBy
  <2>3. slot.inFlight = NoTrainee /\ Doubtful(slot.results) = {}
    BY <1>1, UnrefusedNames DEF StartFresh
  <2>4. inHand = {}
    BY <2>3, NoTraineeAssumption DEF IInv, FileNames, TypeOK
  <2>5. posted' = [t \in Trainees |-> 0] /\ inHand' = inHand
    BY <1>3 DEF StartFresh
  <2> QED BY <2>2, <2>4, <2>5 DEF Ledger!Reopen
<1> QED BY <1>2, <1>3

LEMMA LedgerStep ==
  ASSUME IInv, IInv', [Next]_vars
  PROVE  [Ledger!Next]_<<NamedBy(slot), inHand, posted>>
<1>q. ASSUME inHand' \subseteq inHand, posted' = posted PROVE Ledger!Next
  BY <1>q, QuietRewrites DEF Ledger!Next
<1>1. CASE StartFresh
  BY <1>1, FreshReopens DEF Ledger!Next
<1>2. CASE Send
  <2>1. /\ current \in Trainees /\ slot.inFlight = current /\ current \notin Exposed
        /\ inHand' = inHand \cup {current} /\ slot' = slot /\ posted' = posted
    BY <1>2 DEF Send, IInv, TaskInFlight, SentOnce, InTask
  <2>2. current \in NamedBy(slot)
    BY <2>1, NoTraineeAssumption DEF NamedBy
  <2>3. Ledger!HandOver(current)
    BY <2>1, <2>2 DEF Ledger!HandOver, Ledger!Exposed, Exposed
  <2> QED BY <2>1, <2>3 DEF Ledger!Next
<1>3. CASE \E t \in Trainees : WorkerPosts(t)
  <2>1. PICK t \in Trainees : WorkerPosts(t)  BY <1>3
  <2>2. Ledger!Post(t)
    BY <2>1 DEF WorkerPosts, Ledger!Post
  <2> QED BY <2>2 DEF Ledger!Next
<1>4. CASE StartRefused \/ StartResume \/ ResumeNothing
  BY <1>4, <1>q DEF StartRefused, StartResume, ResumeNothing, portal
<1>5. CASE \/ EstablishSession \/ QueueDone \/ BoundaryPass \/ BoundaryStop \/ BoundaryPause
           \/ PausedStop \/ PausedResume \/ TakeStopped \/ Take \/ Admit
  BY <1>5, <1>q
  DEF EstablishSession, QueueDone, BoundaryPass, BoundaryStop, BoundaryPause,
      PausedStop, PausedResume, TakeStopped, Take, Admit, portal
<1>6. CASE \/ AdmitStopped \/ TransportError
           \/ \E resp \in Replies : ReplySettles(resp) \/ ReplyRetries(resp)
  BY <1>6, <1>q DEF AdmitStopped, TransportError, ReplySettles, ReplyRetries, Settle
<1>7. CASE \/ BackoffOver \/ Continue \/ AbortBatch \/ AbortStopped \/ LateStop \/ Complete
           \/ Close \/ Pause \/ Resume \/ Stop \/ Crash \/ UNCHANGED vars
  BY <1>7, <1>q
  DEF BackoffOver, Continue, AbortBatch, AbortStopped, LateStop, Complete, Close, Terminal,
      Pause, Resume, Stop, Crash, vars, portal
<1> QED
  BY <1>1, <1>2, <1>3, <1>4, <1>5, <1>6, <1>7 DEF Next, EngineStep, Rest

(* What the run loop, the gate and the store do together is what a ledger     *)
(* does: no trainee is handed over unnamed, or twice, or forgotten.           *)
THEOREM Refines == Spec => ImplementsLedger
<1>1. Init => Ledger!Init
  BY DEF Init, Ledger!Init, NamedBy, Who, NoFile
<1>2. IInv /\ IInv' /\ [Next]_vars => [Ledger!Next]_<<NamedBy(slot), inHand, posted>>
  BY LedgerStep
<1> QED BY <1>1, <1>2, Inductive, PTL DEF Spec, ImplementsLedger, Ledger!Spec, Ledger!ledger

-----------------------------------------------------------------------------
(* The state machine beside the loop. *)

(* Where the machine is at each step of the loop.  A move the machine refuses *)
(* is dropped, so between two boundaries only Active is known: enough, since   *)
(* every active state may pause, stop and complete.                           *)
MachineInv ==
  /\ pc \in {"idle", "session", "loop", "paused", "take", "admit", "admitted", "sent",
             "backoff", "settled", "finish", "closing"}
  /\ pc \notin {"finish", "closing"} => aborted = FALSE
  /\ pc = "idle" => machine = "Idle"
  /\ pc \in {"session", "loop", "take", "admit", "admitted", "sent", "backoff", "settled"}
       => machine \in Active
  /\ pc = "paused" => machine = "Paused"
  /\ pc = "finish" => IF aborted THEN machine = "Stopped" ELSE machine \in Active
  /\ EndIsLabelled

(* From an active state the machine takes every move the loop asks of it that *)
(* matters, and a refused one leaves it active.                               *)
LEMMA ActiveMoves ==
  ASSUME machine \in Active
  PROVE  /\ {"Paused", "Stopped", "Complete", "LoadingTrainee"} \subseteq Allowed(machine)
         /\ \A next \in Active : Try(next) => machine' \in Active
<1>1. Allowed(machine) = FromActive \cup Forward[machine]
  BY DEF Allowed, Active
<1> QED BY <1>1 DEF FromActive, Try

(* A paused machine may resume, stop or complete. *)
LEMMA PausedMoves ==
  ASSUME machine = "Paused"
  PROVE  {"LoadingTrainee", "Stopped", "Complete"} \subseteq Allowed(machine)
BY DEF Allowed, Active

(* The end of a run takes its machine to Idle, on any path. *)
LEMMA MachineForgotten ==
  ASSUME Forget, machine' = "Idle"
  PROVE  MachineInv'
BY DEF Forget, MachineInv, EndIsLabelled

LEMMA MachineStep == ASSUME MachineInv, [MNext]_mvars PROVE MachineInv'
<1> USE DEF MachineInv, EndIsLabelled
<1>1. CASE MStart
  BY <1>1 DEF MStart, StartFresh, StartResume, BeginStart, Active
<1>2. CASE MStop
  <2>1. CASE pc' = "idle"
    <3>1. Forget /\ machine' = "Idle"
      BY <1>2, <2>1 DEF MStop, Drives, BoundaryStop, PausedStop, AbortBatch, AbortStopped, LateStop,
                        StopAndDrain, Drain, Fail
    <3> QED BY <3>1, MachineForgotten
  <2>2. CASE pc' # "idle"
    <3>1. /\ aborted' = TRUE /\ pc' \in {"finish", "closing"}
          /\ pc \in {"loop", "paused", "settled", "finish"} /\ (pc = "finish" => aborted = FALSE)
      BY <1>2, <2>2 DEF MStop, BoundaryStop, PausedStop, AbortBatch, AbortStopped, LateStop,
                        StopAndDrain, Drain, Fail, Forget
    <3>2. "Stopped" \in Allowed(machine)
      BY <3>1, ActiveMoves, PausedMoves
    <3>3. machine' = "Stopped"
      BY <1>2, <2>2, <3>2 DEF MStop, Drives, Try
    <3> QED BY <3>1, <3>3
  <2> QED BY <2>1, <2>2
<1>3. CASE MPause
  <2>1. CASE pc' = "idle"
    <3>1. Forget /\ machine' = "Idle"
      BY <1>3, <2>1 DEF MPause, Drives, BoundaryPause, Fail
    <3> QED BY <3>1, MachineForgotten
  <2>2. CASE pc' # "idle"
    <3>1. pc = "loop" /\ pc' = "paused" /\ aborted' = aborted /\ Try("Paused")
      BY <1>3, <2>2 DEF MPause, Drives, BoundaryPause, Fail, Forget
    <3> QED BY <3>1, ActiveMoves DEF Try
  <2> QED BY <2>1, <2>2
<1>4. CASE MResume
  <2>1. CASE pc' = "idle"
    <3>1. Forget /\ machine' = "Idle"
      BY <1>4, <2>1 DEF MResume, Drives, PausedResume, Fail
    <3> QED BY <3>1, MachineForgotten
  <2>2. CASE pc' # "idle"
    <3>1. pc = "paused" /\ pc' = "take" /\ aborted' = aborted /\ Try("LoadingTrainee")
      BY <1>4, <2>2 DEF MResume, Drives, PausedResume, Fail, Forget
    <3> QED BY <3>1, PausedMoves DEF Try, Active
  <2> QED BY <2>1, <2>2
<1>5. CASE MTake
  <2>1. pc = "take" /\ machine \in Active
    BY <1>5 DEF MTake, Take
  <2>2. CASE pc' = "admit"
    BY <1>5, <2>1, <2>2, ActiveMoves DEF MTake, Take, Drives, Active
  <2>3. CASE pc' # "admit"
    <3>1. pc' = "finish" /\ aborted' = TRUE /\ Try("Stopped")
      BY <1>5, <2>3 DEF MTake, Take, Drives, Drain
    <3> QED BY <2>1, <3>1, ActiveMoves DEF Try
  <2> QED BY <2>2, <2>3
<1>6. CASE MAdmit
  BY <1>6, ActiveMoves DEF MAdmit, Admit, Drives, Active
<1>7. CASE MReply
  <2>1. /\ pc = "sent" /\ pc' \in {"settled", "backoff"} /\ aborted' = aborted
        /\ Try("Verifying") \/ Try("Retrying")
    BY <1>7 DEF MReply, ReplySettles, ReplyRetries, Settle, Drives
  <2> QED BY <2>1, ActiveMoves DEF Active
<1>8. CASE MComplete
  <2>1. pc = "finish" /\ pc' = "closing" /\ aborted' = aborted
    BY <1>8 DEF MComplete, Complete
  <2>2. CASE machine = "Stopped"
    BY <1>8, <2>1, <2>2 DEF MComplete, Active
  <2>3. CASE machine # "Stopped"
    BY <1>8, <2>1, <2>3, ActiveMoves DEF MComplete, Try
  <2> QED BY <2>2, <2>3
<1>9. CASE MOther
  <2>1. CASE StartRefused \/ ResumeNothing \/ Pause \/ Resume \/ Stop \/ Rest
             \/ \E t \in Trainees : WorkerPosts(t)
    BY <1>9, <2>1 DEF MOther, Stays, StartRefused, ResumeNothing, BeginStart, Pause, Resume, Stop,
                      Controllable, Rest, WorkerPosts, vars
  <2>2. CASE Close \/ Crash
    <3>1. Forget /\ machine' = "Idle"
      BY <1>9, <2>2 DEF MOther, Stays, Close, Terminal, Crash, Forget
    <3> QED BY <3>1, MachineForgotten
  <2>3. CASE EstablishSession
    <3>1. CASE pc' = "idle"
      <4>1. Forget /\ machine' = "Idle"
        BY <1>9, <2>3, <3>1 DEF MOther, Stays, EstablishSession, Fail
      <4> QED BY <4>1, MachineForgotten
    <3>2. CASE pc' # "idle"
      BY <1>9, <2>3, <3>2 DEF MOther, Stays, EstablishSession, Fail, Forget
    <3> QED BY <3>1, <3>2
  <2>4. CASE \/ QueueDone \/ BoundaryPass \/ TakeStopped \/ BackoffOver \/ Continue
    BY <1>9, <2>4 DEF MOther, Stays, QueueDone, BoundaryPass, TakeStopped, BackoffOver, Continue
  <2>5. CASE AdmitStopped \/ Send \/ TransportError
    BY <1>9, <2>5 DEF MOther, Stays, AdmitStopped, Send, TransportError, Settle
  <2> QED BY <1>9, <2>1, <2>2, <2>3, <2>4, <2>5 DEF MOther
<1>10. CASE UNCHANGED mvars
  BY <1>10 DEF mvars, vars
<1> QED BY <1>1, <1>2, <1>3, <1>4, <1>5, <1>6, <1>7, <1>8, <1>9, <1>10 DEF MNext

(* Every step of the engine with its machine is a step of the engine, so what *)
(* is proved of BatchEngine holds of the pair.                                *)
THEOREM MachineRefinesEngine == MSpec => Spec
<1>1. MInit => Init
  BY DEF MInit
<1>2. [MNext]_mvars => [Next]_vars
  BY DEF MNext, MStart, MStop, MPause, MResume, MTake, MAdmit, MReply, MComplete, MOther,
         Next, EngineStep, mvars
<1> QED BY <1>1, <1>2, PTL DEF MSpec, Spec

(* However many retries, pauses and refused moves lie behind it, the machine  *)
(* never refuses a pause or its end, and a run that closes has it say whether *)
(* it was aborted or completed.                                               *)
THEOREM MachineIsFollowed == MSpec => []MachineFollows
<1>1. MInit => MachineInv
  BY DEF MInit, Init, MachineInv, EndIsLabelled
<1>2. MachineInv => MachineFollows
  BY ActiveMoves, PausedMoves DEF MachineInv, MachineFollows, PauseIsNeverRefused
<1>3. MachineInv /\ [MNext]_mvars => MachineInv'
  BY MachineStep
<1> QED BY <1>1, <1>2, <1>3, PTL DEF MSpec

=============================================================================
