------------------------ MODULE RefusalAdviceProofs ------------------------
(***************************************************************************)
(* Proofs about RefusalAdvice: BatchEngine over any file a build may have    *)
(* left, those without the in_flight key among them.  While the slot still   *)
(* holds such a file the accounts are kept by OldFile; the first write turns *)
(* it into a file of this build, and from there BatchEngineProofs applies.   *)
(***************************************************************************)
EXTENDS RefusalAdvice, BatchEngineProofs, FiniteSetTheorems

-----------------------------------------------------------------------------
(* Sequences and rows. *)

(* Taking out of a sequence who is not in it changes nothing. *)
LEMMA WithoutAbsent ==
  ASSUME NEW S, NEW s \in Seq(S), NEW t, t \notin Range(s)
  PROVE  Without(s, t) = s
<1> DEFINE n == Len(s)
           others == {i \in DOMAIN s : s[i] # t}
           upTo(i) == {j \in others : j <= i}
           Nth(k) == CHOOSE i \in others : Cardinality(upTo(i)) = k
<1>1. n \in Nat /\ DOMAIN s = 1 .. n /\ s \in [1 .. n -> S]
  BY LenProperties
<1>2. Without(s, t) = [k \in 1 .. Cardinality(others) |-> s[Nth(k)]]
  BY DEF Without
<1> HIDE DEF n
<1>3. others = 1 .. n
  BY <1>1 DEF Range
<1> HIDE DEF others
<1>4. Cardinality(others) = n
  BY <1>1, <1>3, FS_Interval
<1>5. ASSUME NEW i \in others PROVE Cardinality(upTo(i)) = i
  <2>1. upTo(i) = 1 .. i  BY <1>1, <1>3
  <2>2. Cardinality(1 .. i) = i  BY <1>1, <1>3, FS_Interval
  <2> QED BY <2>1, <2>2
<1> HIDE DEF upTo
<1>6. \A k \in 1 .. n : Nth(k) = k
  BY <1>3, <1>5
<1> HIDE DEF Nth
<1>7. Without(s, t) = [k \in 1 .. n |-> s[k]]
  BY <1>2, <1>4, <1>6
<1> QED BY <1>1, <1>7

(* The settled rows among some rows. *)
SettledIn(rows) == {r \in Range(rows) : r.outcome \in {"success", "failed"}}

(* What is asked of rows is asked of their range. *)
LEMMA RowsByRange ==
  ASSUME NEW rows
  PROVE  /\ Who(rows) = {r.who : r \in Range(rows)}
         /\ Doubtful(rows) = {r.who : r \in {x \in Range(rows) : x.outcome = "indeterminate"}}
BY DEF Who, Doubtful, Range

LEMMA SettledByRange == ASSUME NEW cp PROVE Settled(cp) = SettledIn(cp.results)
BY DEF Settled, SettledIn, Range

(* More rows mean no fewer in doubt, and no fewer settled. *)
LEMMA MoreRows ==
  ASSUME NEW rows, NEW more, Range(rows) \subseteq Range(more)
  PROVE  /\ Who(rows) \subseteq Who(more) /\ Doubtful(rows) \subseteq Doubtful(more)
         /\ SettledIn(rows) \subseteq SettledIn(more)
BY RowsByRange DEF SettledIn

(* Rows in doubt can be counted. *)
LEMMA DoubtIsFinite ==
  ASSUME NEW rows \in Seq(Row)
  PROVE  IsFiniteSet(Doubtful(rows)) /\ Cardinality(Doubtful(rows)) \in Nat
<1> DEFINE at == {j \in DOMAIN rows : rows[j].outcome = "indeterminate"}
<1>1. IsFiniteSet(DOMAIN rows)
  BY LenProperties, FS_Interval
<1>2. IsFiniteSet(at)
  BY <1>1, FS_Subset
<1> DEFINE f == [j \in at |-> rows[j].who]
<1>3. f \in Surjection(at, Doubtful(rows))
  BY DEF Surjection, Doubtful
<1>4. IsFiniteSet(Doubtful(rows))
  BY <1>2, <1>3, FS_Surjection
<1> QED BY <1>4, FS_CardinalityType

-----------------------------------------------------------------------------
(* The guard, over a file without the in_flight key. *)

(* What the guard writes over such a file: its suspect in flight, the rest of *)
(* its queue waiting, and the key.                                           *)
Promoted(cp, file) ==
  /\ cp.tracks /\ cp.results = file.results /\ cp.skipped = file.skipped
  /\ cp.inFlight = UntrackedSuspect(file)
  /\ cp.pending = IF file.pending = << >> THEN << >> ELSE Tail(file.pending)

LEMMA GuardPromotes ==
  ASSUME NEW file \in Checkpoints, ~ file.tracks, file.inFlight = NoTrainee,
         NEW saved \in BOOLEAN
  PROVE  /\ Promoted([Examined(file) EXCEPT !.tracks = TRUE], file)
         /\ AfterGuard(file, saved) = file \/ Promoted(AfterGuard(file, saved), file)
         /\ Promoted(ClosedOut(file), file)
<1>1. Promoted([Examined(file) EXCEPT !.tracks = TRUE], file)
  <2>1. CASE file.pending = << >>
    <3>1. Examined(file) = file /\ UntrackedSuspect(file) = NoTrainee
      BY <2>1 DEF Examined, PromoteSuspect, UntrackedSuspect
    <3> QED BY <2>1, <3>1 DEF Promoted, Checkpoints
  <2>2. CASE file.pending # << >>
    <3>1. file.pending \in Seq(Trainees)  BY DEF Checkpoints
    <3>2. UntrackedSuspect(file) = Head(file.pending) /\ Head(file.pending) # NoTrainee
      BY <2>2, <3>1, HeadApart, NoTraineeAssumption DEF UntrackedSuspect
    <3> QED BY <2>2, <3>2 DEF Examined, PromoteSuspect, Promoted, Checkpoints
  <2> QED BY <2>1, <2>2
<1>2. Examined(file) \in Checkpoints
  BY ExaminedType
<1>3. Promoted(Recorded(file), file) /\ Recorded(file) \in Checkpoints
  BY <1>1, <1>2 DEF Recorded, MarkInterrupted, Promoted, Checkpoints, Statuses
<1>4. Promoted(ClosedOut(file), file)
  BY <1>3 DEF ClosedOut, Promoted, Checkpoints
<1> QED BY <1>1, <1>3, <1>4 DEF AfterGuard

(* The suspect is somebody's name, and does not wait in the rest of the queue. *)
LEMMA SuspectApart ==
  ASSUME NEW file \in Checkpoints, ~ file.tracks, Apart(file.skipped, file.pending),
         NEW cp, Promoted(cp, file)
  PROVE  /\ Apart(cp.skipped, cp.pending)
         /\ Range(file.pending) = Range(cp.pending) \cup ({cp.inFlight} \ {NoTrainee})
         /\ cp.inFlight \notin Range(cp.skipped) \cup Range(cp.pending)
         /\ cp.inFlight \in Trainees \cup {NoTrainee}
<1>1. /\ file.pending \in Seq(Trainees) /\ file.skipped \in Seq(Trainees)
      /\ NoTrainee \notin Trainees
      /\ Range(file.pending) \subseteq Trainees /\ Range(file.skipped) \subseteq Trainees
  BY RangeOfSeq, NoTraineeAssumption DEF Checkpoints
<1>2. CASE file.pending = << >>
  <2>1. cp.pending = << >> /\ cp.inFlight = NoTrainee /\ cp.skipped = file.skipped
    BY <1>2 DEF Promoted, UntrackedSuspect
  <2> QED BY <1>1, <1>2, <2>1, EmptyApart DEF Apart
<1>3. CASE file.pending # << >>
  <2>1. cp.pending = Tail(file.pending) /\ cp.inFlight = Head(file.pending) /\ cp.skipped = file.skipped
    BY <1>3 DEF Promoted, UntrackedSuspect
  <2>2. /\ Range(file.pending) = {Head(file.pending)} \cup Range(Tail(file.pending))
        /\ NoRepeats(Tail(file.pending)) /\ Head(file.pending) \notin Range(Tail(file.pending))
        /\ Head(file.pending) \in Trainees
    BY <1>1, <1>3, HeadApart DEF Apart
  <2> QED BY <1>1, <2>1, <2>2 DEF Apart
<1> QED BY <1>2, <1>3

(* A resume over such a file runs only who was drained, and carries everyone  *)
(* else it names or keeps waiting.                                           *)
LEMMA OldResumeSplits ==
  ASSUME NEW file \in Checkpoints, Partitioned(file), ~ file.tracks
  PROVE  /\ Roster(file) = file.skipped
         /\ Who(file.results) \cup ({UntrackedSuspect(file)} \ {NoTrainee}) \subseteq Who(Carried(file))
         /\ Who(Carried(file)) \cap Range(file.skipped) = {}
<1> DEFINE cp == [Examined(file) EXCEPT !.tracks = TRUE]
           suspect == {UntrackedSuspect(file)} \ {NoTrainee}
<1>1. /\ Apart(file.skipped, file.pending) /\ file.inFlight = NoTrainee
      /\ Who(file.results) \cap (Range(file.skipped) \cup Range(file.pending)) = {}
      /\ file.skipped \in Seq(Trainees) /\ file.pending \in Seq(Trainees)
  BY DEF Partitioned, NamedBy, Checkpoints
<1>2. Promoted(cp, file)
  BY <1>1, GuardPromotes, TRUE \in BOOLEAN
<1>3. Examined(file) \in Checkpoints
  BY ExaminedType
<1>4. cp.pending = Examined(file).pending /\ cp.inFlight = Examined(file).inFlight
  BY <1>3 DEF Checkpoints
<1> HIDE DEF cp
<1>5. /\ Range(file.pending) = Range(Examined(file).pending) \cup suspect
      /\ Examined(file).inFlight = UntrackedSuspect(file)
  <2>1. Range(file.pending) = Range(cp.pending) \cup ({cp.inFlight} \ {NoTrainee})
    BY <1>1, <1>2, SuspectApart
  <2>2. cp.inFlight = UntrackedSuspect(file)
    BY <1>2 DEF Promoted
  <2> QED BY <1>4, <2>1, <2>2
<1>6. Roster(file) = file.skipped
  <2>1. Continuable(file) = file.skipped
    BY <1>2, <1>3 DEF Continuable, Examined, PromoteSuspect, Checkpoints
  <2>2. CASE UntrackedSuspect(file) = NoTrainee
    BY <2>1, <2>2 DEF Roster
  <2>3. CASE UntrackedSuspect(file) # NoTrainee
    <3>1. UntrackedSuspect(file) \notin Range(file.skipped)
      BY <1>1, <1>5, <2>3 DEF Apart
    <3>2. Without(file.skipped, UntrackedSuspect(file)) = file.skipped
      BY <1>1, <3>1, WithoutAbsent
    <3> QED BY <2>1, <2>3, <3>2 DEF Roster
  <2> QED BY <2>2, <2>3
<1>7. Who(InFlightRows(Examined(file))) = suspect
  BY <1>5 DEF InFlightRows, Who
<1>8. Who(Stranded(file)) = Range(Examined(file).pending)
  <2>1. Examined(file).pending \in Seq(Trainees)  BY <1>3 DEF Checkpoints
  <2> QED BY <2>1, RangeIndices DEF Stranded, UnvouchedQueue, Who
<1>9. Who(Carried(file)) = Who(file.results) \cup suspect \cup Range(Examined(file).pending)
  BY <1>7, <1>8, CarriedType, RowsByRange
<1> QED BY <1>1, <1>5, <1>6, <1>9 DEF Apart


-----------------------------------------------------------------------------
(* The accounts, over any file. *)

(* A file without the key, as it was found: whoever is counted in posted has a *)
(* row or is its suspect, and nothing has been sent since, because the write   *)
(* before a submission replaces it.  Those behind its suspect whom its build   *)
(* POSTed are the subject of BeforeInv below.                                 *)
OldFile ==
  /\ Partitioned(slot)
  /\ Exposed \subseteq Who(slot.results) \cup {UntrackedSuspect(slot)}
  /\ inHand = {}
  /\ pc \in {"idle", "session", "loop", "take", "finish", "closing"}

FileAccounts == IF slot.tracks THEN FileSeparates /\ FileNames ELSE OldFile

AInv ==
  TypeOK /\ FileAccounts /\ RunSeparates /\ RunNames /\ TaskInFlight /\ SentOnce

(* Over a file of this build it is BatchEngine's invariant. *)
LEMMA TrackedInv == slot.tracks => (AInv <=> TypeInv /\ Accounts)
BY DEF AInv, FileAccounts, TypeInv, Accounts, FileSeparates

LEMMA RosterTyped == ASSUME AInv PROVE Roster(slot) \in Seq(Trainees)
<1>1. slot \in Checkpoints  BY DEF AInv, TypeOK
<1>2. slot.skipped \in Seq(Trainees) /\ slot.pending \in Seq(Trainees)
  BY <1>1 DEF Checkpoints
<1>3. slot.skipped \o slot.pending \in Seq(Trainees)
  BY <1>2, ConcatApart
<1>4. CASE slot.tracks
  BY <1>1, <1>3, <1>4, ResumeSplits
<1>5. CASE ~ slot.tracks
  BY <1>1, <1>2, <1>5, OldResumeSplits DEF AInv, FileAccounts, OldFile
<1> QED BY <1>4, <1>5

(* The facts a step out of an old file starts from. *)
LEMMA OldFacts ==
  ASSUME AInv, ~ slot.tracks
  PROVE  /\ slot \in Checkpoints /\ slot.inFlight = NoTrainee
         /\ slot.skipped \in Seq(Trainees) /\ slot.pending \in Seq(Trainees)
         /\ Apart(slot.skipped, slot.pending)
         /\ Who(slot.results) \cap (Range(slot.skipped) \cup Range(slot.pending)) = {}
         /\ Exposed \subseteq Who(slot.results) \cup {UntrackedSuspect(slot)}
         /\ Exposed \subseteq Trainees /\ Range(slot.skipped) \subseteq Trainees
         /\ NoTrainee \notin Trainees /\ inHand = {} /\ ~ InTask /\ current = NoTrainee
<1>1. TypeOK /\ OldFile /\ TaskInFlight  BY DEF AInv, FileAccounts
<1>2. slot \in Checkpoints  BY <1>1 DEF TypeOK
<1> QED BY <1>1, <1>2, TypedRanges DEF OldFile, Partitioned, NamedBy, InTask, TaskInFlight, Checkpoints

(* Whatever the guard writes over an old file, nobody is lost from it. *)
LEMMA OldGuardAccounts ==
  ASSUME AInv, ~ slot.tracks, slot' = slot \/ Promoted(slot', slot),
         Exposed' \subseteq Exposed, inHand' = inHand,
         pc' \in {"idle", "session"}
  PROVE  FileAccounts'
<1>1. CASE slot' = slot
  BY <1>1 DEF AInv, FileAccounts, OldFile
<1>2. CASE Promoted(slot', slot)
  <2>1. slot'.tracks /\ slot'.results = slot.results /\ slot'.skipped = slot.skipped
        /\ slot'.inFlight = UntrackedSuspect(slot)
    BY <1>2 DEF Promoted
  <2>2. /\ Apart(slot'.skipped, slot'.pending)
        /\ Range(slot.pending) = Range(slot'.pending) \cup ({slot'.inFlight} \ {NoTrainee})
        /\ slot'.inFlight \notin Range(slot'.skipped) \cup Range(slot'.pending)
    BY <1>2, OldFacts, SuspectApart
  <2>3. FileSeparates'
    <3>1. NamedBy(slot') = Who(slot.results) \cup ({slot'.inFlight} \ {NoTrainee})
      BY <2>1 DEF NamedBy
    <3>2. NamedBy(slot') \cap (Range(slot'.skipped) \cup Range(slot'.pending)) = {}
      BY <2>1, <2>2, <3>1, OldFacts
    <3> QED BY <2>1, <2>2, <3>2 DEF FileSeparates
  <2>4. FileNames'
    BY <2>1, OldFacts DEF FileNames, NamedBy
  <2> QED BY <2>1, <2>3, <2>4 DEF FileAccounts
<1> QED BY <1>1, <1>2

(* A start over an old file. *)
LEMMA OldStartAccounts ==
  ASSUME AInv, ~ slot.tracks, TypeOK',
         StartRefused \/ StartFresh \/ StartResume \/ ResumeNothing
  PROVE  AInv'
<1>1. slot' = slot \/ Promoted(slot', slot)
  <2>1. \/ \E saved \in BOOLEAN : slot' = AfterGuard(slot, saved)
        \/ slot' = ClosedOut(slot)
    BY DEF StartRefused, StartFresh, StartResume, ResumeNothing
  <2> QED BY <2>1, OldFacts, GuardPromotes, TRUE \in BOOLEAN
<1>2. pc = "idle" /\ skipped = << >> /\ current = NoTrainee /\ inHand = {} /\ SentOnce
  BY DEF StartRefused, StartFresh, StartResume, ResumeNothing, BeginStart, AInv, TaskInFlight,
         FileAccounts, OldFile, InTask
<1>3. CASE StartRefused \/ ResumeNothing
  <2>1. pc' = "idle" /\ UNCHANGED <<current, skipped, inHand, posted>>
    BY <1>2, <1>3 DEF StartRefused, ResumeNothing, BeginStart, work, task, portal
  <2>2. FileAccounts'
    BY <1>1, <2>1, OldGuardAccounts DEF Exposed
  <2>3. RunSeparates' /\ RunNames' /\ TaskInFlight' /\ SentOnce'
    BY <1>2, <2>1 DEF RunSeparates, RunNames, TaskInFlight, InTask, SentOnce
  <2> QED BY <2>2, <2>3 DEF AInv
<1>4. CASE StartFresh
  <2>1. /\ pc' = "session" /\ UNCHANGED <<current, skipped, inHand>> /\ results' = << >>
        /\ queue' \in Seq(Trainees) /\ NoRepeats(queue') /\ ~ Refused(slot)
        /\ posted' = IF slot.status = "finished" THEN [t \in Trainees |-> 0] ELSE posted
    BY <1>4, DedupedProperties DEF StartFresh, task
  <2>2. ASSUME slot.status # "finished" PROVE Exposed = {}
    <3>1. Examined(slot).inFlight = NoTrainee /\ Doubtful(Examined(slot).results) = {}
          /\ (Examined(slot).status = "finished" \/ ~ HasSettled(Examined(slot)))
      BY <2>1 DEF Refused, BlocksStart, HasUnconfirmed, RecordsLandedWork
    <3>2. UntrackedSuspect(slot) = NoTrainee
      <4>1. Promoted([Examined(slot) EXCEPT !.tracks = TRUE], slot) /\ Examined(slot) \in Checkpoints
        BY OldFacts, GuardPromotes, ExaminedType, TRUE \in BOOLEAN
      <4>2. Examined(slot).inFlight = UntrackedSuspect(slot)
        BY <4>1 DEF Promoted, Checkpoints
      <4> QED BY <3>1, <4>2
    <3>3. Examined(slot) = slot
      BY <3>2 DEF Examined, PromoteSuspect
    <3>4. \A i \in DOMAIN slot.results : slot.results[i] \in Row
      BY OldFacts DEF Checkpoints
    <3>5. DOMAIN slot.results = {}
      BY <2>2, <3>1, <3>3, <3>4 DEF HasSettled, Doubtful, Row, Outcomes
    <3> QED BY <3>2, <3>5, OldFacts DEF Who
  <2>3. Exposed' = {} /\ \A t \in Trainees : posted'[t] = 0
    <3>1. CASE slot.status = "finished"
      BY <1>2, <2>1, <3>1 DEF Exposed
    <3>2. CASE slot.status # "finished"
      BY <1>2, <2>1, <2>2, <3>2 DEF Exposed, AInv, TypeOK
    <3> QED BY <3>1, <3>2
  <2>4. FileAccounts'
    BY <1>1, <2>1, <2>3, OldGuardAccounts
  <2>5. NoTrainee \notin Range(queue')
    BY <2>1, RangeOfSeq, NoTraineeAssumption
  <2>6. RunSeparates' /\ RunNames' /\ TaskInFlight'
    BY <1>2, <2>1, <2>3, <2>5, EmptyApart DEF RunSeparates, RunNames, TaskInFlight, InTask, Apart
  <2>7. SentOnce'
    BY <1>2, <2>1, <2>3 DEF SentOnce
  <2> QED BY <2>4, <2>6, <2>7 DEF AInv
<1>5. CASE StartResume
  <2>1. /\ pc' = "session" /\ UNCHANGED <<current, skipped, inHand, posted>>
        /\ queue' = Roster(slot) /\ results' = Carried(slot)
    BY <1>5 DEF StartResume, task, portal
  <2>2. /\ queue' = slot.skipped
        /\ Who(slot.results) \cup ({UntrackedSuspect(slot)} \ {NoTrainee}) \subseteq Who(results')
        /\ Who(results') \cap Range(slot.skipped) = {}
    BY <2>1, OldFacts, OldResumeSplits DEF AInv, FileAccounts, OldFile
  <2>3. Exposed' = Exposed
    BY <2>1 DEF Exposed
  <2>4. FileAccounts'
    BY <1>1, <2>1, <2>3, OldGuardAccounts
  <2>5. NoTrainee \notin Who(results')
    <3>1. results' \in Seq(Row)  BY <2>1, OldFacts, CarriedType
    <3>2. \A i \in DOMAIN results' : results'[i] \in Row  BY <3>1
    <3> QED BY <3>2, OldFacts DEF Who, Row
  <2>6. RunSeparates'
    BY <1>2, <2>1, <2>2, <2>5, OldFacts, EmptyApart DEF RunSeparates, Apart
  <2>7. RunNames'
    BY <1>2, <2>1, <2>2, <2>3, OldFacts DEF RunNames
  <2>8. TaskInFlight' /\ SentOnce'
    BY <1>2, <2>1 DEF TaskInFlight, InTask, SentOnce
  <2> QED BY <2>4, <2>6, <2>7, <2>8 DEF AInv
<1> QED BY <1>3, <1>4, <1>5

(* A run over an old file that writes its own record writes one of this build. *)
LEMMA OldWritten ==
  ASSUME AInv, ~ slot.tracks, pc # "idle", NEW status,
         slot' = Snapshot(status, results, skipped, queue, NoTrainee), UNCHANGED portal
  PROVE  slot'.tracks /\ FileSeparates' /\ FileNames'
<1>1. /\ Apart(skipped, queue) /\ current = NoTrainee /\ inHand = {}
      /\ Who(results) \cap (Range(skipped) \cup Range(queue)) = {}
      /\ Exposed \subseteq Who(results) \cup {NoTrainee}
      /\ Exposed \subseteq Trainees /\ NoTrainee \notin Trainees
  BY OldFacts DEF AInv, RunSeparates, RunNames
<1>2. /\ slot'.tracks /\ slot'.results = results /\ slot'.skipped = skipped
      /\ slot'.pending = queue /\ slot'.inFlight = NoTrainee
  BY DEF Snapshot
<1>3. NamedBy(slot') = Who(results)
  BY <1>2 DEF NamedBy
<1>4. Exposed' = Exposed /\ inHand' = inHand
  BY DEF Exposed, portal
<1>5. FileSeparates'
  BY <1>1, <1>2, <1>3 DEF FileSeparates
<1>6. FileNames'
  BY <1>1, <1>2, <1>3, <1>4 DEF FileNames
<1> QED BY <1>2, <1>5, <1>6

(* The end of a run, with the old file as it was or replaced. *)
LEMMA OldForgetAccounts ==
  ASSUME AInv, ~ slot.tracks, TypeOK', Forget, UNCHANGED portal,
         slot' = slot \/ (slot'.tracks /\ FileSeparates' /\ FileNames')
  PROVE  AInv'
<1>1. FileAccounts'
  <2>1. CASE slot' = slot
    BY <2>1 DEF AInv, FileAccounts, OldFile, Exposed, portal, Forget
  <2> QED BY <2>1 DEF FileAccounts
<1>2. RunSeparates' /\ RunNames' /\ TaskInFlight' /\ SentOnce'
  BY DEF AInv, Forget, RunSeparates, RunNames, TaskInFlight, InTask, SentOnce, portal
<1> QED BY <1>1, <1>2 DEF AInv

(* Draining over an old file. *)
LEMMA OldDrainAccounts ==
  ASSUME AInv, ~ slot.tracks, TypeOK', pc # "idle", Drain, pc' \in {"finish", "closing"},
         UNCHANGED <<results, current, portal>>,
         slot' = slot \/ (slot'.tracks /\ FileSeparates' /\ FileNames')
  PROVE  AInv'
<1>1. /\ NoRepeats(skipped') /\ Range(skipped') = Range(skipped) \cup Range(queue)
      /\ queue' = << >>
  BY ConcatApart DEF AInv, TypeOK, RunSeparates, Drain
<1>2. FileAccounts'
  <2>1. CASE slot' = slot
    BY <2>1 DEF AInv, FileAccounts, OldFile, Exposed, portal
  <2> QED BY <2>1 DEF FileAccounts
<1>3. RunSeparates'
  BY <1>1, EmptyApart DEF RunSeparates, AInv, Apart
<1>4. RunNames'
  BY DEF RunNames, AInv, Exposed, portal
<1>5. TaskInFlight' /\ SentOnce'
  BY OldFacts DEF TaskInFlight, SentOnce, AInv, InTask, portal
<1> QED BY <1>2, <1>3, <1>4, <1>5 DEF AInv

LEMMA OldStopAccounts ==
  ASSUME AInv, ~ slot.tracks, TypeOK', pc # "idle", NEW next \in {"finish", "closing"},
         StopAndDrain(next), UNCHANGED <<portal, starts>>
  PROVE  AInv'
<1>1. CASE Fail /\ UNCHANGED slot
  BY <1>1, OldForgetAccounts DEF Fail
<1>2. CASE /\ slot' = Snapshot("aborted", results, skipped, queue, NoTrainee)
           /\ Drain /\ pc' = next
           /\ UNCHANGED <<results, total, task, control, exit>>
  <2>1. slot'.tracks /\ FileSeparates' /\ FileNames'
    BY <1>2, OldWritten
  <2> QED BY <1>2, <2>1, OldDrainAccounts DEF task
<1> QED BY <1>1, <1>2 DEF StopAndDrain

(* The first submission over an old file comes after the write that ends it. *)
LEMMA OldTakeAccounts ==
  ASSUME AInv, ~ slot.tracks, TypeOK', Take
  PROVE  AInv'
<1>1. /\ pc = "take" /\ queue # << >> /\ current = NoTrainee /\ inHand = {}
      /\ NoRepeats(skipped) /\ NoRepeats(queue) /\ Range(skipped) \cap Range(queue) = {}
      /\ Who(results) \cap (Range(skipped) \cup Range(queue)) = {}
      /\ Exposed \subseteq Who(results) \cup {NoTrainee}
      /\ Exposed \subseteq Trainees /\ NoTrainee \notin Trainees
      /\ Range(skipped) \subseteq Trainees /\ Range(queue) \subseteq Trainees
  BY OldFacts, TypedRanges DEF Take, AInv, RunSeparates, RunNames, TaskInFlight, InTask, Apart
<1>2. /\ Head(queue) \in Trainees
      /\ Range(queue) = {Head(queue)} \cup Range(Tail(queue))
      /\ NoRepeats(Tail(queue)) /\ Head(queue) \notin Range(Tail(queue))
  BY <1>1, HeadApart DEF AInv, TypeOK
<1>3. Exposed' = Exposed /\ UNCHANGED <<results, inHand, posted>>
  BY DEF Take, Exposed, portal
<1>4. CASE /\ slot' = Snapshot("running", results, skipped, Tail(queue), Head(queue))
           /\ current' = Head(queue) /\ queue' = Tail(queue)
           /\ pc' = "admit" /\ UNCHANGED <<skipped, aborted>>
  <2>1. /\ slot'.tracks /\ slot'.results = results /\ slot'.skipped = skipped
        /\ slot'.pending = Tail(queue) /\ slot'.inFlight = Head(queue)
    BY <1>4 DEF Snapshot
  <2>2. NamedBy(slot') = Who(results) \cup {Head(queue)}
    BY <1>1, <1>2, <2>1 DEF NamedBy
  <2>3. /\ Apart(skipped, Tail(queue)) /\ Head(queue) \notin Who(results)
        /\ (Who(results) \cup {Head(queue)}) \cap (Range(skipped) \cup Range(Tail(queue))) = {}
    BY <1>1, <1>2 DEF Apart
  <2>4. FileSeparates' /\ RunSeparates'
    BY <1>3, <1>4, <2>1, <2>2, <2>3 DEF FileSeparates, RunSeparates
  <2>5. FileNames' /\ RunNames'
    BY <1>1, <1>3, <1>4, <2>1, <2>2 DEF FileNames, RunNames
  <2>6. TaskInFlight'
    BY <1>2, <1>4, <2>1 DEF TaskInFlight, InTask
  <2>7. Head(queue) \notin Exposed
    BY <1>1, <1>2
  <2>8. SentOnce'
    BY <1>1, <1>3, <1>4, <2>7 DEF SentOnce, AInv
  <2> QED BY <2>1, <2>4, <2>5, <2>6, <2>8 DEF AInv, FileAccounts
<1>5. CASE Drain /\ pc' = "finish" /\ UNCHANGED <<slot, current>>
  BY <1>1, <1>3, <1>5, OldDrainAccounts DEF portal
<1> QED BY <1>4, <1>5 DEF Take

(* Every action over an old file. *)
LEMMA OldStep == ASSUME AInv, ~ slot.tracks, TypeOK', [Next]_vars PROVE AInv'
<1>1. CASE StartRefused \/ StartFresh \/ StartResume \/ ResumeNothing
  BY <1>1, OldStartAccounts
<1>2. CASE EstablishSession \/ QueueDone \/ BoundaryPass \/ TakeStopped \/ Complete
  <2>1. CASE Forget
    BY <1>2, <2>1, OldForgetAccounts
    DEF EstablishSession, QueueDone, BoundaryPass, TakeStopped, Complete
  <2>2. CASE ~ Forget
    <3>1. /\ UNCHANGED <<slot, queue, results, skipped, current, inHand, posted>>
          /\ pc # "idle" /\ pc' \in {"loop", "finish", "take", "closing"}
          /\ pc' = "take" => queue # << >>
      BY <1>2, <2>2 DEF EstablishSession, QueueDone, BoundaryPass, TakeStopped, Complete, Fail,
                        work, task, portal
    <3> QED BY <3>1 DEF AInv, FileAccounts, OldFile, RunSeparates, RunNames, TaskInFlight,
                        SentOnce, InTask, Exposed
  <2> QED BY <2>1, <2>2
<1>3. CASE BoundaryStop \/ LateStop
  BY <1>3, OldStopAccounts DEF BoundaryStop, LateStop
<1>4. CASE BoundaryPause
  <2>1. CASE Fail /\ UNCHANGED slot
    BY <1>4, <2>1, OldForgetAccounts DEF BoundaryPause, Fail
  <2>2. CASE ~ (Fail /\ UNCHANGED slot)
    <3>1. /\ slot' = Snapshot("paused", results, skipped, queue, NoTrainee)
          /\ pc = "loop" /\ pc' = "paused" /\ queue # << >>
          /\ UNCHANGED <<queue, results, skipped, current, inHand, posted>>
      BY <1>4, <2>2 DEF BoundaryPause, work, task, portal
    <3>2. slot'.tracks /\ FileSeparates' /\ FileNames'
      BY <3>1, OldWritten DEF portal
    <3> QED BY <3>1, <3>2 DEF AInv, FileAccounts, RunSeparates, RunNames, TaskInFlight,
                              SentOnce, InTask, Exposed
  <2> QED BY <2>1, <2>2
<1>5. CASE Take
  BY <1>5, OldTakeAccounts
<1>6. CASE Close
  <2>1. slot' = slot \/ slot' = Snapshot(IF aborted THEN "aborted" ELSE "finished",
                                         results, skipped, queue, NoTrainee)
    BY <1>6 DEF Close, Terminal, Save
  <2>2. slot' = slot \/ (slot'.tracks /\ FileSeparates' /\ FileNames')
    BY <1>6, <2>1, OldWritten DEF Close, Terminal
  <2> QED BY <1>6, <2>2, OldForgetAccounts DEF Close, Terminal
<1>7. CASE Pause \/ Resume \/ Stop \/ Rest \/ UNCHANGED vars
  BY <1>7
  DEF Pause, Resume, Stop, Rest, vars, work, task, portal, AInv, FileAccounts, OldFile,
      RunSeparates, RunNames, TaskInFlight, SentOnce, InTask, Exposed
<1>8. CASE Crash
  BY <1>8, OldForgetAccounts DEF Crash
<1>9. ~ (PausedStop \/ PausedResume \/ AdmitStopped \/ Admit \/ Send \/ TransportError \/ BackoffOver
          \/ Continue \/ AbortBatch \/ AbortStopped
          \/ (\E resp \in Replies : ReplySettles(resp) \/ ReplyRetries(resp))
          \/ \E t \in Trainees : WorkerPosts(t))
  BY DEF AInv, FileAccounts, OldFile, PausedStop, PausedResume, AdmitStopped, Admit, Send,
         TransportError, BackoffOver, Continue, AbortBatch, AbortStopped, ReplySettles, ReplyRetries, WorkerPosts
<1> QED
  BY <1>1, <1>2, <1>3, <1>4, <1>5, <1>6, <1>7, <1>8, <1>9 DEF Next, EngineStep

(* An old file stays as it was found until it is replaced. *)
LEMMA OldReplaced ==
  ASSUME AInv, ~ slot.tracks, [Next]_vars
  PROVE  slot' = slot \/ slot'.tracks
<1>1. CASE StartRefused \/ StartFresh \/ StartResume \/ ResumeNothing
  <2>1. \/ \E saved \in BOOLEAN : slot' = AfterGuard(slot, saved)
        \/ slot' = ClosedOut(slot)
    BY <1>1 DEF StartRefused, StartFresh, StartResume, ResumeNothing
  <2> QED BY <2>1, OldFacts, GuardPromotes, TRUE \in BOOLEAN DEF Promoted
<1>2. CASE BoundaryStop \/ PausedStop \/ AbortStopped \/ LateStop
  BY <1>2 DEF BoundaryStop, PausedStop, AbortStopped, LateStop, StopAndDrain, Snapshot
<1>3. CASE BoundaryPause \/ PausedResume \/ Take \/ Close
  BY <1>3 DEF BoundaryPause, PausedResume, Take, Close, Terminal, Save, Snapshot
<1>4. ~ (AdmitStopped \/ TransportError \/ \E resp \in Replies : ReplySettles(resp))
  BY DEF AdmitStopped, TransportError, ReplySettles, AInv, FileAccounts, OldFile
<1>5. CASE \/ EstablishSession \/ QueueDone \/ BoundaryPass \/ TakeStopped \/ Admit \/ Send
           \/ BackoffOver \/ Continue \/ AbortBatch \/ Complete \/ Pause \/ Resume \/ Stop \/ Crash \/ Rest
           \/ (\E resp \in Replies : ReplyRetries(resp)) \/ (\E t \in Trainees : WorkerPosts(t))
           \/ UNCHANGED vars
  BY <1>5 DEF EstablishSession, QueueDone, BoundaryPass, TakeStopped, Admit, Send, BackoffOver,
              Continue, AbortBatch, Complete, Pause, Resume, Stop, Crash, Rest, ReplyRetries,
              WorkerPosts, vars
<1> QED BY <1>1, <1>2, <1>3, <1>4, <1>5 DEF Next, EngineStep

(* Every action over any file. *)
LEMMA AStep == ASSUME AInv, [Next]_vars PROVE AInv' /\ (slot' = slot \/ slot'.tracks)
<1>1. TypeOK' /\ StaysTracked
  BY RosterTyped, TypesKept DEF AInv
<1>2. CASE slot.tracks
  <2>1. TypeInv /\ Accounts  BY <1>2, TrackedInv
  <2>2. TypeInv' /\ slot'.tracks  BY <1>1, <1>2 DEF TypeInv, StaysTracked
  <2>3. Accounts'  BY <2>1, <2>2, AccountsStep
  <2> QED BY <2>2, <2>3 DEF AInv, FileAccounts, TypeInv, Accounts
<1>3. CASE ~ slot.tracks
  BY <1>1, <1>3, OldStep, OldReplaced
<1> QED BY <1>2, <1>3

(* Any file that a build may have left is a state to start from. *)
LEMMA AStart == AInit => AInv
<1> SUFFICES ASSUME AInit PROVE AInv  OBVIOUS
<1>1. /\ slot \in Checkpoints /\ Partitioned(slot)
      /\ pc = "idle" /\ skipped = << >> /\ current = NoTrainee /\ inHand = {}
      /\ posted \in [Trainees -> {0, 1}]
      /\ \A t \in Trainees : posted[t] = 1 => t \in NamedBy(slot) \cup {UntrackedSuspect(slot)}
  BY FilesAssumption DEF AInit
<1>2. TypeOK
  <2>1. queue \in Seq(Trainees) /\ results \in Seq(Row) /\ skipped \in Seq(Trainees)
    BY EmptySeq DEF AInit
  <2>2. halt \in BOOLEAN /\ aborted \in BOOLEAN /\ pauseRequested \in BOOLEAN /\ stopRequested \in BOOLEAN
    BY Zenon DEF AInit
  <2>3. starts \in 0 .. MaxStarts /\ posted \in [Trainees -> Nat] /\ inHand \in SUBSET Trainees
    BY <1>1, MaxStartsAssumption DEF AInit
  <2>4. total \in Nat /\ attempts \in Nat
        /\ exit \in {"none", "clean", "failed", "attention"}
    BY DEF AInit
  <2> QED BY <1>1, <2>1, <2>2, <2>3, <2>4 DEF TypeOK
<1>3. Exposed \subseteq NamedBy(slot) \cup {UntrackedSuspect(slot)} /\ Exposed \subseteq Trainees
  BY <1>1 DEF Exposed
<1>4. FileAccounts
  <2>1. CASE slot.tracks
    <3>1. UntrackedSuspect(slot) = NoTrainee  BY <2>1 DEF UntrackedSuspect
    <3>2. Exposed \subseteq NamedBy(slot)  BY <1>3, <3>1, NoTraineeAssumption
    <3> QED BY <1>1, <2>1, <3>2 DEF FileAccounts, FileSeparates, FileNames, Partitioned
  <2>2. CASE ~ slot.tracks
    BY <1>1, <1>3, <2>2 DEF FileAccounts, OldFile, Partitioned, NamedBy
  <2> QED BY <2>1, <2>2
<1>5. RunSeparates /\ RunNames /\ TaskInFlight /\ SentOnce
  BY <1>1 DEF RunSeparates, RunNames, TaskInFlight, InTask, SentOnce
<1> QED BY <1>2, <1>4, <1>5 DEF AInv

(* Each action of RefusalAdvice is one of BatchEngine's. *)
LEMMA AdviceSteps == [ANext]_avars => [Next]_vars
<1>1. ASSUME ANext PROVE Next \/ UNCHANGED vars
  BY <1>1 DEF ANext, ARefused, AFresh, AResume, AResumeNothing, ASession, AStop, APause, AClose, Close,
              AEnd, ACrash, AOther, Next, EngineStep
<1>2. UNCHANGED avars => UNCHANGED vars
  BY DEF avars
<1> QED BY <1>1, <1>2

(* The accounts of this build's POSTs, and of the suspect's, hold in every      *)
(* state, whichever build left the file and whoever waits in it: everyone sent *)
(* has a row, is in flight or is the suspect, and nobody is sent twice.        *)
THEOREM AdviceInductive == ASpec => []AInv
<1>1. AInit => AInv  BY AStart
<1>2. AInv /\ [ANext]_avars => AInv'  BY AStep, AdviceSteps
<1> QED BY <1>1, <1>2, PTL DEF ASpec

(* Whichever build left the file a first start finds, nobody whom that file     *)
(* names as sent, nor the suspect of one without the in_flight key, is POSTed  *)
(* again, and this build POSTs nobody twice.  It says nothing of those behind  *)
(* the suspect whom that older build POSTed: PastKept below does.              *)
THEOREM OnceOverAnyFile == ASpec => []AtMostOnce
<1>1. AInv => AtMostOnce  BY DEF AInv, SentOnce, AtMostOnce
<1> QED BY <1>1, AdviceInductive, PTL

-----------------------------------------------------------------------------
(* Rows, over any file. *)

LEMMA GuardKeepsRows ==
  ASSUME NEW file \in Checkpoints, NEW saved \in BOOLEAN
  PROVE  AfterGuard(file, saved).results = file.results /\ ClosedOut(file).results = file.results
<1>1. Examined(file) \in Checkpoints /\ Examined(file).results = file.results
  BY ExaminedType
<1>2. Recorded(file).results = file.results /\ Recorded(file) \in Checkpoints
  BY <1>1 DEF Recorded, MarkInterrupted, Checkpoints, Statuses
<1> QED BY <1>2 DEF AfterGuard, ClosedOut, Checkpoints

(* The steps that are no start. *)
ARun ==
  ASession \/ AStop \/ APause \/ AClose \/ AEnd \/ ACrash \/ AOther \/ UNCHANGED avars

LEMMA StepIsStartOrRun ==
  [ANext]_avars => ARefused \/ AFresh \/ AResume \/ AResumeNothing \/ ARun
BY DEF ANext, ARun

LEMMA RunKeepsPast == ARun => UNCHANGED <<told, kept, before, erased, owed>>
BY DEF ARun, ASession, AStop, APause, AClose, AEnd, ACrash, AOther, avars, past

(* Between runs nothing but a start does anything to the batch. *)
LEMMA IdleOthers ==
  ASSUME pc = "idle", ARun
  PROVE  UNCHANGED <<pc, queue, slot>> /\ ~ (StartFresh \/ StartResume)
<1>1. ASSUME AEnd \/ UNCHANGED avars PROVE UNCHANGED <<pc, queue, slot>>
  BY <1>1 DEF AEnd, avars, vars, work
<1>2. ASSUME ACrash PROVE UNCHANGED <<pc, queue, slot>>
  BY <1>2 DEF ACrash, Crash, vars, work
<1>3. ~ (ASession \/ AStop \/ APause \/ AClose)
  BY DEF ASession, AStop, APause, AClose, EstablishSession, BoundaryStop, BoundaryPause, PausedStop,
         PausedResume, AbortStopped, LateStop, Terminal
<1>4. ASSUME AOther PROVE UNCHANGED <<pc, queue, slot>>
  <2>1. Rest \/ \E t \in Trainees : WorkerPosts(t)
    BY <1>4 DEF AOther, QueueDone, BoundaryPass, TakeStopped, Take, AdmitStopped, Admit, Send,
                ReplySettles, ReplyRetries, TransportError, BackoffOver, Continue, AbortBatch,
                Complete, Pause, Resume, Stop, Controllable
  <2> QED BY <2>1 DEF Rest, WorkerPosts, vars, work
<1>5. UNCHANGED <<pc, queue, slot>>
  BY <1>1, <1>2, <1>3, <1>4 DEF ARun
<1> QED BY <1>5 DEF StartFresh, StartResume

LEMMA RunStartsNothing == ASSUME ARun PROVE ~ (StartFresh \/ StartResume)
BY IdleOthers DEF StartFresh, StartResume, BeginStart

(* What a step that is no start does to the rows of the run and of the file:  *)
(* the run's only grow, and what is written are the run's.                     *)
RowsGrow ==
  /\ \/ slot'.results = slot.results /\ (pc = "idle" \/ slot' = slot)
     \/ pc # "idle" /\ slot'.results = results
     \/ pc # "idle" /\ slot'.results = results' /\ Range(results) \subseteq Range(results')
  /\ pc' # "idle" => pc # "idle" /\ Range(results) \subseteq Range(results')

LEMMA SettleGrows ==
  ASSUME AInv, pc # "idle", NEW kind, NEW aborting, Settle(kind, aborting)
  PROVE  RowsGrow
<1> DEFINE r == [who |-> current, outcome |-> kind]
<1>1. Range(results) \subseteq Range(results')
  <2>1. CASE kind = "skipped"  BY <2>1 DEF Settle
  <2>2. CASE kind # "skipped"
    <3>1. results' = Append(results, r)  BY <2>2 DEF Settle
    <3>2. results \in Seq(Row)  BY DEF AInv, TypeOK
    <3>3. results \in Seq(Row \cup {r}) /\ r \in Row \cup {r}  BY <3>2, SeqDef
    <3> HIDE DEF r
    <3> QED BY <3>1, <3>3, AppendApart
  <2> QED BY <2>1, <2>2
<1>2. slot' = slot \/ slot'.results = results'
  BY DEF Settle, Save, Snapshot
<1> QED BY <1>1, <1>2 DEF RowsGrow

LEMMA RowsStep ==
  ASSUME AInv, [Next]_vars, ~ (StartFresh \/ StartResume)
  PROVE  RowsGrow
<1>1. CASE StartRefused \/ ResumeNothing
  <2>1. slot'.results = slot.results
    <3>1. \/ \E saved \in BOOLEAN : slot' = AfterGuard(slot, saved)
          \/ slot' = ClosedOut(slot)
      BY <1>1 DEF StartRefused, ResumeNothing
    <3>2. slot \in Checkpoints  BY DEF AInv, TypeOK
    <3> QED BY <3>1, <3>2, GuardKeepsRows
  <2> QED BY <1>1, <2>1 DEF StartRefused, ResumeNothing, BeginStart, RowsGrow
<1>2. CASE BoundaryStop \/ PausedStop \/ AbortStopped \/ LateStop
  <2>1. pc # "idle"
    BY <1>2 DEF BoundaryStop, PausedStop, AbortStopped, LateStop
  <2>2. /\ slot' = slot \/ slot'.results = results
        /\ pc' = "idle" \/ results' = results
    BY <1>2 DEF BoundaryStop, PausedStop, AbortStopped, LateStop, StopAndDrain, Snapshot, Fail, Forget
  <2> QED BY <2>1, <2>2 DEF RowsGrow
<1>3. CASE BoundaryPause \/ PausedResume \/ Take \/ Close
  <2>1. pc # "idle"
    BY <1>3 DEF BoundaryPause, PausedResume, Take, Close, Terminal
  <2>2. /\ slot' = slot \/ slot'.results = results
        /\ pc' = "idle" \/ results' = results
    BY <1>3 DEF BoundaryPause, PausedResume, Take, Close, Terminal, Save, Snapshot, Fail, Forget, work
  <2> QED BY <2>1, <2>2 DEF RowsGrow
<1>4. CASE AdmitStopped \/ TransportError \/ \E resp \in Replies : ReplySettles(resp)
  BY <1>4, SettleGrows DEF AdmitStopped, TransportError, ReplySettles
<1>5. CASE \/ EstablishSession \/ QueueDone \/ BoundaryPass \/ TakeStopped \/ Admit \/ Send
           \/ BackoffOver \/ Continue \/ AbortBatch \/ Complete \/ Crash
           \/ \E resp \in Replies : ReplyRetries(resp)
  <2>1. pc # "idle" /\ slot' = slot /\ (pc' = "idle" \/ results' = results)
    BY <1>5 DEF EstablishSession, QueueDone, BoundaryPass, TakeStopped, Admit, Send, BackoffOver,
                Continue, AbortBatch, Complete, Crash, ReplyRetries, Fail, Forget, work
  <2> QED BY <2>1 DEF RowsGrow
<1>6. CASE Pause \/ Resume \/ Stop \/ Rest \/ (\E t \in Trainees : WorkerPosts(t)) \/ UNCHANGED vars
  <2>1. slot' = slot /\ pc' = pc /\ results' = results
    BY <1>6 DEF Pause, Resume, Stop, Rest, WorkerPosts, vars, work
  <2> QED BY <2>1 DEF RowsGrow
<1> QED BY <1>1, <1>2, <1>3, <1>4, <1>5, <1>6 DEF Next, EngineStep

(* A start that runs leaves the rows of the file, and a resume takes them over. *)
LEMMA StartRows ==
  ASSUME AInv, StartFresh \/ StartResume
  PROVE  /\ slot'.results = slot.results /\ pc' = "session"
         /\ StartFresh => results' = << >> /\ Doubtful(slot.results) = {}
         /\ StartResume => /\ results' = Carried(slot)
                           /\ Range(slot.results) \subseteq Range(results')
<1>1. slot \in Checkpoints  BY DEF AInv, TypeOK
<1>2. slot'.results = slot.results
  <2>1. \E saved \in BOOLEAN : slot' = AfterGuard(slot, saved)
    BY DEF StartFresh, StartResume
  <2> QED BY <1>1, <2>1, GuardKeepsRows
<1>3. StartFresh => results' = << >> /\ Doubtful(slot.results) = {}
  BY <1>1, ExaminedType DEF StartFresh, Refused, BlocksStart, HasUnconfirmed
<1>4. StartResume => results' = Carried(slot) /\ Range(slot.results) \subseteq Range(results')
  BY <1>1, CarriedType DEF StartResume
<1> QED BY <1>2, <1>3, <1>4 DEF StartFresh, StartResume

(* What a refusal counted as settled is in the file, and in the run that will   *)
(* rewrite it.                                                               *)
KeptInv ==
  /\ kept \subseteq SettledIn(slot.results)
  /\ pc # "idle" => kept \subseteq SettledIn(results)

LEMMA KeptStep == ASSUME AInv, KeptInv, [ANext]_avars PROVE KeptInv'
<1>1. [Next]_vars  BY AdviceSteps
<1>2. CASE AFresh
  BY <1>2 DEF AFresh, KeptInv
<1>3. CASE AResume
  <2>1. slot'.results = slot.results /\ Range(slot.results) \subseteq Range(results') /\ kept' = kept
    BY <1>3, StartRows DEF AResume
  <2> QED BY <2>1, MoreRows DEF KeptInv
<1>4. CASE ARefused
  <2>1. slot \in Checkpoints  BY DEF AInv, TypeOK
  <2>2. kept' = SettledIn(slot.results)
    BY <1>4, <2>1, ExaminedType, SettledByRange DEF ARefused
  <2>3. slot'.results = slot.results /\ pc' = "idle"
    BY <1>4, <2>1, GuardKeepsRows DEF ARefused, StartRefused, BeginStart
  <2> QED BY <2>2, <2>3 DEF KeptInv
<1>5. CASE AResumeNothing \/ ARun
  <2>1. kept' = kept
    BY <1>5, RunKeepsPast DEF AResumeNothing
  <2>2. ~ (StartFresh \/ StartResume)
    BY <1>5, RunStartsNothing
    DEF AResumeNothing, ResumeNothing, BeginStart, StartFresh, StartResume
  <2>3. RowsGrow  BY <1>1, <2>2, RowsStep
  <2> QED BY <2>1, <2>3, MoreRows DEF KeptInv, RowsGrow
<1> QED BY <1>2, <1>3, <1>4, <1>5, StepIsStartOrRun

(* No step takes a name off the doubt of the file, whatever file it is. *)
LEMMA CarriesStep == ASSUME AInv, RunCarries, [Next]_vars PROVE DoubtKept
<1>1. CASE StartFresh \/ StartResume
  BY <1>1, StartRows, MoreRows DEF RunCarries, DoubtKept
<1>2. CASE ~ (StartFresh \/ StartResume)
  BY <1>2, RowsStep, MoreRows DEF RowsGrow, RunCarries, DoubtKept
<1> QED BY <1>1, <1>2

(* An unconfirmed row outlives every rewrite, over any file too.               *)
THEOREM DoubtSurvivesAnyFile == ASpec => UnconfirmedSurvives
<1>1. AInit => RunCarries
  BY DEF AInit, RunCarries
<1>2. AInv /\ RunCarries /\ [ANext]_avars => RunCarries' /\ [Doubtful(slot.results) \subseteq Doubtful(slot'.results)]_vars
  BY CarriesStep, AdviceSteps DEF DoubtKept
<1> QED BY <1>1, <1>2, AdviceInductive, PTL DEF ASpec, UnconfirmedSurvives

-----------------------------------------------------------------------------
(* Whom an older build may have POSTed behind the suspect of its queue. *)

Unvouched == before \ erased

(* Until a start gives their file the key they wait where they waited, or stand *)
(* in doubt in the file and in the run that rewrites it, and nobody POSTs them. *)
BeforeInv ==
  /\ Unvouched \subseteq Doubtful(slot.results) \cup Behind(slot)
  /\ pc # "idle" => Unvouched \subseteq Doubtful(results)
  /\ Unvouched \cap Exposed = {}
  /\ ~ slot.tracks => erased = {}

(* Whoever waits behind the suspect of a file is named neither by its rows nor  *)
(* as the suspect, and a resume of that file carries him unconfirmed.          *)
LEMMA BehindIsCarried ==
  ASSUME NEW file \in Checkpoints, Partitioned(file)
  PROVE  /\ Behind(file) \subseteq Doubtful(Carried(file))
         /\ Behind(file) \cap (NamedBy(file) \cup {UntrackedSuspect(file)}) = {}
<1>1. CASE file.tracks
  BY <1>1 DEF Behind
<1>2. CASE ~ file.tracks
  <2>1. /\ Apart(file.skipped, file.pending) /\ file.inFlight = NoTrainee
        /\ NamedBy(file) \cap Range(file.pending) = {}
        /\ Behind(file) = Range(file.pending) \ {UntrackedSuspect(file)}
    BY <1>2 DEF Partitioned, Behind
  <2>2. Behind(file) \cap (NamedBy(file) \cup {UntrackedSuspect(file)}) = {}
    BY <2>1
  <2> DEFINE cp == [Examined(file) EXCEPT !.tracks = TRUE]
  <2>3. Promoted(cp, file) /\ Examined(file) \in Checkpoints
    BY <1>2, <2>1, GuardPromotes, ExaminedType, TRUE \in BOOLEAN
  <2>4. cp.pending = Examined(file).pending /\ cp.inFlight = UntrackedSuspect(file)
    BY <2>3 DEF Promoted, Checkpoints
  <2> HIDE DEF cp
  <2>5. Range(file.pending) = Range(cp.pending) \cup ({cp.inFlight} \ {NoTrainee})
    BY <1>2, <2>1, <2>3, SuspectApart
  <2>6. Behind(file) \subseteq Range(Examined(file).pending)
    BY <2>1, <2>4, <2>5
  <2>7. Doubtful(Stranded(file)) = Range(Examined(file).pending)
    <3>1. Examined(file).pending \in Seq(Trainees)  BY <2>3 DEF Checkpoints
    <3> QED BY <1>2, <3>1, RangeIndices DEF Stranded, UnvouchedQueue, Doubtful
  <2>8. Doubtful(Stranded(file)) \subseteq Doubtful(Carried(file))
    BY CarriedType, MoreRows
  <2> QED BY <2>2, <2>6, <2>7, <2>8
<1> QED BY <1>1, <1>2

LEMMA FileIsPartitioned == ASSUME AInv PROVE Partitioned(slot) /\ slot \in Checkpoints
BY DEF AInv, TypeOK, FileAccounts, OldFile, FileSeparates, Partitioned

(* The guard's rewrite of an old file makes those behind its suspect wait.     *)
LEMMA StartKeepsBefore ==
  ASSUME AInv, BeforeInv, StartRefused \/ StartFresh \/ StartResume \/ ResumeNothing,
         AStarts, before' \subseteq before, Exposed' \subseteq Exposed
  PROVE  /\ Unvouched' \subseteq Doubtful(slot'.results) \cup Behind(slot')
         /\ Unvouched' \subseteq Unvouched /\ Unvouched' \cap Exposed' = {}
         /\ ~ slot'.tracks => erased' = {}
<1>1. slot \in Checkpoints  BY FileIsPartitioned
<1>2. \/ \E saved \in BOOLEAN : slot' = AfterGuard(slot, saved)
      \/ slot' = ClosedOut(slot)
  BY DEF StartRefused, StartFresh, StartResume, ResumeNothing
<1>3. slot'.results = slot.results
  BY <1>1, <1>2, GuardKeepsRows
<1>4. erased' = IF slot.tracks \/ ~ slot'.tracks THEN erased ELSE Behind(slot)
  BY DEF AStarts
<1>5. CASE slot.tracks
  <2>1. slot'.tracks
    BY <1>1, <1>2, <1>5, GuardKeepsGroups, TRUE \in BOOLEAN DEF SameGroups
  <2> QED BY <1>3, <1>4, <1>5, <2>1 DEF BeforeInv, Unvouched, Behind
<1>6. CASE ~ slot.tracks
  <2>1. slot' = slot \/ Promoted(slot', slot)
    BY <1>2, <1>6, OldFacts, GuardPromotes
  <2>2. CASE slot' = slot
    BY <1>4, <1>6, <2>2 DEF BeforeInv, Unvouched
  <2>3. CASE Promoted(slot', slot)
    <3>1. slot'.tracks /\ erased' = Behind(slot) /\ erased = {}
      BY <1>4, <1>6, <2>3 DEF Promoted, BeforeInv
    <3> QED BY <1>3, <3>1 DEF BeforeInv, Unvouched
  <2> QED BY <2>1, <2>2, <2>3
<1> QED BY <1>5, <1>6

(* A plain start is let through only where nobody is left in doubt. *)
LEMMA FreshFindsNobody ==
  ASSUME AInv, StartFresh, slot.status # "finished"
  PROVE  Doubtful(slot.results) \cup Behind(slot) = {}
<1>1. slot \in Checkpoints  BY FileIsPartitioned
<1>2. /\ Examined(slot).inFlight = NoTrainee /\ Doubtful(Examined(slot).results) = {}
      /\ Examined(slot).results = slot.results
  BY <1>1, ExaminedType DEF StartFresh, Refused, BlocksStart, HasUnconfirmed
<1>3. Behind(slot) = {}
  <2>1. CASE slot.tracks  BY <2>1 DEF Behind
  <2>2. CASE ~ slot.tracks
    <3>1. Promoted([Examined(slot) EXCEPT !.tracks = TRUE], slot) /\ Examined(slot) \in Checkpoints
      BY <2>2, OldFacts, GuardPromotes, ExaminedType, TRUE \in BOOLEAN
    <3>2. UntrackedSuspect(slot) = NoTrainee
      BY <1>2, <3>1 DEF Promoted, Checkpoints
    <3>3. slot.pending = << >>
      <4> SUFFICES ASSUME slot.pending # << >> PROVE FALSE  OBVIOUS
      <4>1. UntrackedSuspect(slot) = Head(slot.pending)  BY <2>2 DEF UntrackedSuspect
      <4>2. Head(slot.pending) \in Trainees  BY <2>2, OldFacts, HeadApart
      <4> QED BY <3>2, <4>1, <4>2, NoTraineeAssumption
    <3> QED BY <2>2, <3>3, EmptyApart DEF Behind
  <2> QED BY <2>1, <2>2
<1> QED BY <1>2, <1>3

(* A step that is no start sends nobody but the dequeued trainee, who is not   *)
(* in doubt.                                                                 *)
LEMMA RunSendsCurrent ==
  ASSUME AInv, ARun
  PROVE  \/ Exposed' \subseteq Exposed
         \/ pc = "admitted" /\ Exposed' \subseteq Exposed \cup {current} /\ current \notin Who(results)
<1>1. CASE AOther
  <2>1. CASE Send
    BY <2>1 DEF Send, Exposed, AInv, RunSeparates
  <2>2. CASE \E t \in Trainees : WorkerPosts(t)
    <3>1. PICK t \in Trainees : WorkerPosts(t)  BY <2>2
    <3>2. posted \in [Trainees -> Nat]  BY DEF AInv, TypeOK
    <3> QED BY <3>1, <3>2 DEF WorkerPosts, Exposed
  <2>3. CASE \E resp \in Replies : ReplySettles(resp) \/ ReplyRetries(resp)
    BY <2>3 DEF ReplySettles, ReplyRetries, Settle, Exposed
  <2>4. CASE \/ QueueDone \/ BoundaryPass \/ TakeStopped \/ Take \/ AdmitStopped \/ Admit
             \/ TransportError \/ BackoffOver \/ Continue \/ AbortBatch \/ Complete
             \/ Pause \/ Resume \/ Stop \/ Rest
    BY <2>4 DEF QueueDone, BoundaryPass, TakeStopped, Take, AdmitStopped, Admit, Settle, TransportError,
                BackoffOver, Continue, AbortBatch, Complete, Pause, Resume, Stop, Rest, vars, portal, Exposed
  <2> QED BY <1>1, <2>1, <2>2, <2>3, <2>4 DEF AOther
<1>2. CASE ASession \/ AStop \/ APause \/ AClose \/ AEnd \/ ACrash \/ UNCHANGED avars
  BY <1>2 DEF ASession, AStop, APause, AClose, AEnd, ACrash, avars, EstablishSession, BoundaryStop,
              PausedStop, AbortStopped, LateStop, BoundaryPause, PausedResume, Terminal, Crash,
              vars, portal, Exposed
<1> QED BY <1>1, <1>2 DEF ARun

LEMMA BeforeStep == ASSUME AInv, BeforeInv, [ANext]_avars PROVE BeforeInv'
<1>n. [Next]_vars  BY AdviceSteps
<1>1. CASE ARefused \/ AResumeNothing
  <2>1. /\ AStarts /\ before' = before /\ pc' = "idle" /\ Exposed' = Exposed
        /\ StartRefused \/ ResumeNothing
    BY <1>1 DEF ARefused, AResumeNothing, StartRefused, ResumeNothing, BeginStart, portal, Exposed
  <2> QED BY <2>1, StartKeepsBefore DEF BeforeInv
<1>2. CASE AFresh
  <2>1. /\ AStarts /\ StartFresh
        /\ before' = IF slot.status = "finished" THEN {} ELSE before
        /\ posted' = IF slot.status = "finished" THEN [t \in Trainees |-> 0] ELSE posted
        /\ inHand' = inHand
    BY <1>2 DEF AFresh, StartFresh
  <2>2. Exposed' \subseteq Exposed  BY <2>1 DEF Exposed
  <2>3. before' \subseteq before  BY <2>1
  <2>4. /\ Unvouched' \subseteq Doubtful(slot'.results) \cup Behind(slot')
        /\ Unvouched' \subseteq Unvouched /\ Unvouched' \cap Exposed' = {}
        /\ ~ slot'.tracks => erased' = {}
    BY <2>1, <2>2, <2>3, StartKeepsBefore
  <2>5. Unvouched' = {}
    <3>1. CASE slot.status = "finished"  BY <2>1, <3>1 DEF Unvouched
    <3>2. CASE slot.status # "finished"
      BY <2>1, <2>4, <3>2, FreshFindsNobody DEF BeforeInv
    <3> QED BY <3>1, <3>2
  <2> QED BY <2>4, <2>5 DEF BeforeInv
<1>3. CASE AResume
  <2>1. AStarts /\ StartResume /\ before' = before /\ Exposed' = Exposed
    BY <1>3 DEF AResume, StartResume, portal, Exposed
  <2>2. /\ Unvouched' \subseteq Doubtful(slot'.results) \cup Behind(slot')
        /\ Unvouched' \subseteq Unvouched /\ Unvouched' \cap Exposed' = {}
        /\ ~ slot'.tracks => erased' = {}
    BY <2>1, StartKeepsBefore
  <2>3. Doubtful(slot.results) \cup Behind(slot) \subseteq Doubtful(results')
    BY <2>1, StartRows, MoreRows, FileIsPartitioned, BehindIsCarried
  <2> QED BY <2>2, <2>3 DEF BeforeInv
<1>4. CASE ARun
  <2>1. Unvouched' = Unvouched /\ erased' = erased
    BY <1>4, RunKeepsPast DEF Unvouched
  <2>2. RowsGrow
    BY <1>n, <1>4, RunStartsNothing, RowsStep
  <2>3. pc' # "idle" => Unvouched \subseteq Doubtful(results')
    BY <2>2, MoreRows DEF RowsGrow, BeforeInv
  <2>4. Unvouched \cap Exposed' = {}
    <3>1. Doubtful(results) \subseteq Who(results)  BY DEF Doubtful, Who
    <3> QED BY <1>4, <3>1, RunSendsCurrent DEF BeforeInv
  <2>5. slot' = slot \/ pc # "idle"
    BY <1>4, IdleOthers
  <2>6. Unvouched \subseteq Doubtful(slot'.results) \cup Behind(slot')
    <3>1. CASE slot' = slot  BY <3>1 DEF BeforeInv
    <3>2. CASE slot' # slot
      <4>1. pc # "idle" /\ slot'.tracks  BY <1>n, <2>5, <3>2, AStep
      <4> QED BY <2>2, <3>2, <4>1, MoreRows DEF RowsGrow, BeforeInv
    <3> QED BY <3>1, <3>2
  <2>7. ~ slot'.tracks => erased = {}
    BY <1>n, AStep DEF BeforeInv
  <2> QED BY <2>1, <2>3, <2>4, <2>6, <2>7 DEF BeforeInv
<1> QED BY <1>1, <1>2, <1>3, <1>4, StepIsStartOrRun

(* Those whom an older build POSTed behind its suspect wait or stand in doubt, *)
(* and nobody sends them, until a start gives their file the key.             *)
THEOREM OldQueueIsNotSent == ASpec => []BeforeInv
<1>1. AInit => BeforeInv
  <2> SUFFICES ASSUME AInit PROVE BeforeInv  OBVIOUS
  <2>1. /\ slot \in Checkpoints /\ Partitioned(slot)
        /\ Exposed \subseteq NamedBy(slot) \cup {UntrackedSuspect(slot)}
        /\ before \subseteq Behind(slot) /\ erased = {} /\ pc = "idle"
    BY FilesAssumption DEF AInit, Exposed
  <2>2. Unvouched \subseteq Behind(slot)  BY <2>1 DEF Unvouched
  <2> QED BY <2>1, <2>2, BehindIsCarried DEF BeforeInv
<1>2. AInv /\ BeforeInv /\ [ANext]_avars => BeforeInv'
  BY BeforeStep
<1> QED BY <1>1, <1>2, AdviceInductive, PTL DEF ASpec

(* Whatever went before the start is kept: the settled rows that a refusal     *)
(* promised to carry forward are in the file until a plain start is let        *)
(* through, and whoever an earlier build may have POSTed is POSTed again only  *)
(* where he waited behind the suspect of a file that a start gave the key.     *)
THEOREM PastKept == ASpec => []PastIsKept
<1>1. AInit => KeptInv
  BY DEF AInit, KeptInv
<1>2. AInv /\ KeptInv /\ [ANext]_avars => KeptInv'
  BY KeptStep
<1>3. KeptInv => HistoryKept
  BY SettledByRange DEF KeptInv, HistoryKept
<1>4. AInv /\ BeforeInv => \A t \in Trainees : Posts(t) > 1 => t \in before \cap erased
  <2> SUFFICES ASSUME AInv, BeforeInv, NEW t \in Trainees, Posts(t) > 1
               PROVE  t \in before \cap erased
    OBVIOUS
  <2>1. posted[t] \in Nat /\ posted[t] <= 1  BY DEF AInv, TypeOK, SentOnce
  <2>2. t \in before /\ posted[t] > 0  BY <2>1 DEF Posts
  <2> QED BY <2>2 DEF BeforeInv, Unvouched, Exposed
<1> QED BY <1>1, <1>2, <1>3, <1>4, AdviceInductive, OnceOverAnyFile, OldQueueIsNotSent, PTL
        DEF ASpec, PastIsKept

-----------------------------------------------------------------------------
(* What is shown at the end. *)

(* A run over a file that owes nobody has a row in doubt only on its way to be *)
(* aborted for it, and nothing is shown complete while it is on.  A run that   *)
(* reports that it went through leaves nobody in doubt that was not owed.      *)
EndInv ==
  /\ RunCarries /\ owed \in Nat /\ report \in {"none", "stopped", "whole"}
  /\ pc # "idle" => shown # "complete" /\ report = "none"
  /\ pc # "idle" /\ owed = 0 /\ Doubtful(results) # {} => aborted \/ (pc = "settled" /\ halt)
  /\ report = "whole" /\ owed = 0 => Doubtful(slot.results) = {}

(* How many a file cannot place is a number. *)
LEMMA MissingType ==
  ASSUME NEW cp \in Checkpoints
  PROVE  Unaccounted(cp) \in Nat
<1>1. /\ cp.total \in Nat /\ Len(cp.results) \in Nat /\ Len(cp.skipped) \in Nat
      /\ Len(cp.pending) \in Nat
  BY LenProperties DEF Checkpoints
<1>2. Placed(cp) \in Nat
  <2> DEFINE a == Len(cp.results)  b == Len(cp.skipped)  c == Len(cp.pending)
             d == IF cp.inFlight = NoTrainee THEN 0 ELSE 1
  <2>1. a \in Nat /\ b \in Nat /\ c \in Nat  BY <1>1
  <2>2. d \in Nat  OBVIOUS
  <2>3. Placed(cp) = a + b + c + d  BY DEF Placed
  <2> HIDE DEF a, b, c, d
  <2> QED BY <2>1, <2>2, <2>3
<1> QED BY <1>1, <1>2 DEF Unaccounted

(* A resume that owes nobody finds no row in doubt. *)
LEMMA OwedNobody ==
  ASSUME NEW file \in Checkpoints
  PROVE  /\ Owed(file) \in Nat
         /\ Owed(file) = 0 => Doubtful(Carried(file)) = {} /\ Doubtful(file.results) = {}
<1>1. Carried(file) \in Seq(Row) /\ Range(file.results) \subseteq Range(Carried(file))
  BY CarriedType
<1>2. /\ IsFiniteSet(Doubtful(Carried(file))) /\ Cardinality(Doubtful(Carried(file))) \in Nat
  BY <1>1, DoubtIsFinite
<1>3. Unaccounted(Examined(file)) \in Nat
  BY ExaminedType, MissingType
<1>4. Owed(file) \in Nat /\ (Owed(file) = 0 => Cardinality(Doubtful(Carried(file))) = 0)
  BY <1>2, <1>3 DEF Owed
<1>5. Cardinality(Doubtful(Carried(file))) = 0 => Doubtful(Carried(file)) = {}
  BY <1>2, FS_EmptySet
<1>6. Doubtful(Carried(file)) = {} => Doubtful(file.results) = {}
  BY <1>1, MoreRows
<1> QED BY <1>4, <1>5, <1>6

(* A settled row in doubt halts the batch. *)
LEMMA SettleEnds ==
  ASSUME AInv, EndInv, pc \in {"admit", "admitted", "sent"}, owed' = owed,
         NEW kind \in Outcomes \cup {"skipped"}, NEW aborting \in BOOLEAN, Settle(kind, aborting),
         kind = "indeterminate" => aborting,
         owed' = 0, Doubtful(results') # {}
  PROVE  aborted' \/ (pc' = "settled" /\ halt')
<1> DEFINE r == [who |-> current, outcome |-> kind]
<1>1. pc' = "settled" /\ halt' = aborting /\ aborted' = aborted
  BY DEF Settle
<1>2. CASE kind = "indeterminate"
  BY <1>1, <1>2
<1>3. CASE kind # "indeterminate"
  <2>1. Doubtful(results') = Doubtful(results)
    <3>1. CASE kind = "skipped"  BY <3>1 DEF Settle
    <3>2. CASE kind # "skipped"
      <4>1. current \in Trainees  BY DEF AInv, TaskInFlight, InTask
      <4>2. r \in Row /\ r.outcome # "indeterminate"  BY <1>3, <3>2, <4>1 DEF Row
      <4>3. results' = Append(results, r)  BY <3>2 DEF Settle
      <4>4. results \in Seq(Row)  BY DEF AInv, TypeOK
      <4> HIDE DEF r
      <4> QED BY <4>2, <4>3, <4>4, PushRow
    <3> QED BY <3>1, <3>2
  <2> QED BY <1>1, <2>1 DEF EndInv
<1> QED BY <1>2, <1>3

LEMMA EndStep ==
  ASSUME AInv, EndInv, CompleteOwesNobody, [ANext]_avars
  PROVE  EndInv' /\ CompleteOwesNobody'
<1>n. [Next]_vars  BY AdviceSteps
<1>c. RunCarries'  BY <1>n, CarriesStep DEF EndInv, DoubtKept
<1>t. slot \in Checkpoints  BY DEF AInv, TypeOK
<1>1. CASE AFresh
  <2>1. results' = << >> /\ shown' = "active" /\ report' = "none" /\ owed' = 0
    BY <1>1 DEF AFresh, AStarts, StartFresh
  <2> QED BY <1>c, <2>1, EmptyApart DEF EndInv, CompleteOwesNobody
<1>2. CASE AResume
  <2>1. results' = Carried(slot) /\ shown' = "active" /\ report' = "none" /\ owed' = Owed(slot)
    BY <1>2 DEF AResume, AStarts, StartResume
  <2> QED BY <1>c, <1>t, <2>1, OwedNobody DEF EndInv, CompleteOwesNobody
<1>3. CASE ARefused
  <2>1. /\ pc' = "idle" /\ shown' = shown /\ owed' = owed /\ slot'.results = slot.results
        /\ report = "none" /\ report' = "none"
    BY <1>3, <1>t, GuardKeepsRows DEF ARefused, AStarts, StartRefused, BeginStart
  <2> QED BY <1>c, <2>1 DEF EndInv, CompleteOwesNobody
<1>4. CASE AResumeNothing
  <2>1. /\ pc' = "idle" /\ owed' = Owed(slot) /\ slot'.results = slot.results /\ report' = "none"
        /\ shown' = "complete" => ~ (Owed(slot) > 0)
    BY <1>4, <1>t, GuardKeepsRows DEF AResumeNothing, AStarts, ResumeNothing, BeginStart
  <2>2. shown' = "complete" => Owed(slot) = 0
    BY <2>1, <1>t, OwedNobody
  <2> QED BY <1>c, <1>t, <2>1, <2>2, OwedNobody DEF EndInv, CompleteOwesNobody
<1>5. CASE AClose
  <2>1. /\ pc = "closing" /\ pc' = "idle" /\ owed' = owed /\ report' \in {"stopped", "whole"}
        /\ slot'.results = results \/ slot' = slot
        /\ report' = "whole" => ~ aborted
    BY <1>5 DEF AClose, Terminal, Save, Snapshot, Forget
  <2>2. report' = "whole" /\ owed = 0 => Doubtful(results) = {}
    BY <2>1 DEF EndInv
  <2>3. report' = "whole" /\ owed = 0 => Doubtful(slot'.results) = {}
    BY <2>1, <2>2 DEF EndInv, RunCarries
  <2> QED BY <1>c, <2>1, <2>3 DEF EndInv, CompleteOwesNobody
<1>6. CASE AEnd
  <2>1. /\ report # "none" /\ report' = "none" /\ slot' = slot /\ pc' = pc /\ owed' = owed
        /\ shown' = "complete" => report # "stopped" /\ ~ (owed > 0)
    BY <1>6 DEF AEnd, EndShown, vars
  <2>2. pc = "idle"
    BY <2>1 DEF EndInv
  <2> QED BY <1>c, <2>1, <2>2 DEF EndInv, CompleteOwesNobody
<1>7. CASE ACrash
  <2>1. pc' = "idle" /\ shown' = "idle" /\ report' = "none" /\ owed' = owed
    BY <1>7 DEF ACrash, Crash, Forget, vars
  <2> QED BY <1>c, <2>1 DEF EndInv, CompleteOwesNobody
<1>8. CASE ASession \/ AStop \/ APause \/ AOther \/ UNCHANGED avars
  <2>1. /\ owed' = owed /\ shown' \in {shown, "stopped"}
        /\ report' = report \/ (report' = "stopped" /\ pc' = "idle" /\ pc # "idle")
    BY <1>8 DEF ASession, AStop, APause, AOther, avars, BoundaryStop, PausedStop, AbortStopped, LateStop,
                BoundaryPause, PausedResume
  <2>2. CASE pc = "idle"
    <3>1. UNCHANGED <<pc, slot>> /\ report' = report
      BY <1>8, <2>1, <2>2, IdleOthers DEF ARun
    <3> QED BY <1>c, <2>1, <2>2, <3>1 DEF EndInv, CompleteOwesNobody
  <2>3. CASE pc # "idle"
    <3>1. shown' # "complete" /\ report' # "whole" /\ (pc' # "idle" => report' = "none")
      BY <2>1, <2>3 DEF EndInv
    <3>2. ASSUME owed' = 0, pc' # "idle", Doubtful(results') # {}
          PROVE  aborted' \/ (pc' = "settled" /\ halt')
      <4>1. CASE AdmitStopped
        BY <4>1, <2>1, <3>2, SettleEnds DEF AdmitStopped, Outcomes
      <4>2. CASE TransportError
        BY <4>2, <2>1, <3>2, SettleEnds DEF TransportError, Outcomes
      <4>3. ASSUME NEW resp \in Replies, ReplySettles(resp)
            PROVE  aborted' \/ (pc' = "settled" /\ halt')
        <5>1. SettleSubmit(resp) = "indeterminate" => ShouldAbort(resp)
          BY DEF ShouldAbort
        <5> QED BY <4>3, <2>1, <3>2, <5>1, SettleEnds, VerdictType DEF ReplySettles, Outcomes
      <4>4. CASE AbortBatch \/ BoundaryStop \/ PausedStop \/ AbortStopped \/ LateStop
        BY <4>4, <3>2 DEF AbortBatch, BoundaryStop, PausedStop, AbortStopped, LateStop, StopAndDrain,
                          Drain, Fail, Forget
      <4>5. CASE Take
        BY <4>5, <2>1, <3>2 DEF Take, Drain, EndInv
      <4>6. CASE \/ EstablishSession \/ QueueDone \/ BoundaryPass \/ BoundaryPause \/ PausedResume
                 \/ TakeStopped \/ Admit \/ Send \/ BackoffOver \/ Continue \/ Complete
                 \/ \E resp \in Replies : ReplyRetries(resp)
        BY <4>6, <2>1, <3>2
        DEF EstablishSession, QueueDone, BoundaryPass, BoundaryPause, PausedResume, TakeStopped, Admit,
            Send, BackoffOver, Continue, Complete, ReplyRetries, Fail, Forget, work, task, EndInv
      <4>7. CASE Pause \/ Resume \/ Stop \/ Rest \/ (\E t \in Trainees : WorkerPosts(t)) \/ UNCHANGED avars
        BY <4>7, <2>1, <2>3, <3>2
        DEF Pause, Resume, Stop, Rest, WorkerPosts, avars, vars, work, task, EndInv
      <4> QED BY <1>8, <4>1, <4>2, <4>3, <4>4, <4>5, <4>6, <4>7 DEF ASession, AStop, APause, AOther
    <3> QED BY <1>c, <2>1, <3>1, <3>2 DEF EndInv, CompleteOwesNobody
  <2> QED BY <2>2, <2>3
<1> QED BY <1>1, <1>2, <1>3, <1>4, <1>5, <1>6, <1>7, <1>8 DEF ANext

(* Once the batch thread has published how its run ended, a batch shown        *)
(* complete leaves nobody to be looked up, whichever file it was resumed from. *)
(* While that is to come, Sink::write may show the word of the file.           *)
THEOREM CompleteIsComplete == ASpec => []CompleteOwesNobody
<1>1. AInit => EndInv /\ CompleteOwesNobody
  BY DEF AInit, EndInv, RunCarries, CompleteOwesNobody
<1>2. AInv /\ EndInv /\ CompleteOwesNobody /\ [ANext]_avars => EndInv' /\ CompleteOwesNobody'
  BY EndStep
<1> QED BY <1>1, <1>2, AdviceInductive, PTL DEF ASpec

-----------------------------------------------------------------------------
(* The promise of a refusal. *)

(* How many more the resume of an old file runs than its refusal said. *)
Extra == IF told.reason = "untracked" THEN Cardinality(erased) ELSE 0

(* Between a refusal and the next start the file queues as many as were        *)
(* promised, and the extra, and no run is on.                                 *)
PromiseInv ==
  /\ pc = "idle" => queue = << >>
  /\ told # NoAdvice => pc = "idle" /\ Len(Roster(slot)) = told.runs + Extra

(* A queue in which nobody waits twice is as long as it has people in it. *)
LEMMA LengthIsNumber ==
  ASSUME NEW S, NEW s \in Seq(S), NoRepeats(s)
  PROVE  Cardinality(Range(s)) = Len(s)
<1> DEFINE n == Len(s)
<1>1. n \in Nat /\ DOMAIN s = 1 .. n /\ s = [i \in 1 .. n |-> s[i]]
  BY LenProperties
<1> HIDE DEF n
<1>2. s \in [1 .. n -> Range(s)]
  BY <1>1 DEF Range
<1>3. s \in Surjection(1 .. n, Range(s)) /\ s \in Injection(1 .. n, Range(s))
  BY <1>1, <1>2 DEF Surjection, Injection, IsInjective, NoRepeats, Range
<1>4. IsFiniteSet(1 .. n) /\ Cardinality(1 .. n) = n
  <2>1. n \in Nat  BY <1>1
  <2> QED BY <2>1, FS_Interval
<1>5. Cardinality(Range(s)) = Cardinality(1 .. n)
  BY <1>3, <1>4, FS_Surjection
<1> QED BY <1>4, <1>5 DEF n

(* Rewriting the file changes how many a resume would queue only by those who  *)
(* wait behind its suspect.                                                  *)
LEMMA RewriteCounts ==
  ASSUME AInv, BeforeInv, ARefused
  PROVE  Len(Roster(slot')) = Len(Roster(slot)) + Extra'
<1>1. slot \in Checkpoints /\ slot' \in Checkpoints
  <2>1. AInv'  BY AdviceSteps, AStep DEF ANext
  <2> QED BY <2>1 DEF AInv, TypeOK
<1>2. PICK saved \in BOOLEAN : slot' = AfterGuard(slot, saved)
  BY DEF ARefused, StartRefused
<1>3. told'.reason = Reason(slot)
  BY DEF ARefused, Refusal
<1>4. erased' = IF slot.tracks \/ ~ slot'.tracks THEN erased ELSE Behind(slot)
  BY DEF ARefused, AStarts
<1>5. Len(Roster(slot)) \in Nat
  BY RosterTyped, LenProperties
<1>6. CASE slot.tracks
  <2>1. SameGroups(slot', slot) /\ UntrackedSuspect(slot) = NoTrainee
    BY <1>1, <1>2, <1>6, GuardKeepsGroups
  <2>2. slot'.tracks /\ slot'.skipped = slot.skipped /\ slot'.pending = slot.pending
    BY <1>6, <2>1 DEF SameGroups
  <2>3. Roster(slot') = slot'.skipped \o slot'.pending  BY <1>1, <2>2, ResumeSplits
  <2>4. Roster(slot) = slot.skipped \o slot.pending  BY <1>1, <1>6, ResumeSplits
  <2>5. Reason(slot) # "untracked"  BY <2>1 DEF Reason
  <2>6. Extra' = 0  BY <1>3, <2>5 DEF Extra
  <2> QED BY <1>5, <2>2, <2>3, <2>4, <2>6
<1>7. CASE ~ slot.tracks
  <2>1. slot' = slot \/ Promoted(slot', slot)
    BY <1>2, <1>7, OldFacts, GuardPromotes
  <2>2. CASE slot' = slot
    <3>1. erased' = {}  BY <1>4, <1>7, <2>2 DEF BeforeInv
    <3>2. Extra' = 0  BY <3>1, FS_EmptySet DEF Extra
    <3> QED BY <1>5, <2>2, <3>2
  <2>3. CASE Promoted(slot', slot)
    <3>1. /\ slot.skipped \in Seq(Trainees) /\ slot.pending \in Seq(Trainees)
          /\ NoRepeats(slot.pending)
      BY <1>7, OldFacts DEF Apart
    <3>2. Roster(slot) = slot.skipped
      BY <1>1, <1>7, OldResumeSplits, FileIsPartitioned
    <3>3. slot'.tracks /\ slot'.skipped = slot.skipped /\ erased' = Behind(slot)
      BY <1>4, <1>7, <2>3 DEF Promoted
    <3>4. Roster(slot') = slot.skipped \o slot'.pending
      BY <1>1, <3>3, ResumeSplits
    <3>5. CASE slot.pending = << >>
      <4>1. slot'.pending = << >>  BY <2>3, <3>5 DEF Promoted
      <4>2. UntrackedSuspect(slot) = NoTrainee  BY <3>5 DEF UntrackedSuspect
      <4>3. Reason(slot) # "untracked"  BY <4>2 DEF Reason
      <4>4. Extra' = 0  BY <1>3, <4>3 DEF Extra
      <4> QED BY <1>5, <3>1, <3>2, <3>4, <4>1, <4>4, ConcatEmptySeq
    <3>6. CASE slot.pending # << >>
      <4>1. /\ Head(slot.pending) \in Trainees /\ Tail(slot.pending) \in Seq(Trainees)
            /\ Range(slot.pending) = {Head(slot.pending)} \cup Range(Tail(slot.pending))
            /\ NoRepeats(Tail(slot.pending)) /\ Head(slot.pending) \notin Range(Tail(slot.pending))
        BY <3>1, <3>6, HeadApart
      <4>2. UntrackedSuspect(slot) = Head(slot.pending) /\ slot'.pending = Tail(slot.pending)
        BY <1>7, <2>3, <3>6 DEF UntrackedSuspect, Promoted
      <4>3. Behind(slot) = Range(Tail(slot.pending))
        BY <1>7, <4>1, <4>2 DEF Behind
      <4>4. Reason(slot) = "untracked"
        <5>1. UntrackedSuspect(slot) # NoTrainee  BY <4>1, <4>2, NoTraineeAssumption
        <5>2. Promoted([Examined(slot) EXCEPT !.tracks = TRUE], slot) /\ Examined(slot) \in Checkpoints
          BY <1>7, OldFacts, GuardPromotes, ExaminedType, TRUE \in BOOLEAN
        <5>3. MarkInterrupted(Examined(slot)).inFlight # NoTrainee
          BY <5>1, <5>2 DEF Promoted, MarkInterrupted, Checkpoints
        <5> QED BY <5>1, <5>3 DEF Reason
      <4>5. Extra' = Len(Tail(slot.pending))
        BY <1>3, <3>3, <4>1, <4>3, <4>4, LengthIsNumber DEF Extra
      <4>6. Len(slot.skipped \o Tail(slot.pending)) = Len(slot.skipped) + Len(Tail(slot.pending))
        BY <3>1, <4>1, ConcatProperties
      <4> QED BY <3>2, <3>4, <4>2, <4>5, <4>6
    <3> QED BY <3>5, <3>6
  <2> QED BY <2>1, <2>2, <2>3
<1> QED BY <1>6, <1>7

(* The end of a run takes its queue with it. *)
LEMMA RunLeavesNoQueue ==
  ASSUME pc # "idle", pc' = "idle", ARun
  PROVE  queue' = << >>
<1>1. CASE ASession \/ AStop \/ APause \/ AClose
  BY <1>1 DEF ASession, AStop, APause, AClose, EstablishSession, BoundaryStop, PausedStop, AbortStopped,
              LateStop, BoundaryPause, PausedResume, StopAndDrain, Terminal, Fail, Forget
<1>2. CASE ACrash
  BY <1>2 DEF ACrash, Crash, Forget
<1>3. CASE AOther
  BY <1>3 DEF AOther, QueueDone, BoundaryPass, TakeStopped, Take, AdmitStopped, Admit, Send, ReplySettles,
              ReplyRetries, TransportError, Settle, BackoffOver, Continue, AbortBatch, Complete,
              Pause, Resume, Stop, Rest, WorkerPosts
<1>4. CASE AEnd \/ UNCHANGED avars
  BY <1>4 DEF AEnd, avars, vars
<1> QED BY <1>1, <1>2, <1>3, <1>4 DEF ARun

LEMMA PromiseStep == ASSUME AInv, BeforeInv, PromiseInv, [ANext]_avars PROVE PromiseInv'
<1>1. CASE ARefused
  <2>1. pc = "idle" /\ pc' = "idle" /\ queue' = queue /\ told' = Refusal(slot)
    BY <1>1 DEF ARefused, StartRefused, BeginStart, work
  <2>2. Len(Roster(slot')) = told'.runs + Extra'
    BY <1>1, <2>1, RewriteCounts DEF Refusal, Runs
  <2> QED BY <2>1, <2>2 DEF PromiseInv
<1>2. CASE AFresh \/ AResume \/ AResumeNothing
  <2>1. told' = NoAdvice /\ (pc' = "idle" => pc = "idle" /\ queue' = queue)
    BY <1>2 DEF AFresh, AResume, AResumeNothing, StartFresh, StartResume, ResumeNothing, BeginStart, work
  <2> QED BY <2>1 DEF PromiseInv
<1>3. CASE ARun
  <2>1. told' = told /\ erased' = erased
    BY <1>3, RunKeepsPast
  <2>2. CASE pc = "idle"
    <3>1. UNCHANGED <<pc, queue, slot>>
      BY <1>3, <2>2, IdleOthers
    <3> QED BY <2>1, <3>1 DEF PromiseInv, Extra
  <2>3. CASE pc # "idle"
    <3>1. told' = NoAdvice  BY <2>1, <2>3 DEF PromiseInv
    <3>2. pc' = "idle" => queue' = << >>
      BY <1>3, <2>3, RunLeavesNoQueue
    <3> QED BY <3>1, <3>2 DEF PromiseInv
  <2> QED BY <2>2, <2>3
<1> QED BY <1>1, <1>2, <1>3, StepIsStartOrRun

(* The resume that a refusal asks for queues as many trainees as the refusal   *)
(* said, whatever happened to the rewrite of the file in between and whichever  *)
(* build left it; those behind the suspect of a file that the rewrite gave the *)
(* in_flight key are the only ones who come on top.                           *)
THEOREM PromiseHolds == ASpec => PromiseKept
<1>1. AInit => PromiseInv
  BY DEF AInit, PromiseInv
<1>2. AInv /\ BeforeInv /\ PromiseInv /\ [ANext]_avars => PromiseInv'
  BY PromiseStep
<1>3. PromiseInv /\ (AResume \/ AResumeNothing) /\ told # NoAdvice => Len(queue') = told.runs + Extra
  <2> SUFFICES ASSUME PromiseInv, AResume \/ AResumeNothing, told # NoAdvice
               PROVE  Len(queue') = told.runs + Extra
    OBVIOUS
  <2>1. Len(Roster(slot)) = told.runs + Extra /\ pc = "idle" /\ queue = << >>
    BY DEF PromiseInv
  <2>2. CASE AResume
    BY <2>1, <2>2 DEF AResume, StartResume
  <2>3. CASE AResumeNothing
    BY <2>1, <2>3 DEF AResumeNothing, ResumeNothing, work
  <2> QED BY <2>2, <2>3
<1>4. PromiseInv /\ [ANext]_avars =>
        [(AResume \/ AResumeNothing) /\ told # NoAdvice =>
           Len(queue') = told.runs + IF told.reason = "untracked" THEN Cardinality(erased) ELSE 0]_avars
  BY <1>3 DEF Extra
<1> QED BY <1>1, <1>2, <1>4, AdviceInductive, OldQueueIsNotSent, PTL DEF ASpec, PromiseKept

=============================================================================
