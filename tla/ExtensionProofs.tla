------------------------ MODULE ExtensionProofs -----------------------------
(***************************************************************************)
(* What PortalTab and DaemonPopup promise, proved for every list of trainees, *)
(* every request, every number of attempts, batches, reloads and commands      *)
(* given up on, and every number of polls, saved settings and other clients.   *)
(*                                                                          *)
(* The engine alone keeps the batch in three consecutive parts (EngineInv);   *)
(* with the tab, a turn is heard of by the portal in one place only, and     *)
(* nowhere before its engine submits it (TabInv); and until a command given up *)
(* on is left in the tab, the form there is that of the trainee in hand        *)
(* (OwnInv).  The popup, between its requests, believes nothing of a batch of  *)
(* its own that it did not read after its last request (PopupInv).            *)
(***************************************************************************)
EXTENDS PortalTab, DaemonPopup, SequenceTheorems, FiniteSetTheorems, TLAPS

Preparing == {"is_page", "session_ready", "reinitialize", "prepare", "fill", "validate",
              "prepare_backoff"}
InHand == Preparing \cup {"submit", "wait", "wait_backoff"}
Ended == {"finishing", "idle"}

Whos(rows) == [i \in DOMAIN rows |-> rows[i].who]

(* The trainee being processed: in the queue no more, and with no row yet. *)
Held == IF step \in InHand THEN <<current>> \o queue ELSE queue

-----------------------------------------------------------------------------
(* The invariant of the engine. *)

EngineTypes ==
  /\ step \in Steps
  /\ queue \in Seq(Trainees) /\ batch \in Seq(Trainees) /\ results \in Seq(Rows)
  /\ current \in Trainees \cup {NoTrainee} /\ attempt \in 0 .. MaxAttempts
  /\ pauseRequested \in BOOLEAN /\ stopRequested \in BOOLEAN
  /\ starts \in 0 .. MaxStarts
  /\ (step \in InHand => current \in Trainees)
  /\ (step \in {"prepare_backoff", "wait_backoff"} => attempt < MaxAttempts)

(* The rows, the one in hand and the queue are the batch, in its order. *)
Shared == Whos(results) \o Held = batch

EndInv ==
  /\ step = "initialize" => results = << >>
  /\ step \in {"pausing", "paused", "woken"} => queue # << >>
  /\ step \in Ended => (queue = << >> \/ results = << >>)

(* A doubtful row is the one being saved, or the batch is at its end. *)
DoubtInv ==
  \A i \in DOMAIN results : results[i].outcome = "indeterminate" =>
    \/ step = "saving" /\ i = Len(results)
    \/ step \in Ended /\ \A j \in DOMAIN results : j > i => results[j].outcome = "skipped"

SlotInv ==
  /\ slot.start \in 0 .. starts
  /\ (slot.start = starts /\ starts > 0) => Whos(slot.rows) \o slot.pending = batch

EngineInv ==
  EngineTypes /\ IsInjective(batch) /\ Shared /\ EndInv /\ DoubtInv /\ SlotInv

-----------------------------------------------------------------------------
(* The invariant of the engine and the tab. *)

Flights == [kind : {"list", "form", "post"}, who : Trainees \cup {NoTrainee},
            turn : Turns, live : BOOLEAN]
Messages == [cmd : Commands, turn : Turns]
Posts == [of : Trainees \cup {NoTrainee}, filled : BOOLEAN, turn : Turns]

TabTypes ==
  /\ late \in Seq(Messages)
  /\ InFlight \subseteq Flights /\ flights \in [InFlight -> Nat \ {0}]
  /\ selected \in Trainees \cup {NoTrainee}
  /\ form \in [of : Trainees \cup {NoTrainee}, filled : BOOLEAN]
  /\ submission \in {"none", "confirmed", "duplicate", "rejected", "CONFIRMATION_UNKNOWN"}
  /\ posts \in Seq(Posts)
  /\ stored \subseteq Turns

(* The one fetch the engine waits for is of the command it waits for. *)
LiveInv ==
  \A f \in LiveFlights :
    /\ step \in Commands /\ f.turn = Turn
    /\ f.kind = "post" <=> step = "submit"
    /\ flights[f] = 1
    /\ \A g \in LiveFlights : g = f

(* Where a turn is when it has been, or will be, POSTed. *)
PostedTurns == {posts[i].turn : i \in DOMAIN posts}
PostingTurns == {f.turn : f \in Posting}
Submits == {i \in DOMAIN late : late[i].cmd = "submit"}
LateTurns == {late[i].turn : i \in Submits}
Used == LateTurns \cup PostedTurns

(* A turn is still to be POSTed, on its way, or recorded: one of them, once. *)
OncePlaced ==
  /\ AtMostOnePost
  /\ \A i, j \in Submits : late[i].turn = late[j].turn => i = j
  /\ LateTurns \cap PostedTurns = {}
  /\ \A f \in Posting : f.turn \in PostedTurns /\ f.turn \notin stored /\ flights[f] = 1
  /\ \A f, g \in Posting : f.turn = g.turn => f = g
  /\ stored \subseteq PostedTurns

(* Turns of this batch are POSTed for those who have a row or are in hand. *)
UsedAreBegun ==
  \A u \in Used :
    /\ u.start <= starts
    /\ u.start = starts =>
         \/ \E i \in DOMAIN results : results[i].who = u.who
         \/ step \in InHand /\ current = u.who

(* Until its submit is handled nothing was sent for a turn. *)
FreshInv ==
  (step \in Preparing \/ (step = "submit" /\ LiveFlights = {})) => Turn \notin Used

TabInv ==
  /\ TabTypes /\ LiveInv /\ OncePlaced /\ UsedAreBegun /\ FreshInv
  /\ FailedIsNotStored

Inv == EngineInv /\ TabInv

-----------------------------------------------------------------------------
(* Sequences and bags. *)

(* One copy of f less: f itself is gone if it was the last one. *)
LEMMA LandBag ==
  ASSUME NEW B, B \in [DOMAIN B -> Nat \ {0}], NEW f \in DOMAIN B
  PROVE  LET C == B (-) SetToBag({f})
         IN  /\ DOMAIN C \subseteq DOMAIN B /\ DOMAIN B \ {f} \subseteq DOMAIN C
             /\ B[f] = 1 => f \notin DOMAIN C
             /\ C \in [DOMAIN C -> Nat \ {0}]
             /\ \A g \in DOMAIN C : g # f => C[g] = B[g]
BY DEF (-), SetToBag

(* Whom the rows are about. *)
LEMMA WhosType ==
  ASSUME NEW rows \in Seq(Rows)
  PROVE  /\ Whos(rows) \in Seq(Trainees) /\ Len(Whos(rows)) = Len(rows)
         /\ DOMAIN rows = 1 .. Len(rows) /\ DOMAIN Whos(rows) = 1 .. Len(rows)
         /\ Len(rows) \in Nat
         /\ \A i \in 1 .. Len(rows) : Whos(rows)[i] = rows[i].who /\ rows[i] \in Rows
<1>1. DOMAIN rows = 1 .. Len(rows) /\ Len(rows) \in Nat  BY LenProperties
<1>2. \A i \in 1 .. Len(rows) : rows[i] \in Rows  BY ElementOfSeq
<1>3. \A i \in 1 .. Len(rows) : rows[i].who \in Trainees  BY <1>2 DEF Rows
<1>4. Whos(rows) \in [1 .. Len(rows) -> Trainees]  BY <1>1, <1>3 DEF Whos
<1>5. Whos(rows) \in Seq(Trainees)  BY <1>1, <1>4
<1> QED BY <1>1, <1>2, <1>4, <1>5 DEF Whos

LEMMA WhosAppend ==
  ASSUME NEW rows \in Seq(Rows), NEW row \in Rows
  PROVE  /\ Append(rows, row) \in Seq(Rows)
         /\ Whos(Append(rows, row)) = Whos(rows) \o <<row.who>>
<1>1. Append(rows, row) \in Seq(Rows) /\ Len(Append(rows, row)) = Len(rows) + 1
      /\ \A i \in 1 .. Len(rows) : Append(rows, row)[i] = rows[i]
      /\ Append(rows, row)[Len(rows) + 1] = row
  BY AppendProperties
<1>2. row.who \in Trainees  BY DEF Rows
<1>3. <<row.who>> \in Seq(Trainees) /\ Len(<<row.who>>) = 1 /\ <<row.who>>[1] = row.who
  BY <1>2
<1> DEFINE u == Whos(Append(rows, row))
           v == Whos(rows) \o <<row.who>>
<1>4. v \in Seq(Trainees) /\ Len(v) = Len(rows) + 1
      /\ \A i \in 1 .. Len(rows) + 1 : v[i] = IF i <= Len(rows) THEN rows[i].who ELSE row.who
  BY <1>3, WhosType, ConcatProperties
<1>5. u \in Seq(Trainees) /\ Len(u) = Len(rows) + 1
      /\ \A i \in 1 .. Len(rows) + 1 : u[i] = Append(rows, row)[i].who
  BY <1>1, WhosType
<1>6. \A i \in 1 .. Len(u) : u[i] = v[i]  BY <1>1, <1>4, <1>5, WhosType
<1>7. u = v
  <2> HIDE DEF u, v
  <2> QED BY <1>4, <1>5, <1>6, SeqEqual
<1> QED BY <1>1, <1>7

Skips(q) == [i \in DOMAIN q |-> Row(q[i], "skipped", "none")]

(* Draining moves the queue to the rows, in its order. *)
LEMMA WhosDrain ==
  ASSUME NEW rows \in Seq(Rows), NEW q \in Seq(Trainees)
  PROVE  /\ rows \o Skips(q) \in Seq(Rows)
         /\ Len(rows \o Skips(q)) = Len(rows) + Len(q) /\ Len(q) \in Nat
         /\ \A i \in 1 .. Len(rows) : (rows \o Skips(q))[i] = rows[i]
         /\ \A i \in Len(rows) + 1 .. Len(rows) + Len(q) :
              (rows \o Skips(q))[i].outcome = "skipped"
         /\ Whos(rows \o Skips(q)) = Whos(rows) \o q
<1>1. DOMAIN q = 1 .. Len(q) /\ Len(q) \in Nat /\ \A i \in 1 .. Len(q) : q[i] \in Trainees
  BY LenProperties, ElementOfSeq
<1>2. \A i \in 1 .. Len(q) : Row(q[i], "skipped", "none") \in Rows  BY <1>1 DEF Row, Rows
<1>3. Skips(q) \in [1 .. Len(q) -> Rows]  BY <1>1, <1>2 DEF Skips
<1>4. Skips(q) \in Seq(Rows) /\ Len(Skips(q)) = Len(q)  BY <1>1, <1>3
<1>5. \A i \in 1 .. Len(q) : Skips(q)[i].who = q[i] /\ Skips(q)[i].outcome = "skipped"
  BY <1>1 DEF Skips, Row
<1> DEFINE all == rows \o Skips(q)
           u == Whos(all)
           v == Whos(rows) \o q
<1>6. all \in Seq(Rows) /\ Len(all) = Len(rows) + Len(q) /\ Len(rows) \in Nat
      /\ \A i \in 1 .. Len(rows) + Len(q) :
           all[i] = IF i <= Len(rows) THEN rows[i] ELSE Skips(q)[i - Len(rows)]
  BY <1>4, ConcatProperties, LenProperties
<1>7. v \in Seq(Trainees) /\ Len(v) = Len(rows) + Len(q)
      /\ \A i \in 1 .. Len(rows) + Len(q) :
           v[i] = IF i <= Len(rows) THEN rows[i].who ELSE q[i - Len(rows)]
  <2>1. /\ Whos(rows) \in Seq(Trainees) /\ Len(Whos(rows)) = Len(rows)
        /\ \A i \in 1 .. Len(rows) : Whos(rows)[i] = rows[i].who
    BY WhosType
  <2> DEFINE w == Whos(rows)
  <2> HIDE DEF w
  <2>2. /\ w \o q \in Seq(Trainees) /\ Len(w \o q) = Len(w) + Len(q)
        /\ \A i \in 1 .. Len(w) + Len(q) :
             (w \o q)[i] = IF i <= Len(w) THEN w[i] ELSE q[i - Len(w)]
    BY <2>1, ConcatProperties DEF w
  <2>3. Len(w) = Len(rows) /\ \A i \in 1 .. Len(rows) : w[i] = rows[i].who  BY <2>1 DEF w
  <2>4. v = w \o q  BY DEF w
  <2> QED BY <1>1, <1>6, <2>2, <2>3, <2>4
<1>8. u \in Seq(Trainees) /\ Len(u) = Len(rows) + Len(q)
      /\ \A i \in 1 .. Len(rows) + Len(q) : u[i] = all[i].who
  BY <1>6, WhosType
<1>9. ASSUME NEW i \in 1 .. Len(u) PROVE u[i] = v[i]
  <2>1. CASE i <= Len(rows)  BY <1>6, <1>7, <1>8, <2>1
  <2>2. CASE ~ i <= Len(rows)
    <3>1. i - Len(rows) \in 1 .. Len(q)  BY <1>1, <1>6, <1>8, <2>2
    <3> QED BY <1>5, <1>6, <1>7, <1>8, <2>2, <3>1
  <2> QED BY <2>1, <2>2
<1>10. u = v
  <2> HIDE DEF u, v
  <2> QED BY <1>7, <1>8, <1>9, SeqEqual
<1>11. \A i \in Len(rows) + 1 .. Len(rows) + Len(q) : all[i].outcome = "skipped"
  <2>1. SUFFICES ASSUME NEW i \in Len(rows) + 1 .. Len(rows) + Len(q)
                 PROVE  all[i].outcome = "skipped"
    OBVIOUS
  <2>2. i - Len(rows) \in 1 .. Len(q) /\ ~ i <= Len(rows) /\ i \in 1 .. Len(rows) + Len(q)
    BY <1>1, <1>6
  <2> QED BY <1>5, <1>6, <2>2
<1> QED BY <1>1, <1>6, <1>10, <1>11

(* The head of what is left of an injective sequence is not in its first part. *)
LEMMA HeadUnseen ==
  ASSUME NEW w \in Seq(Trainees), NEW q \in Seq(Trainees), q # << >>, IsInjective(w \o q)
  PROVE  \A i \in DOMAIN w : w[i] # Head(q)
<1>1. Len(w) \in Nat /\ Len(q) \in Nat \ {0} /\ DOMAIN w = 1 .. Len(w) /\ Head(q) = q[1]
  BY LenProperties, EmptySeq, HeadTailProperties
<1>2. w \o q \in Seq(Trainees) /\ Len(w \o q) = Len(w) + Len(q)
      /\ \A i \in 1 .. Len(w) + Len(q) :
           (w \o q)[i] = IF i <= Len(w) THEN w[i] ELSE q[i - Len(w)]
  BY ConcatProperties
<1> DEFINE s == w \o q
<1>3. DOMAIN s = 1 .. Len(w) + Len(q)  BY <1>2, LenProperties
<1>4. s[Len(w) + 1] = q[1] /\ Len(w) + 1 \in DOMAIN s  BY <1>1, <1>2, <1>3
<1>5. ASSUME NEW i \in DOMAIN w PROVE w[i] # q[1]
  <2>1. s[i] = w[i] /\ i \in DOMAIN s /\ i # Len(w) + 1  BY <1>1, <1>2, <1>3
  <2> QED BY <1>4, <2>1 DEF IsInjective
<1> QED BY <1>1, <1>5

(* The head is the one in hand, the tail what waits behind it. *)
LEMMA HeadAndTail ==
  ASSUME NEW q \in Seq(Trainees), q # << >>
  PROVE  /\ Head(q) \in Trainees /\ Tail(q) \in Seq(Trainees)
         /\ <<Head(q)>> \o Tail(q) = q
<1>1. Len(q) \in Nat \ {0} /\ Head(q) = q[1]  BY LenProperties, EmptySeq, HeadTailProperties
<1>2. Head(q) \in Trainees /\ Tail(q) \in Seq(Trainees) /\ Len(Tail(q)) = Len(q) - 1
      /\ \A i \in 1 .. Len(q) - 1 : Tail(q)[i] = q[i + 1]
  BY HeadTailProperties
<1> DEFINE s == <<Head(q)>> \o Tail(q)
<1>3. <<Head(q)>> \in Seq(Trainees) /\ Len(<<Head(q)>>) = 1 /\ <<Head(q)>>[1] = Head(q)
  BY <1>2
<1>4. s \in Seq(Trainees) /\ Len(s) = Len(q)
      /\ \A i \in 1 .. Len(q) : s[i] = IF i <= 1 THEN Head(q) ELSE Tail(q)[i - 1]
  BY <1>1, <1>2, <1>3, ConcatProperties
<1>5. \A i \in 1 .. Len(s) : s[i] = q[i]
  <2>1. SUFFICES ASSUME NEW i \in 1 .. Len(q) PROVE s[i] = q[i]  BY <1>4
  <2>2. CASE i = 1  BY <1>1, <1>4, <2>2
  <2>3. CASE i # 1
    <3>1. i - 1 \in 1 .. Len(q) - 1 /\ ~ i <= 1  BY <1>1, <2>3
    <3> QED BY <1>2, <1>4, <3>1
  <2> QED BY <2>2, <2>3
<1>6. s = q
  <2> HIDE DEF s
  <2> QED BY <1>4, <1>5, SeqEqual
<1> QED BY <1>2, <1>6

(* buildTasks lists trainees, each once. *)
LEMMA TasksOnce ==
  ASSUME NEW asked \in Requests, ~ Contains(asked, NoTrainee),
         NEW tasks \in BuildTasks(asked)
  PROVE  tasks \in Seq(Trainees) /\ IsInjective(tasks)
<1>1. asked \in Seq(Trainees \cup {NoTrainee})  BY RequestsAssumption
<1>2. DOMAIN asked = 1 .. Len(asked) /\ Len(asked) \in Nat
      /\ \A i \in 1 .. Len(asked) : asked[i] \in Trainees \cup {NoTrainee}
  BY <1>1, LenProperties, ElementOfSeq
<1>3. Range(asked) \subseteq Trainees  BY <1>2 DEF Range, Contains
<1>4. PICK n \in 0 .. Len(asked) : tasks \in [1 .. n -> Range(asked)]  BY DEF BuildTasks
<1>5. tasks \in [1 .. n -> Trainees] /\ n \in Nat  BY <1>2, <1>3, <1>4
<1> QED BY <1>5 DEF BuildTasks

-----------------------------------------------------------------------------
(* The engine keeps its invariant. *)

Outcomes == {"success", "failed", "indeterminate", "skipped"}
Codes == Answers \cup {"none", "DUPLICATE_RECORD", "SUBMISSION_FAILED"}

(* How a step may touch the rows: what is there stays, and what is added is    *)
(* skipped.                                                                   *)
Extends ==
  /\ \A i \in DOMAIN results : i \in DOMAIN results' /\ results'[i] = results[i]
  /\ \A i \in DOMAIN results' : i \in DOMAIN results \/ results'[i].outcome = "skipped"

(* A step with nobody in hand; one may be taken there who has no row. *)
Outside ==
  /\ step \notin InHand /\ starts' = starts /\ Extends
  /\ \/ step' \notin InHand
     \/ /\ step' = "is_page" /\ results' = results
        /\ \A i \in DOMAIN results : results[i].who # current'

(* A step within a turn, which never leads back to before its submit. *)
Inside ==
  /\ step \in InHand /\ step' \in InHand
  /\ UNCHANGED <<results, current, starts>>
  /\ step' \in Preparing => step \in Preparing
  /\ step' = "submit" => step \in Preparing \cup {"submit"}

(* The step that ends a turn with its row.  The codes that are taken for proof *)
(* that nothing was sent include the login page's.                            *)
Unsent(answer) == step \in Preparing \/ (step = "submit" /\ answer \in NeverSent)
Settling(answer) ==
  /\ step \in InHand /\ step' = "saving" /\ starts' = starts
  /\ \E outcome \in Outcomes, code \in Codes :
       /\ results' = Append(results, Row(current, outcome, code))
       /\ outcome = "failed" /\ code \notin {"DUPLICATE_RECORD", "SUBMISSION_FAILED"}
            => Unsent(answer) /\ (step = "submit" => code = answer)

LEMMA EngineStart == Init => EngineInv
<1> SUFFICES ASSUME Init PROVE EngineInv  OBVIOUS
<1>1. << >> \in Seq(Trainees) /\ << >> \in Seq(Rows)  OBVIOUS
<1>2. EngineTypes
  <2>1. 0 \in 0 .. MaxStarts /\ 0 \in 0 .. MaxAttempts
    BY MaxStartsAssumption, MaxAttemptsAssumption
  <2> QED BY <1>1, <2>1 DEF Init, EngineInit, EngineTypes, Steps, InHand, Preparing
<1>3. Whos(results) = << >> /\ Held = << >>
  BY DEF Init, EngineInit, Whos, Held, InHand, Preparing
<1>4. Shared
  BY <1>1, <1>3, ConcatEmptySeq DEF Init, EngineInit, Shared
<1> QED
  BY <1>2, <1>4 DEF Init, EngineInit, EngineInv, IsInjective, EndInv, DoubtInv, SlotInv, NoSlot

(* A checkpoint of a moment with nobody in hand has everyone. *)
LEMMA SaveKeeps ==
  ASSUME EngineInv, step \notin InHand, NEW status, Save(status), starts' = starts, batch' = batch
  PROVE  SlotInv'
<1>1. Whos(results) \o queue = batch  BY DEF EngineInv, Shared, Held
<1>2. starts \in Nat  BY MaxStartsAssumption DEF EngineInv, EngineTypes
<1>3. CASE slot' = slot  BY <1>3 DEF EngineInv, SlotInv
<1>4. CASE slot' = [status |-> status, rows |-> results, pending |-> queue, start |-> starts]
  <2>1. slot'.rows = results /\ slot'.pending = queue /\ slot'.start = starts  BY <1>4
  <2> QED BY <1>1, <1>2, <2>1 DEF SlotInv
<1> QED BY <1>3, <1>4 DEF Save

(* A row ends the turn of whoever is in hand. *)
LEMMA SettleKeeps ==
  ASSUME EngineInv, step \in InHand, NEW outcome \in Outcomes, NEW code \in Codes,
         Settle(outcome, code),
         UNCHANGED <<queue, current, pauseRequested, stopRequested, slot, starts, batch>>
  PROVE  EngineInv'
<1> DEFINE row == Row(current, outcome, code)
<1>1. row \in Rows /\ row.who = current /\ row.outcome = outcome
  BY DEF EngineInv, EngineTypes, Row, Rows, Outcomes, Codes
<1>2. /\ results \in Seq(Rows) /\ results' = Append(results, row) /\ step' = "saving"
      /\ current \in Trainees /\ queue \in Seq(Trainees)
  BY DEF EngineInv, EngineTypes, Settle
<1>3. results' \in Seq(Rows) /\ Whos(results') = Whos(results) \o <<current>>
  <2> HIDE DEF row
  <2> QED BY <1>1, <1>2, WhosAppend
<1>4. /\ Len(results) \in Nat /\ Len(results') = Len(results) + 1
      /\ \A i \in 1 .. Len(results) : results'[i] = results[i]
      /\ DOMAIN results = 1 .. Len(results) /\ DOMAIN results' = 1 .. Len(results')
  <2> HIDE DEF row
  <2> QED BY <1>1, <1>2, <1>3, AppendProperties, LenProperties
<1>5. EngineTypes'
  BY <1>2, <1>3 DEF EngineInv, EngineTypes, Settle, Steps, InHand, Preparing
<1>6. Shared'
  <2>1. Whos(results) \in Seq(Trainees) /\ <<current>> \in Seq(Trainees)
    BY <1>2, WhosType
  <2>2. (Whos(results) \o <<current>>) \o queue = Whos(results) \o (<<current>> \o queue)
    BY <1>2, <2>1, ConcatAssociative
  <2>3. Whos(results) \o (<<current>> \o queue) = batch  BY DEF EngineInv, Shared, Held
  <2>4. Held' = queue  BY <1>2 DEF Held, InHand, Preparing
  <2> QED BY <1>3, <2>2, <2>3, <2>4 DEF Shared
<1>7. DoubtInv'
  <2>1. \A i \in DOMAIN results : results[i].outcome # "indeterminate"
    BY DEF EngineInv, DoubtInv, InHand, Preparing, Ended
  <2> QED BY <1>2, <1>4, <2>1 DEF DoubtInv
<1> QED BY <1>2, <1>5, <1>6, <1>7 DEF EngineInv, EndInv, Ended, SlotInv

(* The next of the queue is taken in hand. *)
LEMMA DequeueKeeps ==
  ASSUME EngineInv, step \notin InHand, step \notin Ended, step # "saving", queue # << >>,
         Dequeue, UNCHANGED <<pauseRequested, stopRequested, slot, starts, batch>>
  PROVE  /\ EngineInv'
         /\ \A i \in DOMAIN results : results[i].who # current'
<1>1. /\ queue \in Seq(Trainees) /\ results \in Seq(Rows) /\ Whos(results) \o queue = batch
      /\ IsInjective(batch)
  BY DEF EngineInv, EngineTypes, Shared, Held
<1>2. /\ current' = Head(queue) /\ queue' = Tail(queue) /\ results' = results
      /\ attempt' = 1 /\ step' = "is_page"
  BY DEF Dequeue
<1>3. current' \in Trainees /\ queue' \in Seq(Trainees) /\ <<current'>> \o queue' = queue
  BY <1>1, <1>2, HeadAndTail
<1>4. EngineTypes'
  BY <1>2, <1>3, MaxAttemptsAssumption DEF EngineInv, EngineTypes, Steps, Commands, InHand, Preparing
<1>5. Shared'  BY <1>1, <1>2, <1>3 DEF Shared, Held, InHand, Preparing
<1>6. DoubtInv'
  BY <1>2 DEF EngineInv, DoubtInv
<1>7. \A i \in DOMAIN results : results[i].who # current'
  <2>1. Whos(results) \in Seq(Trainees)  BY <1>1, WhosType
  <2>2. \A i \in DOMAIN Whos(results) : Whos(results)[i] # Head(queue)
    BY <1>1, <2>1, HeadUnseen
  <2> QED BY <1>2, <2>2 DEF Whos
<1> QED BY <1>2, <1>4, <1>5, <1>6, <1>7 DEF EngineInv, EndInv, Ended, SlotInv

(* The rest of the queue is skipped. *)
LEMMA DrainKeeps ==
  ASSUME EngineInv, step \notin InHand, step \notin Ended, Finish, Drain, UNCHANGED attempt,
         UNCHANGED <<pauseRequested, stopRequested, starts, batch>>, SlotInv'
  PROVE  /\ EngineInv'
         /\ \A i \in DOMAIN results : i \in DOMAIN results' /\ results'[i] = results[i]
         /\ \A i \in DOMAIN results' : i \in DOMAIN results \/ results'[i].outcome = "skipped"
<1>1. /\ queue \in Seq(Trainees) /\ results \in Seq(Rows) /\ Whos(results) \o queue = batch
  BY DEF EngineInv, EngineTypes, Shared, Held
<1>2. /\ results' = results \o Skips(queue) /\ queue' = << >>
      /\ step' = "finishing" /\ current' = NoTrainee
  BY DEF Drain, SkippedRows, Skips, Finish
<1>3. /\ results' \in Seq(Rows)
      /\ Len(results') = Len(results) + Len(queue) /\ Len(queue) \in Nat
      /\ \A i \in 1 .. Len(results) : results'[i] = results[i]
      /\ \A i \in Len(results) + 1 .. Len(results) + Len(queue) : results'[i].outcome = "skipped"
      /\ Whos(results') = batch
  BY <1>1, <1>2, WhosDrain
<1>4. DOMAIN results = 1 .. Len(results) /\ DOMAIN results' = 1 .. Len(results')
      /\ Len(results) \in Nat
  BY <1>1, <1>3, LenProperties
<1>5. EngineTypes'
  BY <1>2, <1>3 DEF EngineInv, EngineTypes, Steps, InHand, Preparing
<1>6. Shared'
  <2>1. batch \in Seq(Trainees) /\ batch' = batch  BY DEF EngineInv, EngineTypes
  <2>2. Held' = << >>  BY <1>2 DEF Held, InHand, Preparing
  <2>3. batch \o << >> = batch  BY <2>1, ConcatEmptySeq
  <2> QED BY <1>3, <2>1, <2>2, <2>3 DEF Shared
<1>7. \A i \in DOMAIN results' : i \in DOMAIN results \/ results'[i].outcome = "skipped"
  <2>1. \A i \in DOMAIN results' :
          i \in 1 .. Len(results) \/ i \in Len(results) + 1 .. Len(results) + Len(queue)
    BY <1>3, <1>4
  <2> QED BY <1>3, <1>4, <2>1
<1>8. DoubtInv'
  <2>1. \A i \in DOMAIN results :
          results[i].outcome = "indeterminate" => step = "saving" /\ i = Len(results)
    BY DEF EngineInv, DoubtInv
  <2> SUFFICES ASSUME NEW i \in DOMAIN results', results'[i].outcome = "indeterminate",
                      NEW j \in DOMAIN results', j > i
               PROVE  results'[j].outcome = "skipped"
    BY <1>2 DEF DoubtInv, Ended
  <2>2. i = Len(results)  BY <1>3, <1>4, <1>7, <2>1
  <2>3. j \notin DOMAIN results  BY <1>4, <2>2
  <2> QED BY <1>7, <2>3
<1>9. \A i \in DOMAIN results : i \in DOMAIN results' /\ results'[i] = results[i]
  BY <1>3, <1>4
<1> QED BY <1>2, <1>5, <1>6, <1>7, <1>8, <1>9 DEF EngineInv, EndInv, Ended

(* The loop is left: stopped, or with nobody waiting. *)
LEMMA LeaveKeeps ==
  ASSUME EngineInv, step \notin InHand, step \notin Ended, Leave,
         queue = << >> \/ stopRequested,
         UNCHANGED <<pauseRequested, stopRequested, starts, batch>>, SlotInv'
  PROVE  EngineInv' /\ Extends
<1>1. CASE stopRequested
  BY <1>1, DrainKeeps DEF Leave, Extends
<1>2. CASE ~ stopRequested
  <2>1. /\ queue = << >> /\ queue' = queue /\ results' = results /\ attempt' = attempt
        /\ step' = "finishing" /\ current' = NoTrainee
    BY <1>2 DEF Leave, Finish
  <2>2. EngineTypes'
    BY <2>1 DEF EngineInv, EngineTypes, Steps, InHand, Preparing
  <2>3. Shared'  BY <2>1 DEF EngineInv, Shared, Held, InHand, Preparing
  <2>4. DoubtInv'
    <3>1. DOMAIN results = 1 .. Len(results) /\ Len(results) \in Nat
      BY LenProperties DEF EngineInv, EngineTypes
    <3>2. \A i \in DOMAIN results :
            results[i].outcome = "indeterminate" => i = Len(results)
      BY DEF EngineInv, DoubtInv
    <3> QED BY <2>1, <3>1, <3>2 DEF DoubtInv, Ended
  <2> QED BY <2>1, <2>2, <2>3, <2>4 DEF EngineInv, EndInv, Ended, Extends
<1> QED BY <1>1, <1>2

(* The loop goes round without touching the batch. *)
LEMMA PassKeeps ==
  ASSUME EngineInv, step \notin InHand, step \notin Ended, step # "saving",
         step' \in {"pausing", "paused", "woken"}, queue # << >>,
         UNCHANGED <<queue, results, current, attempt, starts, batch>>,
         pauseRequested' \in BOOLEAN, stopRequested' \in BOOLEAN, SlotInv'
  PROVE  EngineInv' /\ Extends
<1>1. EngineTypes'  BY DEF EngineInv, EngineTypes, Steps, InHand, Preparing
<1>2. Shared'  BY DEF EngineInv, Shared, Held, InHand, Preparing
<1>3. DoubtInv'  BY DEF EngineInv, DoubtInv
<1> QED BY <1>1, <1>2, <1>3 DEF EngineInv, EndInv, Ended, Extends

(* The head of the loop, from anywhere it is reached. *)
LEMMA BoundaryKeeps ==
  ASSUME EngineInv, step \in {"initialize", "delay"}, Boundary,
         UNCHANGED <<pauseRequested, stopRequested, slot, starts, batch>>
  PROVE  EngineInv' /\ Outside
<1>1. step \notin InHand /\ step \notin Ended /\ step # "saving"
  BY DEF InHand, Preparing, Ended
<1>2. SlotInv'  BY DEF EngineInv, SlotInv
<1>3. CASE (queue = << >> \/ stopRequested) /\ Leave
  BY <1>1, <1>2, <1>3, LeaveKeeps DEF Outside, Leave, Finish, InHand, Preparing
<1>4. CASE /\ queue # << >> /\ ~ stopRequested /\ pauseRequested
           /\ step' = "pausing"
           /\ UNCHANGED <<queue, results, current, attempt>>
  <2>1. pauseRequested' \in BOOLEAN /\ stopRequested' \in BOOLEAN
    BY DEF EngineInv, EngineTypes
  <2> QED BY <1>1, <1>2, <1>4, <2>1, PassKeeps DEF Outside, InHand, Preparing
<1>5. CASE queue # << >> /\ Dequeue
  <2>1. EngineInv' /\ \A i \in DOMAIN results : results[i].who # current'
    BY <1>1, <1>5, DequeueKeeps
  <2> QED BY <1>1, <1>5, <2>1 DEF Outside, Extends, Dequeue, InHand, Preparing
<1> QED BY <1>3, <1>4, <1>5 DEF Boundary

(* Another step of the same turn. *)
LEMMA GoesKeeps ==
  ASSUME EngineInv, step \in InHand, step' \in InHand, attempt' \in 0 .. MaxAttempts,
         step' \in {"prepare_backoff", "wait_backoff"} => attempt' < MaxAttempts,
         UNCHANGED <<results, queue, current, pauseRequested, stopRequested, slot, starts, batch>>
  PROVE  EngineInv'
<1>1. EngineTypes'
  BY DEF EngineInv, EngineTypes, Steps, Commands, InHand, Preparing
<1>2. Shared'  BY DEF EngineInv, Shared, Held
<1>3. DoubtInv'  BY DEF EngineInv, DoubtInv, InHand, Preparing, Ended
<1> QED BY <1>1, <1>2, <1>3 DEF EngineInv, EndInv, SlotInv, Ended, InHand, Preparing

(* What an answer does to a turn: another step of it, or the row that ends it, *)
(* and failed without the portal's word only for an answer taken for proof     *)
(* that nothing was sent.                                                     *)
LEMMA ProcessesKeeps ==
  ASSUME EngineInv, NEW answer \in Answers, Processes(answer),
         UNCHANGED <<pauseRequested, stopRequested, slot, starts, batch>>
  PROVE  EngineInv' /\ (Inside \/ Settling(answer))
<1> USE DEF InHand, Preparing
<1>1. step \in InHand /\ queue' = queue /\ current' = current
  BY DEF Processes
<1>2. attempt \in 0 .. MaxAttempts /\ MaxAttempts \in Nat \ {0} /\ starts' = starts
  BY MaxAttemptsAssumption DEF EngineInv, EngineTypes
<1>3. ASSUME NEW outcome \in Outcomes, NEW code \in Codes, Settle(outcome, code),
             /\ outcome = "failed" /\ code \notin {"DUPLICATE_RECORD", "SUBMISSION_FAILED"}
             => step \in Preparing \/ (step = "submit" /\ answer \in NeverSent /\ code = answer)
      PROVE  EngineInv' /\ Settling(answer)
  <2>1. EngineInv'  BY <1>1, <1>3, SettleKeeps
  <2> QED BY <1>1, <1>2, <1>3, <2>1 DEF Settling, Settle, Unsent
<1>4. ASSUME NEW next \in InHand, Goes(next), next \notin {"prepare_backoff", "wait_backoff"},
             next \in Preparing \cup {"submit"} => step \in Preparing
      PROVE  EngineInv' /\ Inside
  <2>1. EngineInv'  BY <1>1, <1>2, <1>4, GoesKeeps DEF Goes
  <2> QED BY <1>1, <1>2, <1>4, <2>1 DEF Inside, Goes
<1>5. ASSUME step \in Preparing, PrepareFails(answer)
      PROVE  EngineInv' /\ (Inside \/ Settling(answer))
  <2>1. CASE ~ Retries(answer) /\ Settle("failed", answer)
    BY <1>3, <1>5, <2>1 DEF Outcomes, Codes
  <2>2. CASE Retries(answer) /\ Goes("prepare_backoff")
    <3>1. EngineInv'  BY <1>1, <1>2, <2>2, GoesKeeps DEF Goes, Retries
    <3> QED BY <1>1, <1>2, <1>5, <2>2, <3>1 DEF Inside, Goes
  <2> QED BY <1>5, <2>1, <2>2 DEF PrepareFails
<1>6. ASSUME step \in Preparing, NEW next \in {"prepare", "fill", "validate", "submit"},
             Prepares(next, answer)
      PROVE  EngineInv' /\ (Inside \/ Settling(answer))
  BY <1>4, <1>5, <1>6 DEF Prepares
<1>7. CASE step = "is_page" /\ OnPage(answer)
  <2>1. CASE answer = "yes" /\ Goes("session_ready")  BY <1>4, <1>7, <2>1
  <2>2. CASE Settle("failed", "SESSION_EXPIRED")
    BY <1>3, <1>7, <2>2 DEF Outcomes, Codes, Answers, NeverSent
  <2> QED BY <1>7, <2>1, <2>2 DEF OnPage
<1>8. CASE step = "session_ready" /\ SessionReady(answer)
  <2>1. CASE Goes("prepare")  BY <1>4, <1>8, <2>1
  <2>2. CASE Goes("reinitialize")  BY <1>4, <1>8, <2>2
  <2> QED BY <1>8, <2>1, <2>2 DEF SessionReady
<1>9. CASE \/ step = "reinitialize" /\ Prepares("prepare", answer)
           \/ step = "prepare" /\ Prepares("fill", answer)
           \/ step = "fill" /\ Prepares("validate", answer)
           \/ step = "validate" /\ Prepares("submit", answer)
  BY <1>6, <1>9
<1>10. CASE step = "submit" /\ Submitted(answer)
  <2>1. CASE answer = "ok" /\ attempt' = 1 /\ step' = "wait" /\ UNCHANGED results
    <3>1. EngineInv'  BY <1>1, <1>2, <2>1, GoesKeeps
    <3> QED BY <1>1, <1>2, <2>1, <3>1 DEF Inside
  <2>2. CASE answer \in NeverSent /\ Settle("failed", answer)
    BY <1>3, <1>10, <2>2 DEF Outcomes, Codes
  <2>3. CASE Settle("indeterminate", answer)
    BY <1>3, <2>3 DEF Outcomes, Codes
  <2> QED BY <1>10, <2>1, <2>2, <2>3 DEF Submitted
<1>11. CASE step = "wait" /\ Confirms(answer)
  <2>1. CASE \/ Settle("success", "none") \/ Settle("failed", "DUPLICATE_RECORD")
             \/ Settle("failed", "SUBMISSION_FAILED")
             \/ Settle("indeterminate", "CONFIRMATION_UNKNOWN")
    BY <1>3, <2>1 DEF Outcomes, Codes, Answers
  <2>2. CASE Retries(answer) /\ Goes("wait_backoff")
    <3>1. EngineInv'  BY <1>1, <1>2, <2>2, GoesKeeps DEF Goes, Retries
    <3> QED BY <1>1, <1>2, <1>11, <2>2, <3>1 DEF Inside, Goes
  <2> QED BY <1>11, <2>1, <2>2 DEF Confirms
<1> QED BY <1>7, <1>8, <1>9, <1>10, <1>11 DEF Processes

LEMMA HearKeeps ==
  ASSUME EngineInv, NEW answer \in Answers, Hear(answer)
  PROVE  EngineInv' /\ step \in Commands /\ (Outside \/ Inside \/ Settling(answer))
<1>1. CASE Initialized(answer)
  <2>1. CASE Boundary  BY <1>1, <2>1, BoundaryKeeps DEF Hear, Initialized, Commands
  <2>2. CASE Finish /\ UNCHANGED <<queue, results, attempt>>
    <3>1. /\ step = "initialize" /\ step' = "finishing" /\ current' = NoTrainee
          /\ results = << >> /\ starts' = starts /\ batch' = batch /\ slot' = slot
          /\ pauseRequested' = pauseRequested /\ stopRequested' = stopRequested
      BY <1>1, <2>2 DEF Hear, Initialized, Finish, EngineInv, EndInv
    <3>2. EngineTypes'
      BY <2>2, <3>1 DEF EngineInv, EngineTypes, Steps, InHand, Preparing
    <3>3. Shared'  BY <2>2, <3>1 DEF EngineInv, Shared, Held, InHand, Preparing
    <3>4. DoubtInv'  BY <2>2, <3>1 DEF DoubtInv
    <3>5. EngineInv'  BY <2>2, <3>1, <3>2, <3>3, <3>4 DEF EngineInv, EndInv, SlotInv, Ended
    <3> QED BY <2>2, <3>1, <3>5 DEF Outside, Extends, InHand, Preparing, Commands
  <2> QED BY <1>1, <2>1, <2>2 DEF Initialized
<1>2. CASE Processes(answer)
  <2>1. EngineInv' /\ (Inside \/ Settling(answer))  BY <1>2, ProcessesKeeps DEF Hear
  <2>2. step \in Commands  BY <1>2 DEF Processes, Commands
  <2> QED BY <2>1, <2>2
<1> QED BY <1>1, <1>2 DEF Hear

(* Another batch: nothing of it has happened yet. *)
Starting == starts' = starts + 1 /\ results' = << >> /\ step' = "initialize"

LEMMA TicksKeep ==
  ASSUME EngineInv, Ticks
  PROVE  EngineInv' /\ step \notin Commands /\ (Outside \/ Inside)
<1> USE DEF InHand, Preparing, Ended, Commands
<1>b. pauseRequested \in BOOLEAN /\ stopRequested \in BOOLEAN  BY DEF EngineInv, EngineTypes
<1>1. CASE PausedSaved
  <2>1. SlotInv'  BY <1>1, SaveKeeps DEF PausedSaved
  <2>2. queue # << >>  BY <1>1 DEF PausedSaved, EngineInv, EndInv
  <2> QED BY <1>1, <1>b, <2>1, <2>2, PassKeeps DEF PausedSaved, Outside
<1>2. CASE Woken
  <2>1. SlotInv'  BY <1>2 DEF Woken, EngineInv, SlotInv
  <2>2. CASE stopRequested
    BY <1>2, <2>1, <2>2, LeaveKeeps DEF Woken, Leave, Finish, Outside
  <2>3. CASE ~ stopRequested /\ queue # << >>
    BY <1>2, <2>3, DequeueKeeps DEF Woken, Dequeue, Outside, Extends
  <2> QED BY <1>2, <2>2, <2>3 DEF Woken, EngineInv, EndInv
<1>3. CASE RowSaved
  <2>1. SlotInv'  BY <1>3, SaveKeeps DEF RowSaved
  <2>2. CASE ShouldAbort(Last(results))
    BY <1>3, <2>1, <2>2, DrainKeeps DEF RowSaved, Finish, Outside, Extends
  <2>3. CASE ~ ShouldAbort(Last(results)) /\ (queue = << >> \/ stopRequested)
    BY <1>3, <2>1, <2>3, LeaveKeeps DEF RowSaved, Leave, Finish, Outside
  <2>4. CASE ~ ShouldAbort(Last(results)) /\ ~ (queue = << >> \/ stopRequested)
    <3>1. /\ step = "saving" /\ step' = "delay"
          /\ UNCHANGED <<queue, results, current, attempt, pauseRequested, stopRequested,
                         starts, batch>>
      BY <1>3, <2>4 DEF RowSaved
    <3>2. EngineTypes'  BY <3>1 DEF EngineInv, EngineTypes, Steps
    <3>3. Shared'  BY <3>1 DEF EngineInv, Shared, Held
    <3>4. DoubtInv'  BY <2>4, <3>1 DEF EngineInv, DoubtInv, ShouldAbort, Last
    <3> QED BY <2>1, <3>1, <3>2, <3>3, <3>4 DEF EngineInv, EndInv, Outside, Extends
  <2> QED BY <2>2, <2>3, <2>4
<1>4. CASE Delayed
  BY <1>4, BoundaryKeeps DEF Delayed
<1>5. CASE Finished
  <2>1. SlotInv'  BY <1>5, SaveKeeps DEF Finished
  <2>2. EngineTypes'  BY <1>5 DEF Finished, EngineInv, EngineTypes, Steps
  <2>3. Shared'  BY <1>5 DEF Finished, EngineInv, Shared, Held
  <2>4. DoubtInv'  BY <1>5 DEF Finished, EngineInv, DoubtInv
  <2> QED BY <1>5, <2>1, <2>2, <2>3, <2>4 DEF Finished, EngineInv, EndInv, Outside, Extends
<1>6. CASE BackedOff
  <2>1. attempt \in Nat /\ attempt < MaxAttempts /\ MaxAttempts \in Nat /\ attempt' = attempt + 1
    BY <1>6, MaxAttemptsAssumption DEF BackedOff, EngineInv, EngineTypes
  <2>2. attempt' \in 0 .. MaxAttempts  BY <2>1
  <2>3. EngineInv'  BY <1>6, <2>2, GoesKeeps DEF BackedOff
  <2> QED BY <1>6, <2>3 DEF BackedOff, Inside
<1> QED BY <1>1, <1>2, <1>3, <1>4, <1>5, <1>6 DEF Ticks

LEMMA OperatesKeep ==
  ASSUME EngineInv, Operates
  PROVE  /\ EngineInv' /\ (Outside \/ Inside \/ Starting)
         /\ \/ step' = step /\ UNCHANGED <<current, starts>>
            \/ step \notin Commands
<1> USE DEF InHand, Preparing, Ended, Commands
<1>b. pauseRequested \in BOOLEAN /\ stopRequested \in BOOLEAN  BY DEF EngineInv, EngineTypes
<1>1. CASE Start
  <2>1. PICK asked \in Requests :
          ~ Contains(asked, NoTrainee) /\ queue' \in BuildTasks(asked) /\ batch' = queue'
    BY <1>1 DEF Start
  <2>2. queue' \in Seq(Trainees) /\ IsInjective(queue') /\ batch' = queue'
    BY <2>1, TasksOnce
  <2>3. /\ step = "idle" /\ step' = "initialize" /\ starts' = starts + 1 /\ results' = << >>
        /\ starts' \in 0 .. MaxStarts /\ starts \in Nat
        /\ stopRequested' = FALSE /\ pauseRequested' = FALSE
        /\ UNCHANGED <<current, attempt, slot>>
    BY <1>1, MaxStartsAssumption DEF Start, EngineInv, EngineTypes
  <2>4. EngineTypes'
    <3>1. << >> \in Seq(Rows)  OBVIOUS
    <3> QED BY <2>2, <2>3, <3>1 DEF EngineInv, EngineTypes, Steps
  <2>5. Shared'
    <3>1. Whos(results') = << >> /\ Held' = queue'  BY <2>3 DEF Whos, Held
    <3>2. << >> \o queue' = queue'  BY <2>2, ConcatEmptySeq
    <3> QED BY <2>2, <3>1, <3>2 DEF Shared
  <2>6. DoubtInv'  BY <2>3 DEF DoubtInv
  <2>7. SlotInv'
    <3>1. slot' = slot /\ slot.start \in 0 .. starts  BY <2>3 DEF EngineInv, SlotInv
    <3>2. slot.start \in 0 .. starts + 1 /\ slot.start # starts + 1  BY <2>3, <3>1
    <3> QED BY <2>3, <3>1, <3>2 DEF SlotInv
  <2> QED BY <2>2, <2>3, <2>4, <2>5, <2>6, <2>7 DEF EngineInv, EndInv, Starting
<1>2. ASSUME UNCHANGED <<queue, results, current, attempt, slot, starts, batch>>,
             step' = step, pauseRequested' \in BOOLEAN, stopRequested' \in BOOLEAN
      PROVE  EngineInv' /\ (Outside \/ Inside)
  <2>1. EngineTypes'  BY <1>2 DEF EngineInv, EngineTypes
  <2>2. Shared'  BY <1>2 DEF EngineInv, Shared, Held
  <2>3. DoubtInv'  BY <1>2 DEF EngineInv, DoubtInv
  <2>4. EngineInv'  BY <1>2, <2>1, <2>2, <2>3 DEF EngineInv, EndInv, SlotInv
  <2> QED BY <1>2, <2>4 DEF Outside, Extends, Inside
<1>3. CASE Pause  BY <1>b, <1>2, <1>3 DEF Pause
<1>4. CASE Resume \/ Stop
  <2>1. /\ UNCHANGED <<queue, results, current, attempt, slot, starts, batch>>
        /\ pauseRequested' \in BOOLEAN /\ stopRequested' \in BOOLEAN
        /\ step' = (IF step = "paused" THEN "woken" ELSE step)
    BY <1>4, <1>b DEF Resume, Stop, ReleasePause
  <2>2. CASE step = "paused"
    <3>1. SlotInv'  BY <2>1 DEF EngineInv, SlotInv
    <3>2. queue # << >>  BY <2>2 DEF EngineInv, EndInv
    <3> QED BY <2>1, <2>2, <3>1, <3>2, PassKeeps DEF Outside
  <2>3. CASE step # "paused"  BY <1>2, <2>1, <2>3
  <2> QED BY <2>2, <2>3
<1> QED BY <1>1, <1>3, <1>4 DEF Operates

(* Nothing the engine hears of. *)
LEMMA StillKeeps == ASSUME EngineInv, UNCHANGED engine PROVE EngineInv' /\ (Outside \/ Inside)
<1>1. EngineTypes'  BY DEF engine, EngineInv, EngineTypes
<1>2. Shared'  BY DEF engine, EngineInv, Shared, Held
<1>3. DoubtInv'  BY DEF engine, EngineInv, DoubtInv
<1>4. EngineInv'  BY <1>1, <1>2, <1>3 DEF engine, EngineInv, EndInv, SlotInv
<1> QED BY <1>4 DEF engine, Outside, Extends, Inside, InHand, Preparing

-----------------------------------------------------------------------------
(* Where the turns are. *)

(* Whoever is in hand has no row yet. *)
LEMMA InHandHasNoRow ==
  ASSUME EngineInv, step \in InHand
  PROVE  \A i \in DOMAIN results : results[i].who # current
<1>1. /\ Whos(results) \in Seq(Trainees) /\ queue \in Seq(Trainees) /\ current \in Trainees
      /\ Whos(results) \o (<<current>> \o queue) = batch /\ IsInjective(batch)
  BY WhosType DEF EngineInv, EngineTypes, Shared, Held
<1> DEFINE q == <<current>> \o queue
<1>2. <<current>> \in Seq(Trainees) /\ Len(<<current>>) = 1 /\ <<current>>[1] = current
  BY <1>1
<1>3. q \in Seq(Trainees) /\ Len(q) = 1 + Len(queue) /\ Len(queue) \in Nat
      /\ \A i \in 1 .. 1 + Len(queue) : q[i] = IF i <= 1 THEN current ELSE queue[i - 1]
  BY <1>1, <1>2, ConcatProperties, LenProperties
<1>4. q # << >> /\ q[1] = current  BY <1>3
<1> HIDE DEF q
<1>5. Head(q) = current  BY <1>3, <1>4, HeadTailProperties
<1>6. \A i \in DOMAIN Whos(results) : Whos(results)[i] # current
  BY <1>1, <1>3, <1>4, <1>5, HeadUnseen DEF q
<1> QED BY <1>6 DEF Whos

Unanswered == PostingTurns \cup LateTurns
Possible == stored \cup Unanswered

LEMMA TurnsTyped ==
  ASSUME EngineInv, TabTypes
  PROVE  /\ Used \subseteq Turns /\ Possible \subseteq Turns /\ Turn \in Turns
         /\ starts \in Nat /\ \A u \in Turns : u.start \in Nat
         /\ \A u \in Turns : Outstanding(u) <=> u \in Unanswered
<1>1. \A i \in DOMAIN late : late[i] \in Messages
  BY ElementOfSeq, LenProperties DEF TabTypes
<1>2. \A i \in DOMAIN posts : posts[i].turn \in Turns
  <2>1. posts \in Seq(Posts)  BY DEF TabTypes
  <2>2. \A i \in DOMAIN posts : posts[i] \in Posts  BY <2>1, ElementOfSeq, LenProperties
  <2> QED BY <2>2 DEF Posts
<1>3. \A f \in InFlight : f.turn \in Turns  BY DEF TabTypes, Flights
<1>4. Used \subseteq Turns /\ Possible \subseteq Turns
  BY <1>1, <1>2, <1>3
     DEF Used, Possible, Unanswered, LateTurns, Submits, PostedTurns, PostingTurns, Posting, Messages,
         TabTypes
<1>5. Turn \in Turns /\ starts \in Nat
  BY MaxStartsAssumption DEF Turn, Turns, EngineInv, EngineTypes
<1>6. \A u \in Turns : u.start \in Nat  BY MaxStartsAssumption DEF Turns
<1>7. ASSUME NEW u \in Turns PROVE Outstanding(u) <=> u \in Unanswered
  <2>1. \A i \in DOMAIN late :
          late[i] = [cmd |-> "submit", turn |-> u] <=> late[i].cmd = "submit" /\ late[i].turn = u
    BY <1>1 DEF Messages
  <2> QED BY <2>1 DEF Outstanding, Unanswered, PostingTurns, LateTurns, Submits
<1> QED BY <1>4, <1>5, <1>6, <1>7

LEMMA PossibleAreUsed == ASSUME OncePlaced PROVE Possible \subseteq Used
BY DEF OncePlaced, Possible, Unanswered, Used, PostingTurns

(* No turn is POSTed, waits to be, or is recorded that was not before. *)
Fewer ==
  Used' \subseteq Used /\ Possible' \subseteq Possible /\ Unanswered' \subseteq Unanswered

(* What a step of the engine and of the tab has to respect of the turns. *)
Respects(answer) ==
  /\ \A u \in Used' : u \in Used \/ (u = Turn /\ step \in InHand)
  /\ \A u \in Possible' : u \in Possible \/ (u = Turn /\ step \in InHand)
  /\ \A u \in Unanswered' : u \in Unanswered \/ (u = Turn /\ step \in InHand)
  /\ Settling(answer) /\ Unsent(answer) =>
       Turn \notin Unanswered' /\ (Turn \in stored' => step = "submit" /\ answer = "SESSION_EXPIRED")
  /\ (step' \in Preparing \/ (step' = "submit" /\ LiveFlights' = {})) =>
       Used' \subseteq Used /\ (step = "submit" => LiveFlights = {})

Moves(answer) == Outside \/ Inside \/ Settling(answer) \/ Starting

LEMMA BegunKept ==
  ASSUME EngineInv, TabTypes, TabTypes', UsedAreBegun, NEW answer, Moves(answer), Respects(answer)
  PROVE  UsedAreBegun'
<1> USE DEF InHand, Preparing
<1> SUFFICES ASSUME NEW u \in Used'
             PROVE  /\ u.start <= starts'
                    /\ u.start = starts' =>
                         \/ \E i \in DOMAIN results' : results'[i].who = u.who
                         \/ step' \in InHand /\ current' = u.who
  BY DEF UsedAreBegun
<1>1. u \in Used \/ (u = Turn /\ step \in InHand)  BY DEF Respects
<1>2. starts \in Nat /\ u.start \in Nat
  BY <1>1, TurnsTyped
<1>3. /\ u.start <= starts
      /\ u.start = starts =>
           \/ \E i \in DOMAIN results : results[i].who = u.who
           \/ step \in InHand /\ current = u.who
  BY <1>1, <1>2 DEF UsedAreBegun, Turn
<1>4. CASE Outside
  BY <1>3, <1>4 DEF Outside, Extends
<1>5. CASE Inside  BY <1>3, <1>5 DEF Inside
<1>6. CASE Settling(answer)
  <2>1. PICK outcome \in Outcomes, code \in Codes :
          results' = Append(results, Row(current, outcome, code))
    BY <1>6 DEF Settling
  <2>2. Len(results) \in Nat /\ DOMAIN results = 1 .. Len(results) /\ results \in Seq(Rows)
    BY LenProperties DEF EngineInv, EngineTypes
  <2>3. current \in Trainees  BY <1>6 DEF Settling, EngineInv, EngineTypes
  <2>4. Row(current, outcome, code) \in Rows /\ Row(current, outcome, code).who = current
    BY <2>3 DEF Row, Rows, Outcomes, Codes
  <2>5. /\ results' \in Seq(Rows) /\ Len(results') = Len(results) + 1
        /\ \A i \in 1 .. Len(results) : results'[i] = results[i]
        /\ results'[Len(results) + 1].who = current
    BY <2>1, <2>2, <2>4, AppendProperties
  <2>6. DOMAIN results' = 1 .. Len(results) + 1  BY <2>5, LenProperties
  <2>7. starts' = starts  BY <1>6 DEF Settling
  <2>8. CASE u.start = starts /\ \E i \in DOMAIN results : results[i].who = u.who
    BY <1>3, <2>2, <2>5, <2>6, <2>7, <2>8
  <2>9. CASE u.start = starts /\ current = u.who
    <3>1. Len(results) + 1 \in DOMAIN results'  BY <2>2, <2>6
    <3> QED BY <1>3, <2>5, <2>7, <2>9, <3>1
  <2> QED BY <1>3, <2>7, <2>8, <2>9
<1>7. CASE Starting  BY <1>2, <1>3, <1>7 DEF Starting
<1> QED BY <1>4, <1>5, <1>6, <1>7 DEF Moves

LEMMA FreshKept ==
  ASSUME EngineInv, TabTypes, UsedAreBegun, FreshInv, NEW answer, Moves(answer), Respects(answer)
  PROVE  FreshInv'
<1> USE DEF InHand, Preparing
<1> SUFFICES ASSUME step' \in Preparing \/ (step' = "submit" /\ LiveFlights' = {})
             PROVE  Turn' \notin Used'
  BY DEF FreshInv
<1>1. Used' \subseteq Used /\ (step = "submit" => LiveFlights = {})  BY DEF Respects
<1>2. CASE Outside
  <2>1. starts' = starts /\ step \notin InHand /\ \A i \in DOMAIN results : results[i].who # current'
    BY <1>2 DEF Outside
  <2>2. Turn'.start = starts /\ Turn'.who = current'  BY <2>1 DEF Turn
  <2>3. Turn' \notin Used  BY <2>1, <2>2 DEF UsedAreBegun
  <2> QED BY <1>1, <2>3
<1>3. CASE Inside
  <2>1. Turn' = Turn  BY <1>3 DEF Inside, Turn
  <2>2. step \in Preparing \/ (step = "submit" /\ LiveFlights = {})  BY <1>1, <1>3 DEF Inside
  <2> QED BY <1>1, <2>1, <2>2 DEF FreshInv
<1>4. CASE Settling(answer) \/ Starting  BY <1>4 DEF Settling, Starting
<1> QED BY <1>2, <1>3, <1>4 DEF Moves

Unproved(row) == row.outcome = "failed" /\ row.code \notin {"DUPLICATE_RECORD", "SUBMISSION_FAILED"}
TurnOf(row) == [start |-> starts, who |-> row.who]

LEMMA FailedKept ==
  ASSUME EngineInv, EngineInv', TabTypes, TabTypes', FailedIsNotStored,
         NEW answer, Moves(answer), Respects(answer)
  PROVE  FailedIsNotStored'
<1>1. /\ results \in Seq(Rows) /\ results' \in Seq(Rows)
      /\ \A i \in DOMAIN results : results[i] \in Rows
      /\ \A i \in DOMAIN results' : results'[i] \in Rows
  BY WhosType DEF EngineInv, EngineTypes
<1>2. starts \in 0 .. MaxStarts /\ starts' \in 0 .. MaxStarts /\ starts \in Nat
  BY MaxStartsAssumption DEF EngineInv, EngineTypes
<1>3. \A s \in 0 .. MaxStarts, row \in Rows : [start |-> s, who |-> row.who] \in Turns
  BY DEF Turns, Rows
<1>4. \A i \in DOMAIN results : Unproved(results[i]) =>
        /\ TurnOf(results[i]) \notin Unanswered
        /\ results[i].code # "SESSION_EXPIRED" => TurnOf(results[i]) \notin Possible
  <2>1. \A i \in DOMAIN results : TurnOf(results[i]) \in Turns  BY <1>1, <1>2, <1>3 DEF TurnOf
  <2> QED BY <2>1, TurnsTyped DEF FailedIsNotStored, Unproved, TurnOf, Possible
<1>5. \A u \in Turns : Outstanding(u)' => u \in Unanswered'
  <2>1. \A i \in DOMAIN late' : late'[i] \in Messages
    BY ElementOfSeq, LenProperties DEF TabTypes
  <2>2. \A u \in Turns, i \in DOMAIN late' :
          late'[i] = [cmd |-> "submit", turn |-> u] => late'[i].cmd = "submit" /\ late'[i].turn = u
    BY <2>1 DEF Messages
  <2> QED BY <2>2 DEF Outstanding, Unanswered, PostingTurns, LateTurns, Submits
<1> DEFINE turn(i) == [start |-> starts', who |-> results'[i].who]
           Spared(i) == /\ turn(i) \notin Unanswered'
                        /\ results'[i].code # "SESSION_EXPIRED" => turn(i) \notin stored'
<1> SUFFICES ASSUME NEW i \in DOMAIN results', Unproved(results'[i])
             PROVE  Spared(i)
  <2>1. \A i \in DOMAIN results' : turn(i) \in Turns  BY <1>1, <1>2, <1>3
  <2> QED BY <1>5, <2>1 DEF FailedIsNotStored, Unproved
<1>6. /\ \A u \in Possible' : u \in Possible \/ (u = Turn /\ step \in InHand)
      /\ \A u \in Unanswered' : u \in Unanswered \/ (u = Turn /\ step \in InHand)
  BY DEF Respects
<1>7. ASSUME starts' = starts, i \in DOMAIN results, results'[i] = results[i]
      PROVE  Spared(i)
  <2>1. /\ turn(i) \notin Unanswered
        /\ results'[i].code # "SESSION_EXPIRED" => turn(i) \notin Possible
    BY <1>4, <1>7 DEF TurnOf
  <2>2. step \in InHand => turn(i) # Turn
    <3>1. step \in InHand => results[i].who # current  BY <1>7, InHandHasNoRow
    <3> QED BY <1>7, <3>1 DEF Turn
  <2> QED BY <1>6, <2>1, <2>2 DEF Possible
<1>8. CASE Outside
  BY <1>7, <1>8 DEF Outside, Extends, Unproved
<1>9. CASE Inside  BY <1>7, <1>9 DEF Inside
<1>10. CASE Settling(answer)
  <2>1. PICK outcome \in Outcomes, code \in Codes :
          /\ results' = Append(results, Row(current, outcome, code))
          /\ outcome = "failed" /\ code \notin {"DUPLICATE_RECORD", "SUBMISSION_FAILED"}
               => Unsent(answer) /\ (step = "submit" => code = answer)
    BY <1>10 DEF Settling
  <2> DEFINE row == Row(current, outcome, code)
  <2>2. current \in Trainees /\ starts' = starts  BY <1>10 DEF Settling, EngineInv, EngineTypes
  <2>3. row \in Rows /\ row.who = current /\ row.outcome = outcome /\ row.code = code
    BY <2>2 DEF Row, Rows, Outcomes, Codes
  <2>4. /\ Len(results) \in Nat /\ DOMAIN results = 1 .. Len(results)
        /\ Len(results') = Len(results) + 1 /\ DOMAIN results' = 1 .. Len(results')
        /\ \A k \in 1 .. Len(results) : results'[k] = results[k]
        /\ results'[Len(results) + 1] = row
    <3> HIDE DEF row
    <3> QED BY <1>1, <2>1, <2>3, AppendProperties, LenProperties DEF row
  <2>5. CASE i \in DOMAIN results  BY <1>7, <2>2, <2>4, <2>5
  <2>6. CASE i \notin DOMAIN results
    <3>1. i = Len(results) + 1  BY <2>4, <2>6
    <3>2. turn(i) = Turn /\ Unsent(answer) /\ (step = "submit" => results'[i].code = answer)
      BY <2>1, <2>2, <2>3, <2>4, <3>1 DEF Turn, Unproved
    <3> QED BY <1>10, <3>2 DEF Respects
  <2> QED BY <2>5, <2>6
<1>11. CASE Starting  BY <1>11 DEF Starting
<1> QED BY <1>8, <1>9, <1>10, <1>11 DEF Moves

LEMMA Rest ==
  ASSUME EngineInv, EngineInv', TabInv, TabTypes', LiveInv', OncePlaced',
         NEW answer, Moves(answer), Respects(answer)
  PROVE  TabInv'
BY BegunKept, FreshKept, FailedKept DEF TabInv

(* A step the tab has no part in. *)
LEMMA EngineAlone ==
  ASSUME EngineInv, EngineInv', TabInv, UNCHANGED tab, Outside \/ Inside \/ Starting,
         (step' = step /\ UNCHANGED <<current, starts>>) \/ step \notin Commands
  PROVE  TabInv'
<1> USE DEF InHand, Preparing
<1>1. /\ Used' = Used /\ Possible' = Possible /\ Unanswered' = Unanswered /\ LiveFlights' = LiveFlights
      /\ UNCHANGED <<late, flights, selected, form, submission, posts, stored>>
  BY DEF tab, Used, Possible, Unanswered, LateTurns, Submits, PostedTurns, PostingTurns, Posting, LiveFlights, InFlight
<1>2. TabTypes'  BY <1>1 DEF TabInv, TabTypes, InFlight
<1>3. LiveInv'  BY <1>1 DEF TabInv, LiveInv, Turn
<1>4. OncePlaced'
  BY <1>1 DEF TabInv, OncePlaced, AtMostOnePost, LateTurns, Submits, PostedTurns, Posting, InFlight
<1>5. ~ Settling("none")  BY DEF Settling, Outside, Inside, Starting
<1>6. Moves("none")  BY DEF Moves
<1>7. step' \in Preparing \/ (step' = "submit" /\ LiveFlights' = {}) =>
        (step = "submit" => LiveFlights = {})
  BY <1>1 DEF Outside, Inside, Starting
<1>8. Respects("none")  BY <1>1, <1>5, <1>7 DEF Respects
<1> QED BY <1>2, <1>3, <1>4, <1>6, <1>8, Rest

(* An answer reaches the engine, and nothing more is on its way to it. *)
LEMMA HeardTab ==
  ASSUME EngineInv, TabInv, TabTypes', OncePlaced', NEW answer \in Answers, Hear(answer),
         LiveFlights' = {},
         \A u \in Used' : u \in Used \/ (u = Turn /\ step = "submit"),
         \A u \in Possible' : u \in Possible \/ (u = Turn /\ step = "submit"),
         \A u \in Unanswered' : u \in Unanswered \/ (u = Turn /\ step = "submit"),
         step = "submit" /\ answer \in NeverSent =>
           Turn \notin Unanswered' /\ (Turn \in stored' => answer = "SESSION_EXPIRED")
  PROVE  EngineInv' /\ TabInv'
<1> USE DEF InHand, Preparing
<1>1. EngineInv' /\ (Outside \/ Inside \/ Settling(answer))  BY HearKeeps
<1>2. LiveInv'  BY DEF LiveInv
<1>3. step = "submit" => step' \in {"wait", "saving"}
  BY DEF Hear, Initialized, Processes, Submitted, Settle
<1>4. step \in Preparing => Turn \notin Possible'
  <2>1. step \in Preparing => Turn \notin Used  BY DEF TabInv, FreshInv
  <2>2. Possible \subseteq Used  BY PossibleAreUsed DEF TabInv
  <2> QED BY <2>1, <2>2
<1>5. Respects(answer)  BY <1>3, <1>4 DEF Respects, Unsent, Possible
<1> QED BY <1>1, <1>2, <1>5, Rest DEF Moves

(* The tab goes on and the engine does not hear of it. *)
LEMMA UnheardTab ==
  ASSUME EngineInv, TabInv, TabTypes', LiveInv', OncePlaced', UNCHANGED engine,
         \A u \in Used' : u \in Used \/ (u = Turn /\ step = "submit" /\ LiveFlights' # {}),
         \A u \in Possible' : u \in Possible \/ (u = Turn /\ step = "submit"),
         \A u \in Unanswered' : u \in Unanswered \/ (u = Turn /\ step = "submit"),
         LiveFlights' = {} => LiveFlights = {}
  PROVE  EngineInv' /\ TabInv'
<1> USE DEF InHand, Preparing
<1>1. EngineInv' /\ (Outside \/ Inside)  BY StillKeeps
<1>2. step' = step  BY DEF engine
<1>3. ~ Settling("none")  BY <1>1 DEF Settling, Outside, Inside
<1>4. Respects("none")  BY <1>2, <1>3 DEF Respects
<1> QED BY <1>1, <1>4, Rest DEF Moves

-----------------------------------------------------------------------------
(* Messages and fetches. *)

LateOnce == \A i, j \in Submits : late[i].turn = late[j].turn => i = j

(* Messages that are handled or lost leave the others as they were. *)
LEMMA LateShrinks ==
  ASSUME late \in Seq(Messages), LateOnce,
         \/ late' = late
         \/ late # << >> /\ late' = Tail(late)
         \/ late' = << >>
  PROVE  late' \in Seq(Messages) /\ LateTurns' \subseteq LateTurns /\ LateOnce'
<1>1. CASE late' = late  BY <1>1 DEF LateTurns, Submits, LateOnce
<1>2. CASE late' = << >>
  <2>1. late' \in Seq(Messages) /\ DOMAIN late' = {}  BY <1>2
  <2> QED BY <2>1 DEF LateTurns, Submits, LateOnce
<1>3. CASE late # << >> /\ late' = Tail(late)
  <2>1. /\ late' \in Seq(Messages) /\ Len(late') = Len(late) - 1 /\ Len(late) \in Nat
        /\ \A i \in 1 .. Len(late') : late'[i] = late[i + 1]
        /\ DOMAIN late = 1 .. Len(late) /\ DOMAIN late' = 1 .. Len(late')
    BY <1>3, HeadTailProperties, LenProperties
  <2>2. \A i \in Submits' : i \in Nat /\ i + 1 \in Submits /\ late'[i] = late[i + 1]
    BY <2>1 DEF Submits
  <2>3. LateTurns' \subseteq LateTurns  BY <2>2 DEF LateTurns
  <2>4. LateOnce'
    <3> SUFFICES ASSUME NEW i \in Submits', NEW j \in Submits', late'[i].turn = late'[j].turn
                 PROVE  i = j
      BY DEF LateOnce
    <3>1. i + 1 = j + 1  BY <2>2 DEF LateOnce
    <3> QED BY <2>2, <3>1
  <2> QED BY <2>1, <2>3, <2>4
<1> QED BY <1>1, <1>2, <1>3

(* The message handled is gone for good. *)
LEMMA HeadHandled ==
  ASSUME late \in Seq(Messages), LateOnce, late # << >>, late' = Tail(late)
  PROVE  /\ Head(late) \in Messages
         /\ Head(late).cmd = "submit" =>
              Head(late).turn \in LateTurns /\ Head(late).turn \notin LateTurns'
<1>1. /\ Head(late) = late[1] /\ Head(late) \in Messages /\ Len(late) \in Nat \ {0}
      /\ Len(late') = Len(late) - 1 /\ late' \in Seq(Messages)
      /\ \A i \in 1 .. Len(late') : late'[i] = late[i + 1]
      /\ DOMAIN late = 1 .. Len(late) /\ DOMAIN late' = 1 .. Len(late')
  BY HeadTailProperties, LenProperties, EmptySeq
<1>2. \A i \in Submits' : i + 1 \in Submits /\ late'[i] = late[i + 1] /\ i + 1 # 1
  BY <1>1 DEF Submits
<1>3. Head(late).cmd = "submit" => 1 \in Submits  BY <1>1 DEF Submits
<1>4. ASSUME Head(late).cmd = "submit", Head(late).turn \in LateTurns' PROVE FALSE
  <2>1. PICK i \in Submits' : late'[i].turn = Head(late).turn  BY <1>4 DEF LateTurns
  <2>2. i + 1 = 1  BY <1>1, <1>2, <1>3, <1>4, <2>1 DEF LateOnce
  <2> QED BY <1>2, <2>1, <2>2
<1> QED BY <1>1, <1>3, <1>4 DEF LateTurns

LEMMA FlyEffects ==
  ASSUME TabTypes, NEW f \in Flights, Fly(f)
  PROVE  /\ InFlight' = InFlight \cup {f} /\ InFlight' \subseteq Flights
         /\ flights' \in [InFlight' -> Nat \ {0}]
         /\ \A g \in InFlight : g # f => flights'[g] = flights[g]
         /\ f \notin InFlight => flights'[f] = 1
<1>1. flights \in [DOMAIN flights -> Nat \ {0}] /\ InFlight = DOMAIN flights
  BY DEF TabTypes, InFlight, BagToSet
<1>2. InFlight' = DOMAIN flights'  BY DEF InFlight, BagToSet
<1>3. /\ DOMAIN flights' = DOMAIN flights \cup {f}
      /\ flights' \in [DOMAIN flights' -> Nat \ {0}]
      /\ \A g \in DOMAIN flights : g # f => flights'[g] = flights[g]
      /\ f \notin DOMAIN flights => flights'[f] = 1
  BY <1>1 DEF Fly, (+), SetToBag
<1> QED BY <1>1, <1>2, <1>3 DEF TabTypes

LEMMA LandEffects ==
  ASSUME TabTypes, NEW f \in InFlight, Land(f)
  PROVE  /\ InFlight' \subseteq InFlight /\ InFlight \ {f} \subseteq InFlight'
         /\ flights' \in [InFlight' -> Nat \ {0}]
         /\ flights[f] = 1 => f \notin InFlight'
         /\ \A g \in InFlight' : g # f => flights'[g] = flights[g]
<1>1. flights \in [DOMAIN flights -> Nat \ {0}] /\ InFlight = DOMAIN flights
  BY DEF TabTypes, InFlight, BagToSet
<1>2. InFlight' = DOMAIN flights'  BY DEF InFlight, BagToSet
<1> QED BY <1>1, <1>2, LandBag DEF Land

(* One fetch is answered and another made for it. *)
LEMMA LandAndFlyEffects ==
  ASSUME TabTypes, NEW f \in InFlight, NEW g \in Flights, g # f, LandAndFly(f, g)
  PROVE  /\ InFlight' \subseteq InFlight \cup {g} /\ (InFlight \ {f}) \cup {g} \subseteq InFlight'
         /\ InFlight' \subseteq Flights
         /\ flights' \in [InFlight' -> Nat \ {0}]
         /\ flights[f] = 1 => f \notin InFlight'
         /\ \A h \in InFlight' : h \notin {f, g} => flights'[h] = flights[h]
         /\ g \notin InFlight => flights'[g] = 1
<1>1. flights \in [DOMAIN flights -> Nat \ {0}] /\ InFlight = DOMAIN flights
  BY DEF TabTypes, InFlight, BagToSet
<1>2. InFlight' = DOMAIN flights'  BY DEF InFlight, BagToSet
<1> DEFINE mid == flights (-) SetToBag({f})
<1>3. /\ DOMAIN mid \subseteq InFlight /\ InFlight \ {f} \subseteq DOMAIN mid
      /\ flights[f] = 1 => f \notin DOMAIN mid
      /\ mid \in [DOMAIN mid -> Nat \ {0}]
      /\ \A h \in DOMAIN mid : h # f => mid[h] = flights[h]
  BY <1>1, LandBag
<1>4. flights' = mid (+) SetToBag({g})  BY DEF LandAndFly
<1> HIDE DEF mid
<1>5. /\ DOMAIN flights' = DOMAIN mid \cup {g}
      /\ flights' \in [DOMAIN flights' -> Nat \ {0}]
      /\ \A h \in DOMAIN mid : h # g => flights'[h] = mid[h]
      /\ g \notin DOMAIN mid => flights'[g] = 1
  BY <1>3, <1>4 DEF (+), SetToBag
<1> QED BY <1>2, <1>3, <1>5 DEF TabTypes

(* Nothing is POSTed, and what the portal records is no longer on its way. *)
LEMMA PlacedStays ==
  ASSUME OncePlaced, posts' = posts, LateTurns' \subseteq LateTurns, LateOnce',
         PostingTurns' \subseteq PostingTurns,
         \A g \in Posting' : flights'[g] = 1,
         \A f, g \in Posting' : f.turn = g.turn => f = g,
         stored' \subseteq stored \cup PostingTurns, stored' \cap PostingTurns' = {}
  PROVE  OncePlaced' /\ Fewer
<1>1. PostedTurns' = PostedTurns  BY DEF PostedTurns
<1>2. PostingTurns \subseteq PostedTurns /\ stored \subseteq PostedTurns
  BY DEF OncePlaced, PostingTurns
<1>3. OncePlaced'
  BY <1>1, <1>2 DEF OncePlaced, AtMostOnePost, LateOnce, PostingTurns
<1> QED BY <1>1, <1>3 DEF Fewer, Used, Possible, Unanswered

(* A POST is made for a turn that had none. *)
LEMMA PostPlaced ==
  ASSUME TabTypes, OncePlaced, NEW turn \in Turns, turn \notin PostedTurns,
         LateTurns' \subseteq LateTurns, turn \notin LateTurns', LateOnce',
         NEW p \in Posts, p.turn = turn, posts' = Append(posts, p),
         NEW g \in Flights, g.kind = "post", g.turn = turn, Fly(g), stored' = stored
  PROVE  /\ OncePlaced' /\ posts' \in Seq(Posts)
         /\ Used' \subseteq Used \cup {turn} /\ Possible' \subseteq Possible \cup {turn}
        /\ Unanswered' \subseteq Unanswered \cup {turn}
<1>1. /\ posts' \in Seq(Posts) /\ Len(posts') = Len(posts) + 1 /\ Len(posts) \in Nat
      /\ \A i \in 1 .. Len(posts) : posts'[i] = posts[i]
      /\ posts'[Len(posts) + 1] = p
      /\ DOMAIN posts = 1 .. Len(posts) /\ DOMAIN posts' = 1 .. Len(posts')
  BY AppendProperties, LenProperties DEF TabTypes
<1>2. \A i \in DOMAIN posts' :
        \/ i \in DOMAIN posts /\ posts'[i].turn = posts[i].turn
        \/ i = Len(posts) + 1 /\ posts'[i].turn = turn
  BY <1>1
<1>3. PostedTurns' = PostedTurns \cup {turn}
  <2>1. PostedTurns' \subseteq PostedTurns \cup {turn}  BY <1>2 DEF PostedTurns
  <2>2. PostedTurns \subseteq PostedTurns'  BY <1>1 DEF PostedTurns
  <2>3. turn \in PostedTurns'
    <3>1. Len(posts) + 1 \in DOMAIN posts'  BY <1>1
    <3> QED BY <1>1, <3>1 DEF PostedTurns
  <2> QED BY <2>1, <2>2, <2>3
<1>4. \A i \in DOMAIN posts : posts[i].turn \in PostedTurns  BY DEF PostedTurns
<1>5. AtMostOnePost'
  <2> SUFFICES ASSUME NEW i \in DOMAIN posts', NEW j \in DOMAIN posts',
                      posts'[i].turn = posts'[j].turn
               PROVE  i = j
    BY DEF AtMostOnePost
  <2> QED BY <1>2, <1>4 DEF OncePlaced, AtMostOnePost
<1>6. /\ InFlight' = InFlight \cup {g}
      /\ \A h \in InFlight : h # g => flights'[h] = flights[h]
      /\ g \notin InFlight => flights'[g] = 1
  BY FlyEffects
<1>7. Posting' = Posting \cup {g}  BY <1>6 DEF Posting
<1>8. \A f \in Posting : f.turn \in PostedTurns /\ f # g  BY DEF OncePlaced
<1>9. g \notin InFlight  BY <1>8 DEF Posting
<1>10. PostingTurns' \subseteq PostingTurns \cup {turn}  BY <1>7 DEF PostingTurns
<1>11. OncePlaced'
  <2>1. \A f \in Posting' : f.turn \in PostedTurns' /\ f.turn \notin stored' /\ flights'[f] = 1
    BY <1>3, <1>6, <1>7, <1>8, <1>9 DEF OncePlaced, Posting
  <2>2. \A f, h \in Posting' : f.turn = h.turn => f = h
    BY <1>7, <1>8 DEF OncePlaced
  <2> QED BY <1>3, <1>5, <2>1, <2>2 DEF OncePlaced, LateOnce
<1> QED BY <1>1, <1>3, <1>10, <1>11 DEF Used, Possible, Unanswered

-----------------------------------------------------------------------------
(* The commands. *)

Nothing(live) ==
  UNCHANGED <<flights, posts, stored>> /\ \E answer \in Answers : Answer(live, answer)
Fetches(cmd, turn, live) ==
  /\ cmd # "submit" /\ UNCHANGED <<posts, stored, engine>>
  /\ \E kind \in {"list", "form"}, who \in Trainees \cup {NoTrainee} :
       Fly(Flight(kind, who, turn, live))
Posts1(cmd, turn, live) ==
  /\ cmd = "submit" /\ UNCHANGED <<stored, engine>>
  /\ \E p \in Posts, who \in Trainees \cup {NoTrainee} :
       p.turn = turn /\ posts' = Append(posts, p) /\ Fly(Flight("post", who, turn, live))

(* Whatever the command, its handling answers at once, or leaves a fetch of it *)
(* on its way, and only a submit leaves a POST.                               *)
LEMMA HandlesEffects ==
  ASSUME EngineInv, TabTypes, NEW cmd \in Commands, NEW turn \in Turns, NEW live \in BOOLEAN,
         Handles(cmd, turn, live)
  PROVE  /\ selected' \in Trainees \cup {NoTrainee}
         /\ form' \in [of : Trainees \cup {NoTrainee}, filled : BOOLEAN]
         /\ submission' \in {"none", "confirmed", "duplicate", "rejected", "CONFIRMATION_UNKNOWN"}
         /\ Nothing(live) \/ Fetches(cmd, turn, live) \/ Posts1(cmd, turn, live)
<1>t. /\ selected \in Trainees \cup {NoTrainee}
      /\ form \in [of : Trainees \cup {NoTrainee}, filled : BOOLEAN]
      /\ submission \in {"none", "confirmed", "duplicate", "rejected", "CONFIRMATION_UNKNOWN"}
      /\ turn.who \in Trainees \cup {NoTrainee} /\ NoTrainee \in Trainees \cup {NoTrainee}
  BY DEF TabTypes, Turns
<1> USE DEF Nothing
<1>1. CASE cmd = "is_page" /\ IsPortalPage(live)
  BY <1>t, <1>1 DEF IsPortalPage, tab, Answers
<1>2. CASE cmd = "session_ready" /\ IsTrainingSessionReady(live)
  BY <1>t, <1>2 DEF IsTrainingSessionReady, tab, Answers
<1>3. CASE cmd \in {"initialize", "reinitialize"} /\ InitializeTrainingSession(turn, live)
  BY <1>t, <1>3 DEF InitializeTrainingSession, Fetches
<1>4. CASE cmd = "prepare" /\ PrepareTrainee(turn, live)
  <2>1. /\ selected' = turn.who /\ submission' = "none" /\ form' = form
        /\ UNCHANGED <<posts, stored>>
    BY <1>4 DEF PrepareTrainee
  <2>2. CASE form.of = turn.who
    BY <1>t, <1>4, <2>1, <2>2 DEF PrepareTrainee, Answers
  <2>3. CASE form.of # turn.who
    BY <1>t, <1>4, <2>1, <2>3 DEF PrepareTrainee, Fetches
  <2> QED BY <2>2, <2>3
<1>5. CASE cmd = "fill" /\ FillTrainingForm(turn, live)
  <2>1. UNCHANGED <<flights, selected, submission, posts, stored>>
    BY <1>5 DEF FillTrainingForm
  <2>2. \E answer \in Answers : Answer(live, answer)
    BY <1>5 DEF FillTrainingForm, Answers, NeverSent
  <2>3. form' \in [of : Trainees \cup {NoTrainee}, filled : BOOLEAN]
    BY <1>t, <1>5 DEF FillTrainingForm
  <2> QED BY <1>t, <2>1, <2>2, <2>3
<1>6. CASE cmd = "validate" /\ ValidateTrainingForm(live)
  <2>1. UNCHANGED tab  BY <1>6 DEF ValidateTrainingForm
  <2>2. \E answer \in Answers : Answer(live, answer)
    BY <1>6 DEF ValidateTrainingForm, Answers, NeverSent
  <2> QED BY <1>t, <2>1, <2>2 DEF tab
<1>7. CASE cmd = "submit" /\ SubmitTrainingForm(turn, live)
  <2>1. UNCHANGED <<selected, form, submission>>
    BY <1>7 DEF SubmitTrainingForm, DialogsNotArmed
  <2>2. CASE DialogsNotArmed(live)
    BY <1>t, <2>1, <2>2 DEF DialogsNotArmed, Answers, Recoverable
  <2>3. CASE /\ \/ form = NoForm /\ Answer(live, "MISSING_DATA")
                \/ /\ form # NoForm
                   /\ \E code \in {"PORTAL_STRUCTURE_CHANGED", "NETWORK"} : Answer(live, code)
             /\ UNCHANGED <<flights, selected, form, submission, reloads, posts, stored, overrun>>
    BY <1>t, <2>1, <2>3 DEF Answers, Recoverable, NeverSent
  <2>4. CASE /\ posts' = Append(posts, [of |-> form.of, filled |-> form.filled, turn |-> turn])
             /\ Fly(Flight("post", form.of, turn, live))
             /\ UNCHANGED <<selected, form, submission, reloads, stored, overrun, engine>>
    <3>1. /\ [of |-> form.of, filled |-> form.filled, turn |-> turn] \in Posts
          /\ form.of \in Trainees \cup {NoTrainee}
      BY <1>t DEF Posts
    <3> QED BY <1>t, <1>7, <2>1, <2>4, <3>1 DEF Posts1
  <2> QED BY <1>7, <2>2, <2>3, <2>4 DEF SubmitTrainingForm
<1>8. CASE cmd = "wait" /\ WaitForSubmissionResult(live)
  <2>1. UNCHANGED tab  BY <1>8 DEF WaitForSubmissionResult
  <2>2. \E answer \in Answers : Answer(live, answer)
    BY <1>t, <1>8 DEF WaitForSubmissionResult, Answers, Recoverable
  <2> QED BY <1>t, <2>1, <2>2 DEF tab
<1> QED BY <1>1, <1>2, <1>3, <1>4, <1>5, <1>6, <1>7, <1>8 DEF Handles

(* The parts of OncePlaced that a step which leaves POSTs and records alone    *)
(* has to show no more about.                                                 *)
LEMMA SamePosting ==
  ASSUME TabTypes, OncePlaced, UNCHANGED <<posts, stored>>, LateTurns' \subseteq LateTurns, LateOnce',
         Posting' \subseteq Posting, \A f \in Posting' : flights'[f] = flights[f]
  PROVE  OncePlaced' /\ Fewer
<1>1. PostingTurns' \subseteq PostingTurns  BY DEF PostingTurns
<1>2. \A g \in Posting' : flights'[g] = 1  BY DEF OncePlaced
<1>3. \A f, g \in Posting' : f.turn = g.turn => f = g  BY DEF OncePlaced
<1>4. stored' \cap PostingTurns' = {}  BY DEF OncePlaced, PostingTurns
<1> QED BY <1>1, <1>2, <1>3, <1>4, PlacedStays

LEMMA HandleAwaitedKeeps ==
  ASSUME EngineInv, TabInv, HandleAwaited
  PROVE  EngineInv' /\ TabInv'
<1> USE DEF Fewer
<1>1. /\ late = << >> /\ late' = late /\ step \in Commands /\ LiveFlights = {}
      /\ Handles(step, Turn, TRUE)
  BY DEF HandleAwaited, Undelivered
<1>2. TabTypes /\ OncePlaced /\ FreshInv /\ Turn \in Turns  BY TurnsTyped DEF TabInv
<1>3. /\ selected' \in Trainees \cup {NoTrainee}
      /\ form' \in [of : Trainees \cup {NoTrainee}, filled : BOOLEAN]
      /\ submission' \in {"none", "confirmed", "duplicate", "rejected", "CONFIRMATION_UNKNOWN"}
      /\ Nothing(TRUE) \/ Fetches(step, Turn, TRUE) \/ Posts1(step, Turn, TRUE)
  BY <1>1, <1>2, HandlesEffects
<1>4. late \in Seq(Messages) /\ LateOnce  BY <1>2 DEF TabTypes, OncePlaced, LateOnce
<1>5. late' \in Seq(Messages) /\ LateTurns' \subseteq LateTurns /\ LateOnce'
  BY <1>1, <1>4, LateShrinks
<1>6. LateTurns' = {}  BY <1>1 DEF LateTurns, Submits
<1>7. CASE Nothing(TRUE)
  <2>1. PICK answer \in Answers : Hear(answer)  BY <1>7 DEF Nothing, Answer
  <2>2. UNCHANGED <<flights, posts, stored>> /\ InFlight' = InFlight /\ Posting' = Posting
        /\ LiveFlights' = {}
    BY <1>1, <1>7 DEF Nothing, InFlight, Posting, LiveFlights
  <2>3. TabTypes'  BY <1>2, <1>3, <1>5, <2>2 DEF TabTypes
  <2>4. OncePlaced' /\ Fewer
    BY <1>2, <1>5, <2>2, SamePosting
  <2>5. step = "submit" => Turn \notin Possible'
    BY <1>1, <1>2, <2>4, PossibleAreUsed DEF FreshInv
  <2>6. step = "submit" => Turn \notin Unanswered' /\ Turn \notin stored'
    BY <2>5 DEF Possible
  <2> QED BY <2>1, <2>2, <2>3, <2>4, <2>6, HeardTab
<1>8. CASE Fetches(step, Turn, TRUE)
  <2>1. PICK kind \in {"list", "form"}, who \in Trainees \cup {NoTrainee} :
          Fly(Flight(kind, who, Turn, TRUE))
    BY <1>8 DEF Fetches
  <2> DEFINE f == Flight(kind, who, Turn, TRUE)
  <2>2. f \in Flights /\ f.kind = kind /\ f.turn = Turn /\ f.live = TRUE
    BY <1>2 DEF Flight, Flights
  <2> HIDE DEF f
  <2>3. Fly(f)  BY <2>1 DEF f
  <2>4. /\ InFlight' = InFlight \cup {f} /\ InFlight' \subseteq Flights
        /\ flights' \in [InFlight' -> Nat \ {0}]
        /\ \A g \in InFlight : g # f => flights'[g] = flights[g]
        /\ f \notin InFlight => flights'[f] = 1
    BY <1>2, <2>2, <2>3, FlyEffects
  <2>5. UNCHANGED <<posts, stored, engine>> /\ step # "submit"  BY <1>8 DEF Fetches
  <2>6. TabTypes'  BY <1>2, <1>3, <1>5, <2>4, <2>5 DEF TabTypes
  <2>7. LiveFlights' = {f} /\ f \notin InFlight  BY <1>1, <2>2, <2>4 DEF LiveFlights
  <2>8. LiveInv'
    <3>1. Turn' = Turn /\ step' = step  BY <2>5 DEF Turn, engine
    <3> QED BY <1>1, <2>2, <2>4, <2>5, <2>7, <3>1 DEF LiveInv
  <2>9. Posting' = Posting /\ \A g \in Posting' : flights'[g] = flights[g]
    BY <2>2, <2>4 DEF Posting
  <2>10. OncePlaced' /\ Fewer
    BY <1>2, <1>5, <2>5, <2>9, SamePosting
  <2> QED BY <1>1, <2>5, <2>6, <2>8, <2>10, UnheardTab
<1>9. CASE Posts1(step, Turn, TRUE)
  <2>1. PICK p \in Posts, who \in Trainees \cup {NoTrainee} :
          p.turn = Turn /\ posts' = Append(posts, p) /\ Fly(Flight("post", who, Turn, TRUE))
    BY <1>9 DEF Posts1
  <2> DEFINE f == Flight("post", who, Turn, TRUE)
  <2>2. f \in Flights /\ f.kind = "post" /\ f.turn = Turn /\ f.live = TRUE
    BY <1>2 DEF Flight, Flights
  <2> HIDE DEF f
  <2>3. Fly(f)  BY <2>1 DEF f
  <2>4. /\ InFlight' = InFlight \cup {f} /\ InFlight' \subseteq Flights
        /\ flights' \in [InFlight' -> Nat \ {0}]
        /\ f \notin InFlight => flights'[f] = 1
    BY <1>2, <2>2, <2>3, FlyEffects
  <2>5. UNCHANGED <<stored, engine>> /\ step = "submit"  BY <1>9 DEF Posts1
  <2>6. Turn \notin Used  BY <1>1, <1>2, <2>5 DEF FreshInv
  <2>7. /\ OncePlaced' /\ posts' \in Seq(Posts)
        /\ Used' \subseteq Used \cup {Turn} /\ Possible' \subseteq Possible \cup {Turn}
        /\ Unanswered' \subseteq Unanswered \cup {Turn}
    <3>1. Turn \notin PostedTurns /\ Turn \notin LateTurns'  BY <1>6, <2>6 DEF Used
    <3> QED BY <1>2, <1>5, <2>1, <2>2, <2>3, <2>5, <3>1, PostPlaced
  <2>8. TabTypes'  BY <1>2, <1>3, <1>5, <2>4, <2>5, <2>7 DEF TabTypes
  <2>9. LiveFlights' = {f} /\ f \notin InFlight  BY <1>1, <2>2, <2>4 DEF LiveFlights
  <2>10. LiveInv'
    <3>1. Turn' = Turn /\ step' = step  BY <2>5 DEF Turn, engine
    <3> QED BY <1>1, <2>2, <2>4, <2>5, <2>9, <3>1 DEF LiveInv
  <2> QED BY <1>1, <2>5, <2>7, <2>8, <2>9, <2>10, UnheardTab
<1> QED BY <1>3, <1>7, <1>8, <1>9

(* The engine and the fetch it waits for are where they were. *)
LEMMA LiveSame ==
  ASSUME LiveInv, UNCHANGED engine, LiveFlights' = LiveFlights,
         \A g \in LiveFlights : flights'[g] = flights[g]
  PROVE  LiveInv'
<1>1. Turn' = Turn /\ step' = step  BY DEF Turn, engine
<1> QED BY <1>1 DEF LiveInv

LEMMA HandleLateKeeps ==
  ASSUME EngineInv, TabInv, HandleLate
  PROVE  EngineInv' /\ TabInv'
<1> USE DEF Fewer
<1> DEFINE cmd == Head(late).cmd
           turn == Head(late).turn
<1>1. late # << >> /\ late' = Tail(late) /\ Handles(cmd, turn, FALSE)
  BY DEF HandleLate
<1>2. TabTypes /\ OncePlaced /\ LiveInv  BY DEF TabInv
<1>4. late \in Seq(Messages) /\ LateOnce  BY <1>2 DEF TabTypes, OncePlaced, LateOnce
<1>5. late' \in Seq(Messages) /\ LateTurns' \subseteq LateTurns /\ LateOnce'
  BY <1>1, <1>4, LateShrinks
<1>6. /\ Head(late) \in Messages
      /\ cmd = "submit" => turn \in LateTurns /\ turn \notin LateTurns'
  BY <1>1, <1>4, HeadHandled
<1>7. cmd \in Commands /\ turn \in Turns  BY <1>6 DEF Messages
<1> HIDE DEF cmd, turn
<1>8. /\ selected' \in Trainees \cup {NoTrainee}
      /\ form' \in [of : Trainees \cup {NoTrainee}, filled : BOOLEAN]
      /\ submission' \in {"none", "confirmed", "duplicate", "rejected", "CONFIRMATION_UNKNOWN"}
      /\ Nothing(FALSE) \/ Fetches(cmd, turn, FALSE) \/ Posts1(cmd, turn, FALSE)
  BY <1>1, <1>2, <1>7, HandlesEffects
<1>9. CASE Nothing(FALSE)
  <2>1. /\ UNCHANGED <<flights, posts, stored>> /\ InFlight' = InFlight /\ Posting' = Posting
        /\ LiveFlights' = LiveFlights /\ UNCHANGED engine
    BY <1>9 DEF Nothing, Answer, InFlight, Posting, LiveFlights
  <2>2. TabTypes'  BY <1>2, <1>8, <1>5, <2>1 DEF TabTypes
  <2>3. OncePlaced' /\ Fewer
    BY <1>2, <1>5, <2>1, SamePosting
  <2>4. LiveInv'  BY <1>2, <2>1, LiveSame
  <2> QED BY <2>1, <2>2, <2>3, <2>4, UnheardTab
<1>10. CASE Fetches(cmd, turn, FALSE)
  <2>1. PICK kind \in {"list", "form"}, who \in Trainees \cup {NoTrainee} :
          Fly(Flight(kind, who, turn, FALSE))
    BY <1>10 DEF Fetches
  <2> DEFINE f == Flight(kind, who, turn, FALSE)
  <2>2. f \in Flights /\ f.kind = kind /\ f.turn = turn /\ f.live = FALSE
    BY <1>7 DEF Flight, Flights
  <2> HIDE DEF f
  <2>3. Fly(f)  BY <2>1 DEF f
  <2>4. /\ InFlight' = InFlight \cup {f} /\ InFlight' \subseteq Flights
        /\ flights' \in [InFlight' -> Nat \ {0}]
        /\ \A g \in InFlight : g # f => flights'[g] = flights[g]
    BY <1>2, <2>2, <2>3, FlyEffects
  <2>5. UNCHANGED <<posts, stored, engine>>  BY <1>10 DEF Fetches
  <2>6. TabTypes'  BY <1>2, <1>8, <1>5, <2>4, <2>5 DEF TabTypes
  <2>7. LiveFlights' = LiveFlights /\ \A g \in LiveFlights : flights'[g] = flights[g]
    BY <2>2, <2>4 DEF LiveFlights
  <2>8. LiveInv'  BY <1>2, <2>5, <2>7, LiveSame
  <2>9. Posting' = Posting /\ \A g \in Posting' : flights'[g] = flights[g]
    BY <2>2, <2>4 DEF Posting
  <2>10. OncePlaced' /\ Fewer
    BY <1>2, <1>5, <2>5, <2>9, SamePosting
  <2> QED BY <2>5, <2>6, <2>7, <2>8, <2>10, UnheardTab
<1>11. CASE Posts1(cmd, turn, FALSE)
  <2>1. PICK p \in Posts, who \in Trainees \cup {NoTrainee} :
          p.turn = turn /\ posts' = Append(posts, p) /\ Fly(Flight("post", who, turn, FALSE))
    BY <1>11 DEF Posts1
  <2> DEFINE f == Flight("post", who, turn, FALSE)
  <2>2. f \in Flights /\ f.kind = "post" /\ f.turn = turn /\ f.live = FALSE
    BY <1>7 DEF Flight, Flights
  <2> HIDE DEF f
  <2>3. Fly(f)  BY <2>1 DEF f
  <2>4. /\ InFlight' = InFlight \cup {f} /\ InFlight' \subseteq Flights
        /\ flights' \in [InFlight' -> Nat \ {0}]
        /\ \A g \in InFlight : g # f => flights'[g] = flights[g]
    BY <1>2, <2>2, <2>3, FlyEffects
  <2>5. UNCHANGED <<stored, engine>> /\ cmd = "submit"  BY <1>11 DEF Posts1
  <2>6. turn \in LateTurns /\ turn \notin LateTurns' /\ turn \notin PostedTurns
    BY <1>2, <1>6, <2>5 DEF OncePlaced
  <2>7. /\ OncePlaced' /\ posts' \in Seq(Posts)
        /\ Used' \subseteq Used \cup {turn} /\ Possible' \subseteq Possible \cup {turn}
        /\ Unanswered' \subseteq Unanswered \cup {turn}
    BY <1>2, <1>5, <1>7, <2>1, <2>2, <2>3, <2>5, <2>6, PostPlaced
  <2>8. Fewer
    BY <2>6, <2>7 DEF Used, Possible, Unanswered
  <2>9. TabTypes'  BY <1>2, <1>8, <1>5, <2>4, <2>5, <2>7 DEF TabTypes
  <2>10. LiveFlights' = LiveFlights /\ \A g \in LiveFlights : flights'[g] = flights[g]
    BY <2>2, <2>4 DEF LiveFlights
  <2>11. LiveInv'  BY <1>2, <2>5, <2>10, LiveSame
  <2> QED BY <2>5, <2>7, <2>8, <2>9, <2>10, <2>11, UnheardTab
<1> QED BY <1>8, <1>9, <1>10, <1>11

-----------------------------------------------------------------------------
(* The fetches. *)

(* The fetch the engine waits for is the only one that can reach it. *)
LEMMA LandLive ==
  ASSUME TabTypes, LiveInv, NEW f \in InFlight, Land(f)
  PROVE  /\ f.live => LiveFlights' = {} /\ f \notin InFlight'
         /\ ~ f.live => LiveFlights' = LiveFlights /\ \A g \in LiveFlights : flights'[g] = flights[g]
<1>1. /\ InFlight' \subseteq InFlight /\ InFlight \ {f} \subseteq InFlight'
      /\ flights[f] = 1 => f \notin InFlight'
      /\ \A g \in InFlight' : g # f => flights'[g] = flights[g]
  BY LandEffects
<1> QED BY <1>1 DEF LiveFlights, LiveInv

(* A fetch lands, whatever the portal answered and whoever hears it. *)
LEMMA LandedKeeps ==
  ASSUME EngineInv, TabInv, NEW f \in InFlight, Land(f), UNCHANGED <<late, posts>>,
         selected' \in Trainees \cup {NoTrainee},
         form' \in [of : Trainees \cup {NoTrainee}, filled : BOOLEAN],
         submission' \in {"none", "confirmed", "duplicate", "rejected", "CONFIRMATION_UNKNOWN"},
         stored' = stored \/ (f.kind = "post" /\ stored' = stored \cup {f.turn}),
         NEW answer \in Answers, Answer(f.live, answer),
         f.kind = "post" /\ answer \in NeverSent \ {"SESSION_EXPIRED"} => stored' = stored
  PROVE  EngineInv' /\ TabInv'
<1> USE DEF Fewer
<1>1. TabTypes /\ OncePlaced /\ LiveInv /\ f \in Flights  BY DEF TabInv, TabTypes
<1>2. /\ InFlight' \subseteq InFlight /\ InFlight \ {f} \subseteq InFlight'
      /\ flights' \in [InFlight' -> Nat \ {0}]
      /\ flights[f] = 1 => f \notin InFlight'
      /\ \A g \in InFlight' : g # f => flights'[g] = flights[g]
  BY <1>1, LandEffects
<1>3. f.turn \in Turns  BY <1>1 DEF Flights
<1>4. TabTypes'  BY <1>1, <1>2, <1>3 DEF TabTypes
<1>5. f.kind = "post" => f \in Posting /\ f \notin InFlight'
  BY <1>1, <1>2 DEF Posting, OncePlaced
<1>6. /\ Posting' \subseteq Posting /\ f \notin Posting' /\ \A g \in Posting' : flights'[g] = flights[g]
  BY <1>2, <1>5 DEF Posting
<1>7. OncePlaced' /\ Fewer
  <2>1. LateTurns' = LateTurns /\ LateOnce'
    BY <1>1 DEF LateTurns, Submits, LateOnce, OncePlaced
  <2>2. PostingTurns' \subseteq PostingTurns  BY <1>6 DEF PostingTurns
  <2>3. \A g \in Posting' : flights'[g] = 1  BY <1>1, <1>6 DEF OncePlaced
  <2>4. \A g, h \in Posting' : g.turn = h.turn => g = h  BY <1>1, <1>6 DEF OncePlaced
  <2>5. stored' \subseteq stored \cup PostingTurns  BY <1>5 DEF PostingTurns
  <2>6. stored' \cap PostingTurns' = {}
    BY <1>1, <1>5, <1>6 DEF PostingTurns, OncePlaced
  <2> QED BY <1>1, <2>1, <2>2, <2>3, <2>4, <2>5, <2>6, PlacedStays
<1>8. CASE f.live
  <2>1. LiveFlights' = {} /\ Hear(answer) /\ f \in LiveFlights
    BY <1>1, <1>8, LandLive DEF Answer, LiveFlights
  <2>2. ASSUME step = "submit", answer \in NeverSent
        PROVE  Turn \notin Unanswered' /\ (Turn \in stored' => answer = "SESSION_EXPIRED")
    <3>1. f.kind = "post" /\ f.turn = Turn  BY <1>1, <2>1, <2>2 DEF LiveInv
    <3>2. f \in Posting /\ (stored' = stored \/ answer = "SESSION_EXPIRED")  BY <1>5, <2>2, <3>1
    <3>3. Turn \notin stored /\ Turn \in PostedTurns  BY <1>1, <3>1, <3>2 DEF OncePlaced
    <3>4. Turn \notin LateTurns'
      <4>1. LateTurns' = LateTurns  BY DEF LateTurns, Submits
      <4> QED BY <1>1, <3>3, <4>1 DEF OncePlaced
    <3>5. Turn \notin PostingTurns'
      BY <1>1, <1>6, <3>1, <3>2 DEF PostingTurns, OncePlaced
    <3> QED BY <3>2, <3>3, <3>4, <3>5 DEF Unanswered
  <2> QED BY <1>4, <1>7, <2>1, <2>2, HeardTab
<1>9. CASE ~ f.live
  <2>1. LiveFlights' = LiveFlights /\ UNCHANGED engine
        /\ \A g \in LiveFlights : flights'[g] = flights[g]
    BY <1>1, <1>9, LandLive DEF Answer
  <2>2. LiveInv'  BY <1>1, <2>1, LiveSame
  <2> QED BY <1>4, <1>7, <2>1, <2>2, UnheardTab
<1> QED BY <1>8, <1>9

(* The trainees are listed, and the first one's form is asked for. *)
LEMMA ListedKeeps ==
  ASSUME EngineInv, TabInv, NEW f \in InFlight, f.kind = "list",
         LandAndFly(f, Flight("form", First, f.turn, f.live)),
         selected' = First, UNCHANGED engine, UNCHANGED <<form, submission, stored, late, posts>>
  PROVE  EngineInv' /\ TabInv'
<1> USE DEF Fewer
<1>1. TabTypes /\ OncePlaced /\ LiveInv /\ f \in Flights  BY DEF TabInv, TabTypes
<1> DEFINE g == Flight("form", First, f.turn, f.live)
<1>2. /\ g \in Flights /\ g.kind = "form" /\ g.turn = f.turn /\ g.live = f.live /\ g # f
  BY <1>1, FirstAssumption DEF Flight, Flights
<1> HIDE DEF g
<1>3. /\ InFlight' \subseteq InFlight \cup {g} /\ (InFlight \ {f}) \cup {g} \subseteq InFlight'
      /\ InFlight' \subseteq Flights
      /\ flights' \in [InFlight' -> Nat \ {0}]
      /\ flights[f] = 1 => f \notin InFlight'
      /\ \A h \in InFlight' : h \notin {f, g} => flights'[h] = flights[h]
      /\ g \notin InFlight => flights'[g] = 1
  BY <1>1, <1>2, LandAndFlyEffects DEF g
<1>4. TabTypes'  BY <1>1, <1>3, FirstAssumption DEF TabTypes
<1>5. Posting' = Posting /\ \A h \in Posting' : flights'[h] = flights[h]
  BY <1>2, <1>3 DEF Posting
<1>6. OncePlaced' /\ Fewer
  <2>1. LateTurns' \subseteq LateTurns /\ LateOnce'
    BY <1>1 DEF LateTurns, Submits, LateOnce, OncePlaced
  <2> QED BY <1>1, <1>5, <2>1, SamePosting
<1>7. LiveInv' /\ (LiveFlights' = {} => LiveFlights = {})
  <2>1. CASE f.live
    <3>1. f \in LiveFlights /\ flights[f] = 1 /\ \A h \in LiveFlights : h = f
      BY <1>1, <2>1 DEF LiveFlights, LiveInv
    <3>2. g \notin InFlight  BY <1>2, <2>1, <3>1 DEF LiveFlights
    <3>3. LiveFlights' = {g} /\ flights'[g] = 1
      BY <1>2, <1>3, <2>1, <3>1, <3>2 DEF LiveFlights
    <3>4. Turn' = Turn /\ step' = step  BY DEF Turn, engine
    <3>5. step \in Commands /\ f.turn = Turn /\ step # "submit"  BY <1>1, <3>1 DEF LiveInv
    <3> QED BY <1>2, <3>3, <3>4, <3>5 DEF LiveInv
  <2>2. CASE ~ f.live
    <3>1. LiveFlights' = LiveFlights /\ \A h \in LiveFlights : flights'[h] = flights[h]
      BY <1>2, <1>3, <2>2 DEF LiveFlights
    <3> QED BY <1>1, <3>1, LiveSame
  <2> QED BY <2>1, <2>2
<1> QED BY <1>4, <1>6, <1>7, UnheardTab

LEMMA LandsKeeps ==
  ASSUME EngineInv, TabInv, Lands
  PROVE  EngineInv' /\ TabInv'
<1>1. PICK f \in InFlight : ListLands(f) \/ FormLands(f) \/ PostLands(f)  BY DEF Lands
<1>2. UNCHANGED <<late, posts>>  BY DEF Lands
<1>t. /\ selected \in Trainees \cup {NoTrainee}
      /\ form \in [of : Trainees \cup {NoTrainee}, filled : BOOLEAN]
      /\ submission \in {"none", "confirmed", "duplicate", "rejected", "CONFIRMATION_UNKNOWN"}
      /\ f.who \in Trainees \cup {NoTrainee}
  BY DEF TabInv, TabTypes, Flights
<1>3. CASE ListLands(f)
  <2>1. CASE /\ selected' = First
             /\ LandAndFly(f, Flight("form", First, f.turn, f.live))
             /\ UNCHANGED engine
    BY <1>2, <1>3, <2>1, ListedKeeps DEF ListLands
  <2>2. CASE Fails(f, {"NETWORK", "SESSION_EXPIRED", "MISSING_DATA", "TIMEOUT"}) /\ UNCHANGED selected
    <3>1. PICK code \in {"NETWORK", "SESSION_EXPIRED", "MISSING_DATA", "TIMEOUT"} :
            Answer(f.live, code)
      BY <2>2 DEF Fails
    <3>2. code \in Answers  BY DEF Answers, Recoverable, NeverSent
    <3>3. Land(f) /\ f.kind = "list" /\ UNCHANGED <<selected, form, submission, stored>>
      BY <1>3, <2>2 DEF Fails, ListLands
    <3> QED BY <1>2, <1>t, <3>1, <3>2, <3>3, LandedKeeps
  <2> QED BY <1>3, <2>1, <2>2 DEF ListLands
<1>4. CASE FormLands(f)
  <2>1. CASE Land(f) /\ Answer(f.live, "ok") /\ form' = [of |-> f.who, filled |-> FALSE]
    <3>1. "ok" \in Answers  BY DEF Answers
    <3>2. f.kind = "form" /\ UNCHANGED <<selected, submission, stored>>  BY <1>4 DEF FormLands
    <3>3. form' \in [of : Trainees \cup {NoTrainee}, filled : BOOLEAN]  BY <1>t, <2>1
    <3> QED BY <1>2, <1>t, <2>1, <3>1, <3>2, <3>3, LandedKeeps
  <2>2. CASE Fails(f, {"NETWORK", "SESSION_EXPIRED", "ELEMENT_NOT_FOUND"}) /\ UNCHANGED form
    <3>1. PICK code \in {"NETWORK", "SESSION_EXPIRED", "ELEMENT_NOT_FOUND"} : Answer(f.live, code)
      BY <2>2 DEF Fails
    <3>2. code \in Answers  BY DEF Answers, Recoverable, NeverSent
    <3>3. Land(f) /\ f.kind = "form" /\ UNCHANGED <<selected, form, submission, stored>>
      BY <1>4, <2>2 DEF Fails, FormLands
    <3> QED BY <1>2, <1>t, <3>1, <3>2, <3>3, LandedKeeps
  <2> QED BY <1>4, <2>1, <2>2 DEF FormLands
<1>5. CASE PostLands(f)
  <2>1. f.kind = "post" /\ UNCHANGED <<selected, form>>  BY <1>5 DEF PostLands
  <2>2. {"ok", "NETWORK", "SESSION_EXPIRED"} \subseteq Answers
        /\ {"ok", "NETWORK"} \cap NeverSent = {}
    BY DEF Answers, Recoverable, NeverSent
  <2>3. CASE /\ Land(f) /\ Answer(f.live, "ok")
             /\ \/ submission' = "confirmed" /\ Records(f.turn)
                \/ submission' \in {"duplicate", "rejected"} /\ UNCHANGED stored
                \/ submission' = "CONFIRMATION_UNKNOWN" /\ (Records(f.turn) \/ UNCHANGED stored)
    <3>1. /\ submission' \in {"none", "confirmed", "duplicate", "rejected", "CONFIRMATION_UNKNOWN"}
          /\ stored' = stored \/ stored' = stored \cup {f.turn}
      BY <2>3 DEF Records
    <3> QED BY <1>2, <1>t, <2>1, <2>2, <2>3, <3>1, LandedKeeps
  <2>4. CASE /\ Fails(f, {"NETWORK", "SESSION_EXPIRED"}) /\ UNCHANGED submission
             /\ Records(f.turn) \/ UNCHANGED stored
    <3>1. PICK code \in {"NETWORK", "SESSION_EXPIRED"} : Answer(f.live, code)
      BY <2>4 DEF Fails
    <3>2. code \in Answers /\ code \notin NeverSent \ {"SESSION_EXPIRED"}  BY <2>2
    <3>3. Land(f) /\ (stored' = stored \/ stored' = stored \cup {f.turn})
      BY <2>4 DEF Fails, Records
    <3> QED BY <1>2, <1>t, <2>1, <2>4, <3>1, <3>2, <3>3, LandedKeeps
  <2> QED BY <1>5, <2>3, <2>4 DEF PostLands
<1> QED BY <1>1, <1>3, <1>4, <1>5

-----------------------------------------------------------------------------
(* The channel. *)

LEMMA Unavailable ==
  "PORTAL_UNAVAILABLE" \in Answers /\ "PORTAL_UNAVAILABLE" \notin NeverSent
BY DEF Answers, Recoverable, NeverSent

(* A message is sent, given up on and left to run: if it was a submit, its turn *)
(* has a row in doubt and was sent nowhere else.                              *)
LEMMA LeftBehindKeeps ==
  ASSUME EngineInv, TabInv, step \in Commands, Hear("PORTAL_UNAVAILABLE"), LiveFlights = {},
         late' = Append(late, Message),
         UNCHANGED <<flights, stored, selected, form, submission, posts>>
  PROVE  EngineInv' /\ TabInv'
<1>1. TabTypes /\ OncePlaced /\ FreshInv /\ Turn \in Turns  BY TurnsTyped DEF TabInv
<1>2. Message \in Messages /\ Message.cmd = step /\ Message.turn = Turn
  BY <1>1 DEF Message, Messages
<1>3. /\ late' \in Seq(Messages) /\ Len(late') = Len(late) + 1 /\ Len(late) \in Nat
      /\ \A i \in 1 .. Len(late) : late'[i] = late[i]
      /\ late'[Len(late) + 1] = Message
      /\ DOMAIN late = 1 .. Len(late) /\ DOMAIN late' = 1 .. Len(late')
  BY <1>1, <1>2, AppendProperties, LenProperties DEF TabTypes
<1>4. \A i \in Submits' : \/ i \in Submits /\ late'[i] = late[i]
                          \/ i = Len(late) + 1 /\ step = "submit" /\ late'[i].turn = Turn
  BY <1>2, <1>3 DEF Submits
<1>5. LateTurns' \subseteq LateTurns \cup (IF step = "submit" THEN {Turn} ELSE {})
  BY <1>4 DEF LateTurns
<1>6. step = "submit" => Turn \notin Used  BY <1>1 DEF FreshInv
<1>7. LateOnce'
  <2>1. \A i \in Submits : late[i].turn \in LateTurns  BY DEF LateTurns
  <2>2. step = "submit" => Turn \notin LateTurns  BY <1>6 DEF Used
  <2>3. \A i, j \in Submits : late[i].turn = late[j].turn => i = j  BY <1>1 DEF OncePlaced
  <2> SUFFICES ASSUME NEW i \in Submits', NEW j \in Submits', late'[i].turn = late'[j].turn
               PROVE  i = j
    BY DEF LateOnce
  <2>4. CASE i \in Submits /\ late'[i] = late[i] /\ j \in Submits /\ late'[j] = late[j]
    BY <2>3, <2>4
  <2>5. CASE i \in Submits /\ late'[i] = late[i] /\ step = "submit" /\ late'[j].turn = Turn
    <3>1. late[i].turn = Turn  BY <2>5
    <3> QED BY <2>1, <2>2, <2>5, <3>1
  <2>6. CASE j \in Submits /\ late'[j] = late[j] /\ step = "submit" /\ late'[i].turn = Turn
    <3>1. late[j].turn = Turn  BY <2>6
    <3> QED BY <2>1, <2>2, <2>6, <3>1
  <2>7. CASE i = Len(late) + 1 /\ j = Len(late) + 1  BY <2>7
  <2>8. \/ i \in Submits /\ late'[i] = late[i]
        \/ i = Len(late) + 1 /\ step = "submit" /\ late'[i].turn = Turn
    BY <1>4
  <2>9. \/ j \in Submits /\ late'[j] = late[j]
        \/ j = Len(late) + 1 /\ step = "submit" /\ late'[j].turn = Turn
    BY <1>4
  <2> QED BY <2>4, <2>5, <2>6, <2>7, <2>8, <2>9
<1>8. /\ InFlight' = InFlight /\ Posting' = Posting /\ PostedTurns' = PostedTurns
      /\ PostingTurns' = PostingTurns /\ LiveFlights' = {}
  BY DEF InFlight, Posting, PostedTurns, PostingTurns, LiveFlights
<1>9. TabTypes'  BY <1>1, <1>3, <1>8 DEF TabTypes
<1>10. OncePlaced'
  <2>1. LateTurns' \cap PostedTurns' = {}
    BY <1>1, <1>5, <1>6, <1>8 DEF OncePlaced, Used
  <2> QED BY <1>1, <1>7, <1>8, <2>1 DEF OncePlaced, AtMostOnePost, LateOnce
<1>11. /\ \A u \in Used' : u \in Used \/ (u = Turn /\ step = "submit")
       /\ \A u \in Possible' : u \in Possible \/ (u = Turn /\ step = "submit")
       /\ \A u \in Unanswered' : u \in Unanswered \/ (u = Turn /\ step = "submit")
  BY <1>5, <1>8 DEF Used, Possible, Unanswered
<1> QED BY <1>8, <1>9, <1>10, <1>11, Unavailable, HeardTab

(* The fetch of a command given up on goes on, and nobody waits for it. *)
LEMMA LeftFlyingKeeps ==
  ASSUME EngineInv, TabInv, Hear("PORTAL_UNAVAILABLE"), NEW f \in LiveFlights,
         LandAndFly(f, [f EXCEPT !.live = FALSE]),
         UNCHANGED <<late, stored, selected, form, submission, posts>>
  PROVE  EngineInv' /\ TabInv'
<1> USE DEF Fewer
<1>1. TabTypes /\ OncePlaced /\ LiveInv /\ f \in Flights /\ f \in InFlight /\ f.live = TRUE
  BY DEF TabInv, TabTypes, LiveFlights, Flights
<1> DEFINE g == [f EXCEPT !.live = FALSE]
<1>2. g \in Flights /\ g.kind = f.kind /\ g.turn = f.turn /\ g.live = FALSE /\ g # f
  BY <1>1 DEF Flights
<1> HIDE DEF g
<1>3. /\ InFlight' \subseteq InFlight \cup {g} /\ (InFlight \ {f}) \cup {g} \subseteq InFlight'
      /\ InFlight' \subseteq Flights
      /\ flights' \in [InFlight' -> Nat \ {0}]
      /\ flights[f] = 1 => f \notin InFlight'
      /\ \A h \in InFlight' : h \notin {f, g} => flights'[h] = flights[h]
      /\ g \notin InFlight => flights'[g] = 1
  BY <1>1, <1>2, LandAndFlyEffects DEF g
<1>4. TabTypes'  BY <1>1, <1>3 DEF TabTypes
<1>5. flights[f] = 1 /\ f \notin InFlight' /\ \A h \in LiveFlights : h = f
  BY <1>1, <1>3 DEF LiveInv
<1>6. LiveFlights' = {}  BY <1>2, <1>3, <1>5 DEF LiveFlights
<1>7. OncePlaced' /\ Fewer
  <2>1. LateTurns' \subseteq LateTurns /\ LateOnce'
    BY <1>1 DEF LateTurns, Submits, LateOnce, OncePlaced
  <2>2. f.kind = "post" => f \in Posting /\ g \notin InFlight
    BY <1>1, <1>2 DEF Posting, OncePlaced
  <2>3. \A h \in Posting' : (h \in Posting /\ h # f /\ h # g) \/ (h = g /\ f \in Posting)
    BY <1>1, <1>2, <1>3, <1>5 DEF Posting
  <2>4. PostingTurns' \subseteq PostingTurns  BY <1>2, <2>3 DEF PostingTurns
  <2>5. \A h \in Posting' : flights'[h] = 1
    BY <1>1, <1>2, <1>3, <2>2, <2>3 DEF OncePlaced, Posting
  <2>6. \A h, k \in Posting' : h.turn = k.turn => h = k
    BY <1>1, <1>2, <2>3 DEF OncePlaced
  <2>7. stored' \cap PostingTurns' = {}  BY <1>1, <2>4 DEF OncePlaced, PostingTurns
  <2> QED BY <1>1, <2>1, <2>4, <2>5, <2>6, <2>7, PlacedStays
<1> QED BY <1>4, <1>6, <1>7, Unavailable, HeardTab

LEMMA GiveUpKeeps ==
  ASSUME EngineInv, TabInv, GiveUp
  PROVE  EngineInv' /\ TabInv'
<1> USE DEF Fewer
<1>1. /\ step \in Commands /\ Hear("PORTAL_UNAVAILABLE")
      /\ UNCHANGED <<selected, form, submission, posts>>
  BY DEF GiveUp
<1>t. TabTypes /\ OncePlaced /\ LiveInv  BY DEF TabInv
<1>2. CASE LiveFlights = {} /\ late' = Append(late, Message) /\ UNCHANGED <<flights, stored>>
  BY <1>1, <1>2, LeftBehindKeeps
<1>3. CASE LiveFlights = {} /\ UNCHANGED <<late, flights, stored>>
  <2>1. /\ InFlight' = InFlight /\ Posting' = Posting /\ LiveFlights' = {}
        /\ LateTurns' = LateTurns /\ LateOnce'
    BY <1>3, <1>t DEF InFlight, Posting, LiveFlights, LateTurns, Submits, LateOnce, OncePlaced
  <2>2. TabTypes'  BY <1>1, <1>3, <1>t, <2>1 DEF TabTypes
  <2>3. OncePlaced' /\ Fewer
    BY <1>1, <1>3, <1>t, <2>1, SamePosting
  <2> QED BY <1>1, <2>1, <2>2, <2>3, Unavailable, HeardTab
<1>4. CASE /\ \E f \in LiveFlights : LandAndFly(f, [f EXCEPT !.live = FALSE])
           /\ UNCHANGED <<late, stored>>
  BY <1>1, <1>4, LeftFlyingKeeps
<1>5. CASE /\ \E f \in LiveFlights : Land(f) /\ Lost({f} \cap Posting)
           /\ UNCHANGED late
  <2>1. PICK f \in LiveFlights : Land(f) /\ Lost({f} \cap Posting)  BY <1>5
  <2>2. f \in InFlight /\ f.live  BY DEF LiveFlights
  <2>3. stored' = stored \/ (f.kind = "post" /\ stored' = stored \cup {f.turn})
    <3>1. PICK turns \in SUBSET {h.turn : h \in {f} \cap Posting} : stored' = stored \cup turns
      BY <2>1 DEF Lost
    <3>2. turns = {} \/ (f \in Posting /\ turns = {f.turn})  BY <3>1
    <3> QED BY <3>1, <3>2 DEF Posting
  <2>4. Answer(f.live, "PORTAL_UNAVAILABLE")  BY <1>1, <2>2 DEF Answer
  <2>5. /\ selected' \in Trainees \cup {NoTrainee}
        /\ form' \in [of : Trainees \cup {NoTrainee}, filled : BOOLEAN]
        /\ submission' \in {"none", "confirmed", "duplicate", "rejected", "CONFIRMATION_UNKNOWN"}
    BY <1>1, <1>t DEF TabTypes
  <2> QED BY <1>1, <1>5, <2>1, <2>2, <2>3, <2>4, <2>5, Unavailable, LandedKeeps
<1> QED BY <1>2, <1>3, <1>4, <1>5 DEF GiveUp

LEMMA ReloadKeeps ==
  ASSUME EngineInv, TabInv, Reload
  PROVE  EngineInv' /\ TabInv'
<1> USE DEF Fewer
<1>1. /\ late' = << >> /\ flights' = EmptyBag
      /\ selected' = NoTrainee /\ form' = NoForm /\ submission' = "none" /\ posts' = posts
      /\ Lost(Posting)
      /\ IF step \in Commands THEN Hear("PORTAL_UNAVAILABLE") ELSE UNCHANGED engine
  BY DEF Reload
<1>t. TabTypes /\ OncePlaced /\ LiveInv  BY DEF TabInv
<1>2. InFlight' = {} /\ flights' \in [{} -> Nat \ {0}] /\ Posting' = {} /\ LiveFlights' = {}
  BY <1>1 DEF InFlight, BagToSet, EmptyBag, SetToBag, Posting, LiveFlights
<1>3. PICK turns \in SUBSET PostingTurns : stored' = stored \cup turns
  BY <1>1 DEF Lost, PostingTurns
<1>4. late' \in Seq(Messages) /\ LateTurns' \subseteq LateTurns /\ LateOnce'
  <2>1. late \in Seq(Messages) /\ LateOnce  BY <1>t DEF TabTypes, OncePlaced, LateOnce
  <2> QED BY <1>1, <2>1, LateShrinks
<1>5. TabTypes'
  <2>1. PostingTurns \subseteq Turns  BY <1>t DEF PostingTurns, Posting, TabTypes, Flights
  <2> QED BY <1>1, <1>2, <1>3, <1>4, <1>t, <2>1 DEF TabTypes, NoForm
<1>6. OncePlaced' /\ Fewer
  <2>1. PostingTurns' = {}  BY <1>2 DEF PostingTurns
  <2> QED BY <1>1, <1>2, <1>3, <1>4, <1>t, <2>1, PlacedStays
<1>7. CASE step \in Commands
  BY <1>1, <1>2, <1>5, <1>6, <1>7, Unavailable, HeardTab
<1>8. CASE step \notin Commands
  <2>1. LiveFlights = {} /\ LiveInv'  BY <1>2, <1>8, <1>t DEF LiveInv
  <2> QED BY <1>1, <1>5, <1>6, <1>8, <2>1, UnheardTab
<1> QED BY <1>7, <1>8

-----------------------------------------------------------------------------
(* The whole. *)

LEMMA TabStart ==
  ASSUME Init
  PROVE  TabInv
<1>1. /\ step = "idle" /\ results = << >> /\ current = NoTrainee /\ starts = 0
      /\ late = << >> /\ flights = EmptyBag
      /\ selected = NoTrainee /\ form = NoForm /\ submission = "none"
      /\ posts = << >> /\ stored = {}
  BY DEF Init, EngineInit
<1>2. InFlight = {} /\ flights \in [{} -> Nat \ {0}]
  BY <1>1 DEF InFlight, BagToSet, EmptyBag, SetToBag
<1>3. LiveFlights = {} /\ Posting = {}  BY <1>2 DEF LiveFlights, Posting
<1>4. DOMAIN late = {} /\ DOMAIN posts = {} /\ DOMAIN results = {}
      /\ late \in Seq(Messages) /\ posts \in Seq(Posts)
  BY <1>1
<1>5. Used = {} /\ Submits = {}
  BY <1>4 DEF Used, LateTurns, Submits, PostedTurns
<1>6. TabTypes  BY <1>1, <1>2, <1>4 DEF TabTypes, NoForm
<1>7. OncePlaced
  BY <1>1, <1>3, <1>4, <1>5 DEF OncePlaced, AtMostOnePost, LateTurns, PostedTurns
<1> QED
  BY <1>3, <1>4, <1>5, <1>6, <1>7 DEF TabInv, LiveInv, UsedAreBegun, FreshInv, FailedIsNotStored

LEMMA InvStart == Init => Inv
BY EngineStart, TabStart DEF Inv

LEMMA InvStep == Inv /\ [Next]_vars => Inv'
<1> SUFFICES ASSUME Inv, [Next]_vars PROVE EngineInv' /\ TabInv'
  BY DEF Inv
<1>1. EngineInv /\ TabInv  BY DEF Inv
<1>2. CASE Ticks /\ UNCHANGED tab
  BY <1>1, <1>2, TicksKeep, EngineAlone
<1>3. CASE Operates /\ UNCHANGED tab
  BY <1>1, <1>3, OperatesKeep, EngineAlone
<1>4. CASE HandleAwaited  BY <1>1, <1>4, HandleAwaitedKeeps
<1>5. CASE HandleLate  BY <1>1, <1>5, HandleLateKeeps
<1>6. CASE Lands  BY <1>1, <1>6, LandsKeeps
<1>7. CASE GiveUp  BY <1>1, <1>7, GiveUpKeeps
<1>8. CASE Reload  BY <1>1, <1>8, ReloadKeeps
<1>9. CASE UNCHANGED vars
  <2>1. UNCHANGED engine /\ UNCHANGED tab  BY <1>9 DEF vars
  <2>2. step' = step /\ UNCHANGED <<current, starts>>  BY <2>1 DEF engine
  <2> QED BY <1>1, <2>1, <2>2, StillKeeps, EngineAlone
<1> QED
  BY <1>2, <1>3, <1>4, <1>5, <1>6, <1>7, <1>8, <1>9 DEF Next, Done

(* Whatever the tab and the channel do, the invariant of the two holds.        *)
THEOREM TabInductive == Spec => []Inv
<1> QED BY InvStart, InvStep, PTL DEF Spec

-----------------------------------------------------------------------------
(* Whose form is POSTed. *)

(* Nothing of an earlier command is left in the tab. *)
Tidy == late = << >> /\ \A f \in InFlight : f.live

(* From its filling to its POST the form of the one in hand stays in place: no *)
(* fetch is under way then, and a reload takes the whole form.                 *)
FormKept ==
  /\ step \in {"fill", "validate"} => InFlight = {}
  /\ step \in {"validate", "submit"} => form = NoForm \/ (form.of = current /\ form.filled)

OwnPosts == \A i \in DOMAIN posts : posts[i].of = posts[i].turn.who /\ posts[i].filled

OwnInv == overrun \in BOOLEAN /\ (~ overrun => Tidy /\ FormKept /\ OwnPosts)

(* Where an answer leads when it leads to one of the last steps of preparing. *)
LEMMA HearLeads ==
  ASSUME NEW answer, Hear(answer)
  PROVE  /\ step' = "fill" => step = "prepare"
         /\ step' = "validate" => step = "fill" /\ answer = "ok" /\ current' = current
         /\ step' = "submit" => step = "validate" /\ answer = "ok" /\ current' = current
<1>1. CASE Initialized(answer)
  BY <1>1 DEF Initialized, Boundary, Leave, Finish, Dequeue
<1>2. CASE Processes(answer)
  <2> USE DEF Settle, Goes
  <2>1. ASSUME NEW next, Prepares(next, answer)
        PROVE  \/ answer = "ok" /\ step' = next
               \/ step' \in {"prepare_backoff", "saving"}
    BY <2>1 DEF Prepares, PrepareFails
  <2>2. ASSUME \/ OnPage(answer) \/ SessionReady(answer) \/ Submitted(answer) \/ Confirms(answer)
        PROVE  step' \in {"session_ready", "saving", "prepare", "reinitialize", "wait", "wait_backoff"}
    BY <2>2 DEF OnPage, SessionReady, Submitted, Confirms
  <2> QED BY <1>2, <2>1, <2>2 DEF Processes
<1> QED BY <1>1, <1>2 DEF Hear

(* An answer is heard with nothing else under way. *)
LEMMA HearOwn ==
  ASSUME NEW answer, Hear(answer), InFlight' = {}, late' = << >>, OwnPosts, posts' = posts,
         step = "fill" /\ answer = "ok" => form'.of = current /\ form'.filled,
         step = "validate" /\ answer = "ok" =>
           form' = NoForm \/ (form'.of = current /\ form'.filled)
  PROVE  Tidy' /\ FormKept' /\ OwnPosts'
<1>1. Tidy' /\ OwnPosts'  BY DEF Tidy, OwnPosts
<1>2. FormKept'
  BY HearLeads DEF FormKept
<1> QED BY <1>1, <1>2

LEMMA AwaitedOwn ==
  ASSUME EngineInv, TabInv, OwnInv, ~ overrun, HandleAwaited
  PROVE  overrun' = overrun /\ Tidy' /\ FormKept' /\ OwnPosts'
<1>1. /\ late = << >> /\ late' = late /\ step \in Commands /\ LiveFlights = {}
      /\ Handles(step, Turn, TRUE)
  BY DEF HandleAwaited, Undelivered
<1>2. Tidy /\ FormKept /\ OwnPosts /\ InFlight = {}  BY <1>1 DEF OwnInv, Tidy, LiveFlights
<1>3. TabTypes /\ Turn \in Turns /\ Turn.who = current  BY TurnsTyped DEF TabInv, Turn
<1>4. overrun' = overrun
  BY <1>1 DEF Handles, IsPortalPage, IsTrainingSessionReady, InitializeTrainingSession, PrepareTrainee,
              FillTrainingForm, ValidateTrainingForm, SubmitTrainingForm, DialogsNotArmed,
              WaitForSubmissionResult, tab
<1> DEFINE Kept == Tidy' /\ FormKept' /\ OwnPosts'
           Filled == form'.of = current /\ form'.filled
           Idles(answer) == Hear(answer) /\ flights' = flights /\ posts' = posts
<1>5. /\ step \notin {"fill", "validate"} => \A answer : Idles(answer) => Kept
      /\ \A answer : Idles(answer) /\ answer # "ok" => Kept
      /\ \A answer : Idles(answer) /\ step # "validate" /\ Filled => Kept
      /\ \A answer : Idles(answer) /\ step # "fill" /\ (form' = NoForm \/ Filled) => Kept
  <2>1. ASSUME NEW answer, Hear(answer), flights' = flights, posts' = posts,
               step = "fill" /\ answer = "ok" => Filled,
               step = "validate" /\ answer = "ok" => form' = NoForm \/ Filled
        PROVE  Kept
    <3>1. InFlight' = {}  BY <1>2, <2>1 DEF InFlight
    <3>2. late' = << >>  BY <1>1
    <3> QED BY <1>2, <2>1, <3>1, <3>2, HearOwn
  <2>2. step = "fill" => step # "validate"  OBVIOUS
  <2> HIDE DEF Kept, Filled
  <2> QED BY <2>1, <2>2
<1>6. ASSUME NEW kind \in {"list", "form", "post"}, NEW who \in Trainees \cup {NoTrainee},
             Fly(Flight(kind, who, Turn, TRUE)), UNCHANGED engine, form' = form,
             step \notin {"fill", "validate"}, OwnPosts'
      PROVE  Kept
  <2> DEFINE f == Flight(kind, who, Turn, TRUE)
  <2>1. f \in Flights /\ f.live = TRUE  BY <1>3 DEF Flight, Flights
  <2> HIDE DEF f
  <2>2. InFlight' = InFlight \cup {f}
    <3>1. Fly(f)  BY <1>6 DEF f
    <3> QED BY <1>3, <2>1, <3>1, FlyEffects
  <2>3. Tidy'  BY <1>1, <1>2, <2>1, <2>2 DEF Tidy
  <2>4. step' = step /\ current' = current  BY <1>6 DEF engine
  <2>5. FormKept'  BY <1>2, <1>6, <2>4 DEF FormKept
  <2> QED BY <1>6, <2>3, <2>5
<1>7. ASSUME posts' = posts PROVE OwnPosts'  BY <1>2, <1>7 DEF OwnPosts
<1> SUFFICES Kept  BY <1>4
<1> HIDE DEF Kept, Filled, Idles
<1>8. CASE step \in {"is_page", "session_ready", "wait"}
  <2>1. UNCHANGED tab /\ \E answer : Hear(answer)
    BY <1>1, <1>8 DEF Handles, IsPortalPage, IsTrainingSessionReady, WaitForSubmissionResult, Answer
  <2>2. \E answer : Idles(answer)  BY <2>1 DEF tab, Idles
  <2> QED BY <1>5, <1>8, <2>2
<1>9. CASE step \in {"initialize", "reinitialize"}
  <2>1. InitializeTrainingSession(Turn, TRUE)  BY <1>1, <1>9 DEF Handles
  <2> QED BY <1>6, <1>7, <1>9, <2>1 DEF InitializeTrainingSession
<1>10. CASE step = "prepare"
  <2>1. PrepareTrainee(Turn, TRUE)  BY <1>1, <1>10 DEF Handles
  <2>2. form' = form /\ posts' = posts  BY <2>1 DEF PrepareTrainee
  <2>3. CASE Hear("ok") /\ UNCHANGED flights
    <3>1. Idles("ok")  BY <2>2, <2>3 DEF Idles
    <3> QED BY <1>5, <1>10, <3>1
  <2>4. CASE Fly(Flight("form", Turn.who, Turn, TRUE)) /\ UNCHANGED engine
    <3>1. Turn.who \in Trainees \cup {NoTrainee}  BY <1>3 DEF Turns
    <3>2. OwnPosts' /\ step \notin {"fill", "validate"}  BY <1>7, <1>10, <2>2
    <3> QED BY <1>6, <2>2, <2>4, <3>1, <3>2
  <2> QED BY <2>1, <2>3, <2>4 DEF PrepareTrainee, Answer
<1>11. CASE step = "fill"
  <2>1. FillTrainingForm(Turn, TRUE)  BY <1>1, <1>11 DEF Handles
  <2>2. UNCHANGED <<flights, posts>>  BY <2>1 DEF FillTrainingForm
  <2>3. CASE OwnForm(Turn) /\ Hear("ok") /\ form' = [form EXCEPT !.filled = TRUE]
    <3>1. Filled  BY <1>3, <2>3 DEF OwnForm, TabTypes, Filled
    <3>2. Idles("ok") /\ step # "validate"  BY <1>11, <2>2, <2>3 DEF Idles
    <3> QED BY <1>5, <3>1, <3>2
  <2>4. CASE \E code \in {"MISSING_DATA", "PORTAL_STRUCTURE_CHANGED", "VALIDATION_FAILED"} : Hear(code)
    <3>1. PICK code \in {"MISSING_DATA", "PORTAL_STRUCTURE_CHANGED", "VALIDATION_FAILED"} : Hear(code)
      BY <2>4
    <3>2. Idles(code) /\ code # "ok"  BY <2>2, <3>1 DEF Idles
    <3> QED BY <1>5, <3>2
  <2> QED BY <2>1, <2>3, <2>4 DEF FillTrainingForm, Answer
<1>12. CASE step = "validate"
  <2>1. ValidateTrainingForm(TRUE)  BY <1>1, <1>12 DEF Handles
  <2>2. UNCHANGED <<flights, posts, form>> /\ \E answer : Hear(answer)
    BY <2>1 DEF ValidateTrainingForm, Answer, tab
  <2>3. form' = NoForm \/ Filled  BY <1>2, <1>12, <2>2 DEF FormKept, Filled, NoForm
  <2>4. \E answer : Idles(answer)  BY <2>2 DEF Idles
  <2> QED BY <1>5, <1>12, <2>3, <2>4
<1>13. CASE step = "submit"
  <2>1. SubmitTrainingForm(Turn, TRUE)  BY <1>1, <1>13 DEF Handles
  <2>2. CASE UNCHANGED <<flights, posts>> /\ \E answer : Hear(answer)
    <3>1. \E answer : Idles(answer)  BY <2>2 DEF Idles
    <3> QED BY <1>5, <1>13, <3>1
  <2>3. CASE /\ form # NoForm
             /\ posts' = Append(posts, [of |-> form.of, filled |-> form.filled, turn |-> Turn])
             /\ Fly(Flight("post", form.of, Turn, TRUE))
             /\ form' = form /\ UNCHANGED engine
    <3> DEFINE p == [of |-> form.of, filled |-> form.filled, turn |-> Turn]
    <3>1. form.of = current /\ form.filled  BY <1>2, <1>13, <2>3 DEF FormKept
    <3>2. p \in Posts /\ p.of = p.turn.who /\ p.filled /\ form.of \in Trainees \cup {NoTrainee}
      BY <1>3, <3>1 DEF Posts, TabTypes
    <3> HIDE DEF p
    <3>3. posts \in Seq(Posts) /\ posts' = Append(posts, p)  BY <1>3, <2>3 DEF TabTypes, p
    <3>4. OwnPosts'
      <4>1. /\ Len(posts) \in Nat /\ DOMAIN posts = 1 .. Len(posts)
            /\ DOMAIN posts' = 1 .. Len(posts) + 1
            /\ \A i \in 1 .. Len(posts) : posts'[i] = posts[i]
            /\ posts'[Len(posts) + 1] = p
        BY <3>2, <3>3, AppendProperties, LenProperties
      <4>2. \A i \in DOMAIN posts' : i \in DOMAIN posts \/ i = Len(posts) + 1  BY <4>1
      <4> QED BY <1>2, <3>2, <4>1, <4>2 DEF OwnPosts
    <3>5. step \notin {"fill", "validate"}  BY <1>13
    <3> QED BY <1>6, <2>3, <3>2, <3>4, <3>5
  <2> QED BY <2>1, <2>2, <2>3 DEF SubmitTrainingForm, DialogsNotArmed, Answer
<1> QED BY <1>1, <1>8, <1>9, <1>10, <1>11, <1>12, <1>13 DEF Commands

LEMMA LandsOwn ==
  ASSUME EngineInv, TabInv, OwnInv, ~ overrun, Lands
  PROVE  overrun' = overrun /\ Tidy' /\ FormKept' /\ OwnPosts'
<1>1. PICK f \in InFlight : ListLands(f) \/ FormLands(f) \/ PostLands(f)  BY DEF Lands
<1>2. late' = late /\ posts' = posts /\ overrun' = overrun  BY DEF Lands
<1>3. Tidy /\ FormKept /\ OwnPosts /\ TabTypes /\ LiveInv /\ f.live /\ f \in Flights
  BY DEF OwnInv, Tidy, TabInv, TabTypes
<1>4. step \notin {"fill", "validate"}  BY <1>3 DEF FormKept
<1>5. late' = << >> /\ OwnPosts'  BY <1>2, <1>3 DEF Tidy, OwnPosts
<1>6. ASSUME NEW answer, Land(f), Answer(f.live, answer)
      PROVE  Tidy' /\ FormKept' /\ OwnPosts'
  <2>1. Hear(answer)  BY <1>3, <1>6 DEF Answer
  <2>2. LiveFlights' = {} /\ InFlight' \subseteq InFlight  BY <1>3, <1>6, LandLive, LandEffects
  <2>3. InFlight' = {}
    <3>1. \A g \in InFlight' : g.live  BY <1>3, <2>2 DEF Tidy
    <3> QED BY <2>2, <3>1 DEF LiveFlights
  <2> QED BY <1>2, <1>3, <1>4, <1>5, <2>1, <2>3, HearOwn
<1>7. CASE /\ LandAndFly(f, Flight("form", First, f.turn, f.live)) /\ UNCHANGED <<engine, form>>
           /\ f.kind = "list"
  <2> DEFINE g == Flight("form", First, f.turn, f.live)
  <2>1. /\ g \in Flights /\ g.live = f.live /\ g # f
    BY <1>3, <1>7, FirstAssumption DEF Flight, Flights
  <2> HIDE DEF g
  <2>2. InFlight' \subseteq InFlight \cup {g}
    <3>1. LandAndFly(f, g)  BY <1>7 DEF g
    <3> QED BY <1>3, <2>1, <3>1, LandAndFlyEffects
  <2>3. Tidy'  BY <1>3, <1>5, <2>1, <2>2 DEF Tidy
  <2>4. step' = step /\ current' = current /\ form' = form  BY <1>7 DEF engine
  <2>5. FormKept'  BY <1>3, <1>4, <2>4 DEF FormKept
  <2> QED BY <1>2, <1>5, <2>3, <2>5
<1>8. CASE \E answer : Land(f) /\ Answer(f.live, answer)
  <2>1. Tidy' /\ FormKept' /\ OwnPosts'
    <3> HIDE DEF Land, Answer
    <3> QED BY <1>6, <1>8
  <2> QED BY <1>2, <2>1
<1>9. CASE ListLands(f)  BY <1>7, <1>8, <1>9 DEF ListLands, Fails
<1>10. CASE FormLands(f)  BY <1>8, <1>10 DEF FormLands, Fails
<1>11. CASE PostLands(f)  BY <1>8, <1>11 DEF PostLands, Fails
<1> QED BY <1>1, <1>2, <1>9, <1>10, <1>11

LEMMA GiveUpOwn ==
  ASSUME EngineInv, TabInv, OwnInv, ~ overrun, GiveUp, ~ overrun'
  PROVE  Tidy' /\ FormKept' /\ OwnPosts'
<1>1. Hear("PORTAL_UNAVAILABLE") /\ posts' = posts /\ late' = late  BY DEF GiveUp
<1>2. Tidy /\ OwnPosts /\ TabTypes /\ LiveInv  BY DEF OwnInv, TabInv
<1>3. InFlight' = {}
  <2>1. CASE LiveFlights = {} /\ UNCHANGED flights
    BY <1>2, <2>1 DEF Tidy, LiveFlights, InFlight
  <2>2. CASE \E f \in LiveFlights : Land(f)
    <3>1. PICK f \in InFlight : f.live /\ Land(f)  BY <2>2 DEF LiveFlights
    <3>2. LiveFlights' = {} /\ InFlight' \subseteq InFlight  BY <1>2, <3>1, LandLive, LandEffects
    <3>3. \A g \in InFlight' : g.live  BY <1>2, <3>2 DEF Tidy
    <3> QED BY <3>2, <3>3 DEF LiveFlights
  <2> QED BY <2>1, <2>2 DEF GiveUp
<1>4. late' = << >>  BY <1>1, <1>2 DEF Tidy
<1> QED BY <1>1, <1>2, <1>3, <1>4, HearOwn

LEMMA ReloadOwn ==
  ASSUME OwnInv, ~ overrun, Reload
  PROVE  overrun' = overrun /\ Tidy' /\ FormKept' /\ OwnPosts'
<1>1. /\ late' = << >> /\ flights' = EmptyBag /\ form' = NoForm
      /\ UNCHANGED <<posts, overrun>>
  BY DEF Reload
<1>2. InFlight' = {}  BY <1>1 DEF InFlight, BagToSet, EmptyBag, SetToBag
<1> QED BY <1>1, <1>2 DEF OwnInv, Tidy, FormKept, OwnPosts

(* A step the tab has no part in does not lead into the last steps of preparing. *)
LEMMA EngineOwn ==
  ASSUME OwnInv, ~ overrun, UNCHANGED tab, Ticks \/ Operates \/ UNCHANGED engine
  PROVE  overrun' = overrun /\ Tidy' /\ FormKept' /\ OwnPosts'
<1>1. UNCHANGED <<late, flights, form, posts, overrun>> /\ InFlight' = InFlight
  BY DEF tab, InFlight
<1>2. \/ step' = step /\ current' = current
      \/ step' \notin {"fill", "validate", "submit"}
  <2>1. CASE Ticks
    BY <2>1 DEF Ticks, PausedSaved, Woken, RowSaved, Delayed, Finished, BackedOff, Boundary, Leave,
                Finish, Dequeue
  <2>2. CASE Operates
    BY <2>2 DEF Operates, Start, Pause, Resume, Stop, ReleasePause
  <2> QED BY <2>1, <2>2 DEF engine
<1>3. Tidy' /\ OwnPosts'  BY <1>1 DEF OwnInv, Tidy, OwnPosts
<1>4. FormKept'  BY <1>1, <1>2 DEF OwnInv, FormKept
<1> QED BY <1>1, <1>3, <1>4

LEMMA OwnStart == Init => OwnInv
<1> SUFFICES ASSUME Init PROVE OwnInv  OBVIOUS
<1>1. step = "idle" /\ late = << >> /\ flights = EmptyBag /\ posts = << >> /\ overrun = FALSE
  BY DEF Init, EngineInit
<1>2. InFlight = {}  BY <1>1 DEF InFlight, BagToSet, EmptyBag, SetToBag
<1>3. DOMAIN posts = {}  BY <1>1
<1> QED BY <1>1, <1>2, <1>3 DEF OwnInv, Tidy, FormKept, OwnPosts

LEMMA OwnStep == Inv /\ OwnInv /\ [Next]_vars => OwnInv'
<1> SUFFICES ASSUME Inv, OwnInv, [Next]_vars PROVE OwnInv'  OBVIOUS
<1>1. EngineInv /\ TabInv /\ overrun \in BOOLEAN  BY DEF Inv, OwnInv
<1>2. overrun' \in {overrun, TRUE}
  <2>1. ASSUME NEW cmd, NEW turn, NEW live, Handles(cmd, turn, live) PROVE overrun' = overrun
    BY <2>1 DEF Handles, IsPortalPage, IsTrainingSessionReady, InitializeTrainingSession,
                PrepareTrainee, FillTrainingForm, ValidateTrainingForm, SubmitTrainingForm,
                DialogsNotArmed, WaitForSubmissionResult, tab
  <2>2. CASE HandleAwaited \/ HandleLate  BY <2>1, <2>2 DEF HandleAwaited, HandleLate
  <2>3. CASE Lands \/ GiveUp \/ Reload  BY <2>3 DEF Lands, GiveUp, Reload
  <2>4. CASE UNCHANGED tab  BY <2>4 DEF tab
  <2> QED BY <2>2, <2>3, <2>4 DEF Next, Done, vars
<1>3. SUFFICES ASSUME ~ overrun, ~ overrun' PROVE Tidy' /\ FormKept' /\ OwnPosts'
  BY <1>1, <1>2 DEF OwnInv
<1>4. CASE HandleAwaited  BY <1>1, <1>3, <1>4, AwaitedOwn
<1>5. CASE HandleLate  BY <1>3, <1>5 DEF HandleLate, OwnInv, Tidy
<1>6. CASE Lands  BY <1>1, <1>3, <1>6, LandsOwn
<1>7. CASE GiveUp  BY <1>1, <1>3, <1>7, GiveUpOwn
<1>8. CASE Reload  BY <1>3, <1>8, ReloadOwn
<1>9. CASE (Ticks \/ Operates) /\ UNCHANGED tab  BY <1>3, <1>9, EngineOwn
<1>10. CASE UNCHANGED vars  BY <1>3, <1>10, EngineOwn DEF vars
<1> QED BY <1>4, <1>5, <1>6, <1>7, <1>8, <1>9, <1>10 DEF Next, Done

(* As long as the tab is left with no command given up on, the form of the one in *)
(* hand stays in place from its filling to its POST.                            *)
THEOREM OwnFormIsPosted == Spec => []OwnInv
<1> QED BY OwnStart, OwnStep, TabInductive, PTL DEF Spec

(* Two POSTs of one trainee in one batch would be of one turn. *)
LEMMA OwnIsOnce == Inv /\ OwnInv => OnePostPerTrainee
<1> SUFFICES ASSUME Inv, OwnInv, ~ overrun PROVE OnePostPerTrainee
  BY DEF OnePostPerTrainee
<1>1. OwnPosts /\ AtMostOnePost /\ posts \in Seq(Posts)
  BY DEF OwnInv, Inv, TabInv, OncePlaced, TabTypes
<1>2. \A i \in DOMAIN posts : posts[i] \in Posts  BY <1>1, ElementOfSeq, LenProperties
<1>3. \A i \in DOMAIN posts : posts[i].turn \in Turns  BY <1>2 DEF Posts
<1>4. ASSUME NEW i \in DOMAIN posts, NEW j \in DOMAIN posts, posts[i].of = posts[j].of,
             posts[i].turn.start = posts[j].turn.start
      PROVE  i = j
  <2>1. posts[i].turn.who = posts[j].turn.who  BY <1>1, <1>4 DEF OwnPosts
  <2>2. posts[i].turn = posts[j].turn  BY <1>3, <1>4, <2>1 DEF Turns
  <2> QED BY <1>1, <2>2 DEF AtMostOnePost
<1> QED BY <1>1, <1>4 DEF OnePostPerTrainee, OwnPosts

LEMMA TypesAreKept == Inv /\ OwnInv => TypeOK
<1> SUFFICES ASSUME Inv, OwnInv PROVE TypeOK  OBVIOUS
<1>1. EngineTypes /\ TabTypes /\ LiveInv /\ overrun \in BOOLEAN
  BY DEF Inv, EngineInv, TabInv, OwnInv
<1>2. late \in Seq([cmd : Commands, turn : Turns])  BY <1>1 DEF TabTypes, Messages
<1>3. \A f \in InFlight : f.turn \in Turns /\ f.kind \in {"list", "form", "post"}
  BY <1>1 DEF TabTypes, Flights
<1>4. Cardinality(LiveFlights) <= 1 /\ (LiveFlights # {} => step \in Commands)
  <2>1. CASE LiveFlights = {}  BY <2>1, FS_EmptySet
  <2>2. CASE LiveFlights # {}
    <3>1. PICK f \in LiveFlights : step \in Commands /\ \A g \in LiveFlights : g = f
      BY <1>1, <2>2 DEF LiveInv
    <3>2. LiveFlights = {f}  BY <3>1
    <3> QED BY <3>1, <3>2, FS_Singleton
  <2> QED BY <2>1, <2>2
<1>5. form.of \in Trainees \cup {NoTrainee}  BY <1>1 DEF TabTypes
<1> QED BY <1>1, <1>2, <1>3, <1>4, <1>5 DEF TypeOK, EngineTypes, TabTypes

(* The state keeps its types, and the engine waits for one fetch at most: a     *)
(* command is given up on before the next is sent.                            *)
THEOREM TypesHold == Spec => []TypeOK
<1> QED BY TabInductive, OwnFormIsPosted, TypesAreKept, PTL

(* A turn is POSTed once at most, however often preparing and confirming are     *)
(* retried and wherever among later commands one that was given up on runs.  As  *)
(* long as none was left in the tab, no trainee is POSTed twice, and only with   *)
(* the form filled for that one.  A row that says failed without the portal's    *)
(* word is of a turn that is not recorded and will not be, save one whose        *)
(* session expired: it may have been, when the login page answered its POST.     *)
THEOREM NoDuplicatesEver == Spec => []NoDuplicates
<1>1. Inv /\ OwnInv => NoDuplicates
  BY OwnIsOnce DEF Inv, TabInv, OncePlaced, NoDuplicates
<1> QED BY <1>1, TabInductive, OwnFormIsPosted, PTL

LEMMA InvAccounts == Inv => AccountsForAll
<1> SUFFICES ASSUME Inv PROVE AccountsForAll  OBVIOUS
<1>1. EngineInv /\ TabInv  BY DEF Inv
<1>2. SlotAccountsForAll  BY <1>1 DEF EngineInv, SlotInv, SlotAccountsForAll, Whos
<1>3. ASSUME step \in Ended, starts > 0 PROVE
        \/ Whos(results) = batch
        \/ results = << >> /\ \A i \in DOMAIN posts : posts[i].turn.start < starts
  <2>1. /\ results \in Seq(Rows) /\ starts \in Nat /\ step \notin InHand
        /\ Whos(results) \o queue = batch
    BY <1>1, <1>3, MaxStartsAssumption
       DEF EngineInv, EngineTypes, Shared, Held, Ended, InHand, Preparing
  <2>2. CASE queue = << >>
    <3>1. Whos(results) \in Seq(Trainees)  BY <2>1, WhosType
    <3> QED BY <2>1, <2>2, <3>1, ConcatEmptySeq
  <2>3. CASE results = << >>
    <3> SUFFICES ASSUME NEW i \in DOMAIN posts PROVE posts[i].turn.start < starts
      BY <2>3
    <3>1. posts[i].turn \in Used  BY DEF Used, PostedTurns
    <3>2. posts[i].turn \in Turns  BY <1>1, <3>1, TurnsTyped DEF TabInv
    <3>3. posts[i].turn.start \in Nat  BY <1>1, <3>2, TurnsTyped DEF TabInv
    <3>4. posts[i].turn.start <= starts /\ posts[i].turn.start # starts
      BY <1>1, <2>1, <2>3, <3>1 DEF TabInv, UsedAreBegun
    <3> QED BY <2>1, <3>3, <3>4
  <2> QED BY <1>1, <1>3, <2>2, <2>3 DEF EngineInv, EndInv
<1>4. EndAccountsForAll  BY <1>3 DEF EndAccountsForAll, Ended, Whos
<1> QED BY <1>2, <1>4 DEF AccountsForAll

(* At its end a batch has a row for everyone it was started with, in its order, *)
(* or no row and not one POST; and the checkpoint a kill would leave has        *)
(* everyone of the batch with a row or as pending.                            *)
THEOREM NobodyIsLost == Spec => []AccountsForAll
<1> QED BY TabInductive, InvAccounts, PTL

LEMMA InvEndsDoubt == Inv => DoubtEndsTheBatch
<1> SUFFICES ASSUME Inv, NEW i \in DOMAIN results, NEW j \in DOMAIN results, i < j,
                    results[i].outcome = "indeterminate"
             PROVE  results[j].outcome = "skipped"
  BY DEF DoubtEndsTheBatch
<1>1. results \in Seq(Rows) /\ DoubtInv  BY DEF Inv, EngineInv, EngineTypes
<1>2. DOMAIN results = 1 .. Len(results) /\ Len(results) \in Nat  BY <1>1, LenProperties
<1>3. i # Len(results) /\ j > i  BY <1>2
<1> QED BY <1>1, <1>3 DEF DoubtInv

LEMMA StopStep ==
  ASSUME Running, stopRequested, [Next]_vars
  PROVE  current' \in {current, NoTrainee}
<1>1. CASE Ticks
  BY <1>1 DEF Ticks, PausedSaved, Woken, RowSaved, Delayed, Finished, BackedOff, Boundary, Leave, Finish
<1>2. CASE Operates
  BY <1>2 DEF Operates, Start, Pause, Resume, Stop, Running
<1>3. ASSUME NEW answer, Hear(answer) PROVE current' \in {current, NoTrainee}
  BY <1>3 DEF Hear, Initialized, Processes, Boundary, Leave, Finish
<1>4. ASSUME NEW live, NEW answer, Answer(live, answer) PROVE current' \in {current, NoTrainee}
  BY <1>3, <1>4 DEF Answer, engine
<1>5. ASSUME UNCHANGED engine PROVE current' \in {current, NoTrainee}
  BY <1>5 DEF engine
<1>6. ASSUME NEW cmd, NEW turn, NEW live, Handles(cmd, turn, live)
      PROVE  current' \in {current, NoTrainee}
  <2>1. CASE IsPortalPage(live)  BY <1>4, <2>1 DEF IsPortalPage
  <2>2. CASE IsTrainingSessionReady(live)  BY <1>4, <2>2 DEF IsTrainingSessionReady
  <2>3. CASE InitializeTrainingSession(turn, live)
    BY <1>5, <2>3 DEF InitializeTrainingSession
  <2>4. CASE PrepareTrainee(turn, live)  BY <1>4, <1>5, <2>4 DEF PrepareTrainee
  <2>5. CASE FillTrainingForm(turn, live)  BY <1>4, <2>5 DEF FillTrainingForm
  <2>6. CASE ValidateTrainingForm(live)  BY <1>4, <2>6 DEF ValidateTrainingForm
  <2>7. CASE SubmitTrainingForm(turn, live)
    BY <1>4, <1>5, <2>7 DEF SubmitTrainingForm, DialogsNotArmed
  <2>8. CASE WaitForSubmissionResult(live)  BY <1>4, <2>8 DEF WaitForSubmissionResult
  <2> QED BY <1>6, <2>1, <2>2, <2>3, <2>4, <2>5, <2>6, <2>7, <2>8 DEF Handles
<1>7. CASE HandleAwaited \/ HandleLate  BY <1>6, <1>7 DEF HandleAwaited, HandleLate
<1>8. CASE Lands
  <2>1. PICK f \in InFlight : ListLands(f) \/ FormLands(f) \/ PostLands(f)  BY <1>8 DEF Lands
  <2>2. CASE ListLands(f)  BY <1>4, <1>5, <2>2 DEF ListLands, Fails
  <2>3. CASE FormLands(f)  BY <1>4, <2>3 DEF FormLands, Fails
  <2>4. CASE PostLands(f)  BY <1>4, <2>4 DEF PostLands, Fails
  <2> QED BY <2>1, <2>2, <2>3, <2>4
<1>9. CASE GiveUp \/ Reload  BY <1>3, <1>5, <1>9 DEF GiveUp, Reload
<1>10. CASE UNCHANGED vars  BY <1>5, <1>10 DEF vars
<1> QED BY <1>1, <1>2, <1>7, <1>8, <1>9, <1>10 DEF Next, Done

(* After a doubt everyone else of the batch is skipped, and after a stop nobody *)
(* is begun, however the stop falls among pauses, answers and reloads.         *)
THEOREM DoubtOrStopEnds == Spec => DoubtOrStopIsTheEnd
<1>1. [Next]_vars => [(Running /\ stopRequested) => current' \in {current, NoTrainee}]_vars
  BY StopStep
<1>2. Spec => []DoubtEndsTheBatch  BY TabInductive, InvEndsDoubt, PTL
<1>3. Spec => StopAdmitsNothing  BY <1>1, PTL DEF Spec, StopAdmitsNothing
<1> QED BY <1>2, <1>3, PTL DEF DoubtOrStopIsTheEnd

-----------------------------------------------------------------------------
(* DaemonPopup. *)

Statuses == [state : States, pause : BOOLEAN, stop : BOOLEAN]
Polls == [client : Nat, generation : Nat, seen : Statuses, how : {"sent", "read", "failed"}]

PopupTypes ==
  /\ client \in Nat /\ viewGeneration \in Nat
  /\ {good, busy, connected, optionsReady, admitted, stopped} \subseteq BOOLEAN
  /\ progress \in Statuses /\ shown \in Statuses
  /\ reads \subseteq Polls
  /\ request \in [kind : Controls \cup {"none", "options", "start"},
                  at : {"none", "sent", "admitting", "ok", "failed"}, client : Nat, good : BOOLEAN]
  /\ phase \in {"free", "admitting", "options", "installed", "ending"}

(* A status read while the batch ran, and after what was done to it by the popup. *)
Told(seen) == (admitted => SessionLocked(seen.state)) /\ (stopped => seen.stop)

(* What the daemon shows keeps up with the batch; the ghosts are of that batch. *)
BatchShown ==
  /\ phase \in {"admitting", "installed"} => SessionLocked(shown.state)
  /\ phase = "installed" => Told(shown)
  /\ phase \in {"free", "admitting", "options"} => ~ admitted /\ ~ stopped

(* No mark is later than the popup's own. *)
Marked == \A r \in reads : r.client <= client /\ r.generation <= viewGeneration

(* While no request is out, whatever the popup believes or is about to believe of *)
(* a batch of its own was read after its last request was answered.              *)
UpToDate ==
  (phase = "installed" /\ ~ busy) =>
    /\ connected => Told(progress)
    /\ \A r \in reads : r.how = "read" /\ Wanted(r) => Told(r.seen)

PopupInv ==
  /\ PopupTypes /\ OptionsOfThisClient /\ BatchShown /\ Marked /\ UpToDate
  /\ busy <=> request.at # "none"

LEMMA PollIs ==
  ASSUME NEW mark \in [client : Nat, generation : Nat], NEW seen \in Statuses,
         NEW how \in {"sent", "read", "failed"}
  PROVE  /\ Poll(mark, seen, how) \in Polls
         /\ Poll(mark, seen, how).client = mark.client
         /\ Poll(mark, seen, how).generation = mark.generation
         /\ Poll(mark, seen, how).seen = seen /\ Poll(mark, seen, how).how = how
BY DEF Poll, Polls

LEMMA StatusIs ==
  /\ Unknown \in Statuses /\ Idle \in Statuses
  /\ \A s \in Statuses : s.state \in States /\ s.pause \in BOOLEAN /\ s.stop \in BOOLEAN
BY DEF Unknown, Idle, Status, Statuses, States

LEMMA WantedIs ==
  \A r : Wanted(r) <=> r.client = client /\ r.generation = viewGeneration
BY DEF Wanted, MarkOf, Now

(* A poll more, not served, or none. *)
LEMMA OnePollMore ==
  ASSUME NEW mark \in [client : Nat, generation : Nat], Begins(mark), reads \subseteq Polls
  PROVE  /\ reads' \subseteq Polls
         /\ \A r \in reads' :
              \/ r \in reads
              \/ r.how = "sent" /\ r.client = mark.client /\ r.generation = mark.generation
<1> DEFINE new == Poll(mark, Unknown, "sent")
<1>1. reads' = reads \/ reads' = reads \cup {new}  BY DEF Begins
<1>2. new \in Polls /\ new.client = mark.client /\ new.generation = mark.generation
      /\ new.how = "sent"
  BY PollIs, StatusIs
<1> QED BY <1>1, <1>2

LEMMA PopupStart == PopupInit => PopupInv
<1> SUFFICES ASSUME PopupInit PROVE PopupInv  OBVIOUS
<1>1. /\ client \in {0, 1} /\ connected = FALSE /\ progress = Unknown /\ optionsReady = FALSE
      /\ busy = FALSE /\ viewGeneration = 0 /\ reads = {} /\ request = NoRequest /\ good \in BOOLEAN
      /\ shown = Idle /\ phase = "free" /\ admitted = FALSE /\ stopped = FALSE
  BY DEF PopupInit
<1>2. PopupTypes
  <2>1. NoRequest \in [kind : Controls \cup {"none", "options", "start"},
                       at : {"none", "sent", "admitting", "ok", "failed"}, client : Nat, good : BOOLEAN]
    BY DEF NoRequest
  <2>2. {good, busy, connected, optionsReady, admitted, stopped} \subseteq BOOLEAN  BY <1>1
  <2>3. client \in Nat /\ viewGeneration \in Nat /\ reads \subseteq Polls  BY <1>1
  <2>4. progress \in Statuses /\ shown \in Statuses  BY <1>1, StatusIs
  <2> QED BY <1>1, <2>1, <2>2, <2>3, <2>4 DEF PopupTypes
<1>3. request.at = "none"  BY <1>1 DEF NoRequest
<1>4. BatchShown  BY <1>1 DEF BatchShown
<1>5. OptionsOfThisClient /\ Marked /\ UpToDate
  BY <1>1 DEF OptionsOfThisClient, Marked, UpToDate
<1> QED BY <1>1, <1>2, <1>3, <1>4, <1>5 DEF PopupInv

(* Polling: nothing but what the popup shows, and that from polls of today. *)
LEMMA PollsKeep ==
  ASSUME PopupInv, Refresh \/ LosePoll \/ (\E r \in reads : ServePoll(r) \/ ReadPoll(r))
  PROVE  PopupInv'
<1>1. /\ PopupTypes /\ OptionsOfThisClient /\ BatchShown /\ Marked /\ UpToDate
      /\ busy <=> request.at # "none"
      /\ reads \subseteq Polls /\ client \in Nat /\ viewGeneration \in Nat /\ shown \in Statuses
  BY DEF PopupInv, PopupTypes, Polls
<1>2. UNCHANGED <<client, good, optionsReady, busy, viewGeneration, optionsOf, request, shown, phase,
                  admitted, stopped>>
  BY DEF Refresh, LosePoll, ServePoll, ReadPoll, daemon, ghosts
<1>3. \A r : Wanted(r)' <=> Wanted(r)  BY <1>2, WantedIs DEF Wanted, Now, MarkOf
<1>4. \A s : Told(s)' <=> Told(s)  BY <1>2 DEF Told
<1>5. BatchShown'  BY <1>1, <1>2, <1>4 DEF BatchShown
<1>6. OptionsOfThisClient'  BY <1>1, <1>2 DEF OptionsOfThisClient
<1>7. CASE /\ connected' = connected /\ progress' = progress /\ reads' \subseteq Polls
           /\ \A r \in reads' : \/ r \in reads
                                \/ /\ r.client <= client /\ r.generation <= viewGeneration
                                   /\ r.how # "read" \/ r.seen = shown
  <2>1. PopupTypes'  BY <1>1, <1>2, <1>7 DEF PopupTypes, Polls
  <2>2. Marked'  BY <1>1, <1>2, <1>7 DEF Marked
  <2>3. UpToDate'
    <3> SUFFICES ASSUME phase = "installed", ~ busy
                 PROVE  /\ connected => Told(progress)
                        /\ \A r \in reads' : r.how = "read" /\ Wanted(r) => Told(r.seen)
      BY <1>2, <1>3, <1>4, <1>7 DEF UpToDate
    <3> QED BY <1>1, <1>7 DEF UpToDate, BatchShown
  <2> QED BY <1>1, <1>2, <1>5, <1>6, <2>1, <2>2, <2>3 DEF PopupInv
<1>8. CASE Refresh
  <2>1. Now \in [client : Nat, generation : Nat] /\ Now.client = client /\ Now.generation = viewGeneration
    BY <1>1 DEF Now
  <2>2. /\ connected' = connected /\ progress' = progress /\ reads' \subseteq Polls
        /\ \A r \in reads' :
             \/ r \in reads
             \/ r.how = "sent" /\ r.client = client /\ r.generation = viewGeneration
    BY <1>1, <1>8, <2>1, OnePollMore DEF Refresh
  <2> QED BY <1>1, <1>7, <2>2
<1>9. CASE LosePoll \/ \E r \in reads : ServePoll(r)
  <2>1. PICK r \in reads, seen \in {Unknown, shown}, how \in {"read", "failed"} :
          /\ reads' = (reads \ {r}) \cup {Poll(MarkOf(r), seen, how)}
          /\ how = "read" => seen = shown
          /\ connected' = connected /\ progress' = progress
    BY <1>9 DEF LosePoll, ServePoll
  <2> DEFINE new == Poll(MarkOf(r), seen, how)
  <2>2. /\ MarkOf(r) \in [client : Nat, generation : Nat]
        /\ MarkOf(r).client = r.client /\ MarkOf(r).generation = r.generation
    BY <1>1 DEF MarkOf, Polls
  <2>3. seen \in Statuses  BY <1>1, StatusIs
  <2>4. new \in Polls /\ new.client = r.client /\ new.generation = r.generation
        /\ new.how = how /\ new.seen = seen
    BY <2>2, <2>3, PollIs
  <2>5. r.client <= client /\ r.generation <= viewGeneration  BY <1>1 DEF Marked
  <2> HIDE DEF new
  <2>6. reads' = (reads \ {r}) \cup {new}  BY <2>1 DEF new
  <2>7. reads' \subseteq Polls  BY <1>1, <2>4, <2>6
  <2>8. \A p \in reads' : \/ p \in reads
                          \/ /\ p.client <= client /\ p.generation <= viewGeneration
                             /\ p.how # "read" \/ p.seen = shown
    BY <2>1, <2>4, <2>5, <2>6
  <2> QED BY <1>7, <2>1, <2>7, <2>8
<1>10. CASE \E r \in reads : ReadPoll(r)
  <2>1. PICK r \in reads : ReadPoll(r)  BY <1>10
  <2>2. reads' = reads \ {r} /\ Show(r) /\ r \in Polls  BY <1>1, <2>1 DEF ReadPoll
  <2>3. \/ connected' = connected /\ progress' = progress
        \/ connected' = FALSE /\ progress' = Unknown
        \/ /\ connected' = TRUE /\ progress' = r.seen /\ Wanted(r) /\ r.how = "read"
    BY <2>2 DEF Show, Disconnected
  <2>4. PopupTypes'
    <3>1. r.seen \in Statuses  BY <2>2 DEF Polls
    <3>2. progress' \in Statuses /\ connected' \in BOOLEAN
      BY <1>1, <2>3, <3>1, StatusIs DEF PopupTypes
    <3> QED BY <1>1, <1>2, <2>2, <3>2 DEF PopupTypes
  <2>5. Marked'  BY <1>1, <1>2, <2>2 DEF Marked
  <2>6. UpToDate'
    <3> SUFFICES ASSUME phase = "installed", ~ busy
                 PROVE  /\ connected' => Told(progress')
                        /\ \A p \in reads' : p.how = "read" /\ Wanted(p) => Told(p.seen)
      BY <1>2, <1>3, <1>4 DEF UpToDate, Told
    <3> QED BY <1>1, <2>2, <2>3 DEF UpToDate
  <2> QED BY <1>1, <1>2, <1>5, <1>6, <2>4, <2>5, <2>6 DEF PopupInv
<1> QED BY <1>8, <1>9, <1>10

(* A request goes out, and with it every belief is left to its answer. *)
LEMMA ClickKeeps ==
  ASSUME PopupInv, NEW kind \in Controls \cup {"options", "start"}, Click(kind)
  PROVE  PopupInv'
<1>1. /\ PopupTypes /\ OptionsOfThisClient /\ BatchShown /\ Marked
      /\ busy' = TRUE /\ request' = [kind |-> kind, at |-> "sent", client |-> client, good |-> good]
      /\ good \in BOOLEAN
      /\ UNCHANGED <<client, good, connected, progress, optionsReady, viewGeneration, reads, optionsOf,
                     shown, phase, admitted, stopped>>
  BY DEF PopupInv, PopupTypes, Click, daemon, ghosts
<1>2. PopupTypes'  BY <1>1 DEF PopupTypes
<1>3. BatchShown'  BY <1>1 DEF BatchShown, Told
<1>4. OptionsOfThisClient' /\ Marked' /\ UpToDate'
  BY <1>1 DEF OptionsOfThisClient, Marked, UpToDate
<1>5. request'.at = "sent"  BY <1>1
<1> QED BY <1>1, <1>2, <1>3, <1>4, <1>5 DEF PopupInv

(* The answer, whatever it is: what was believed and asked before it is gone. *)
LEMMA AnsweredKeeps ==
  ASSUME PopupInv, Answered
  PROVE  PopupInv'
<1>1. /\ PopupTypes /\ OptionsOfThisClient /\ BatchShown /\ Marked
      /\ reads \subseteq Polls /\ client \in Nat /\ viewGeneration \in Nat
      /\ Options /\ viewGeneration' = viewGeneration + 1 /\ connected' = FALSE /\ progress' = Unknown
      /\ busy' = FALSE /\ request' = NoRequest
      /\ Begins([client |-> client, generation |-> viewGeneration + 1])
      /\ UNCHANGED <<client, good, shown, phase, admitted, stopped>>
  BY DEF PopupInv, PopupTypes, Answered, RefreshAfterRequest, Disconnected, daemon, ghosts
<1>2. /\ reads' \subseteq Polls
      /\ \A r \in reads' :
           \/ r \in reads
           \/ r.how = "sent" /\ r.client = client /\ r.generation = viewGeneration + 1
  <2> DEFINE mark == [client |-> client, generation |-> viewGeneration + 1]
  <2>1. mark \in [client : Nat, generation : Nat] /\ mark.client = client
        /\ mark.generation = viewGeneration + 1
    BY <1>1
  <2> HIDE DEF mark
  <2>2. Begins(mark)  BY <1>1 DEF mark
  <2> QED BY <1>1, <2>1, <2>2, OnePollMore
<1>3. optionsReady' \in BOOLEAN /\ OptionsOfThisClient'
  <2>1. CASE UNCHANGED <<optionsReady, optionsOf>>
    BY <1>1, <2>1 DEF OptionsOfThisClient, PopupTypes
  <2>2. CASE ~ UNCHANGED <<optionsReady, optionsOf>>
    <3>1. /\ optionsReady' \in IF request.at = "ok" THEN BOOLEAN ELSE {FALSE}
          /\ optionsOf' = IF optionsReady' THEN request.client ELSE 0
          /\ ~ (request.at = "ok" /\ request.client # client)
      BY <1>1, <2>2 DEF Options
    <3> QED BY <1>1, <3>1 DEF OptionsOfThisClient
  <2> QED BY <2>1, <2>2
<1>4. PopupTypes'
  <2>1. NoRequest \in [kind : Controls \cup {"none", "options", "start"},
                       at : {"none", "sent", "admitting", "ok", "failed"}, client : Nat, good : BOOLEAN]
    BY DEF NoRequest
  <2>2. viewGeneration' \in Nat  BY <1>1
  <2> QED BY <1>1, <1>2, <1>3, <2>1, <2>2, StatusIs DEF PopupTypes
<1>5. Marked'  BY <1>1, <1>2 DEF Marked, Polls
<1>6. BatchShown'  BY <1>1 DEF BatchShown, Told
<1>7. UpToDate'
  <2>1. \A r \in reads' : r.how = "read" => r.generation # viewGeneration'
    BY <1>1, <1>2 DEF Marked, Polls
  <2>2. \A r \in reads' : Wanted(r)' => r.generation = viewGeneration'
    BY DEF Wanted, MarkOf, Now
  <2> QED BY <1>1, <2>1, <2>2 DEF UpToDate
<1>8. request'.at = "none"  BY <1>1 DEF NoRequest
<1> QED BY <1>1, <1>3, <1>4, <1>5, <1>6, <1>7, <1>8 DEF PopupInv

(* New settings are a new client, of whom nothing is believed. *)
LEMMA SavedKeeps ==
  ASSUME PopupInv, SaveSettings \/ Saved
  PROVE  PopupInv'
<1>1. /\ PopupTypes /\ OptionsOfThisClient /\ BatchShown /\ Marked /\ UpToDate
      /\ busy <=> request.at # "none"
      /\ reads \subseteq Polls /\ client \in Nat /\ viewGeneration \in Nat
      /\ UNCHANGED <<busy, viewGeneration, request, shown, phase, admitted, stopped>>
      /\ good' \in BOOLEAN
  BY DEF PopupInv, PopupTypes, SaveSettings, Saved, daemon, ghosts
<1>2. BatchShown'  BY <1>1 DEF BatchShown, Told
<1>3. CASE UNCHANGED <<client, connected, progress, optionsReady, optionsOf, reads>>
  <2>1. PopupTypes' /\ OptionsOfThisClient' /\ Marked'
    BY <1>1, <1>3 DEF PopupTypes, OptionsOfThisClient, Marked
  <2>2. UpToDate'  BY <1>1, <1>3 DEF UpToDate, Told, Wanted, Now, MarkOf
  <2> QED BY <1>1, <1>2, <2>1, <2>2 DEF PopupInv
<1>4. CASE ~ UNCHANGED <<client, connected, progress, optionsReady, optionsOf, reads>>
  <2>1. /\ client' = client + 1 /\ optionsReady' = FALSE
        /\ connected' = FALSE /\ progress' = Unknown
        /\ Begins([client |-> client + 1, generation |-> viewGeneration])
    BY <1>4 DEF SaveSettings, Saved, Disconnected
  <2>2. /\ reads' \subseteq Polls
        /\ \A r \in reads' :
             \/ r \in reads
             \/ r.how = "sent" /\ r.client = client + 1 /\ r.generation = viewGeneration
    <3> DEFINE mark == [client |-> client + 1, generation |-> viewGeneration]
    <3>1. mark \in [client : Nat, generation : Nat] /\ mark.client = client + 1
          /\ mark.generation = viewGeneration
      BY <1>1
    <3> HIDE DEF mark
    <3>2. Begins(mark)  BY <2>1 DEF mark
    <3> QED BY <1>1, <3>1, <3>2, OnePollMore
  <2>3. PopupTypes'
    <3>1. client' \in Nat  BY <1>1, <2>1
    <3> QED BY <1>1, <2>1, <2>2, <3>1, StatusIs DEF PopupTypes
  <2>4. Marked'  BY <1>1, <2>1, <2>2 DEF Marked, Polls
  <2>5. \A r \in reads' : r.how = "read" => r.client # client'
    BY <1>1, <2>1, <2>2 DEF Marked, Polls
  <2>6. \A r \in reads' : Wanted(r)' => r.client = client'  BY DEF Wanted, MarkOf, Now
  <2>7. UpToDate' /\ OptionsOfThisClient'
    BY <2>1, <2>5, <2>6 DEF UpToDate, OptionsOfThisClient
  <2> QED BY <1>1, <1>2, <2>3, <2>4, <2>7 DEF PopupInv
<1> QED BY <1>3, <1>4

(* The daemon goes on, under the popup's request or without it. *)
LEMMA DaemonKeeps ==
  ASSUME PopupInv, Serve \/ Admitted \/ Works \/ TornDown \/ Elsewhere
  PROVE  PopupInv'
<1>1. /\ PopupTypes /\ OptionsOfThisClient /\ BatchShown /\ Marked /\ UpToDate
      /\ busy <=> request.at # "none"
      /\ UNCHANGED <<client, good, connected, progress, optionsReady, busy, viewGeneration, reads,
                     optionsOf>>
  BY DEF PopupInv, Serve, Admitted, Works, TornDown, Elsewhere, view
<1>2. OptionsOfThisClient' /\ Marked'  BY <1>1 DEF OptionsOfThisClient, Marked
<1>3. \A r : Wanted(r)' <=> Wanted(r)  BY <1>1 DEF Wanted, Now, MarkOf
<1>4. ASSUME shown' \in Statuses, phase' \in {"free", "admitting", "options", "installed", "ending"},
             {admitted', stopped'} \subseteq BOOLEAN,
             \/ request' = request
             \/ /\ request.at # "none"
                /\ \E at \in {"admitting", "ok", "failed"} : request' = [request EXCEPT !.at = at]
      PROVE  PopupTypes' /\ (busy' <=> request'.at # "none")
  <2>1. request' \in [kind : Controls \cup {"none", "options", "start"},
                      at : {"none", "sent", "admitting", "ok", "failed"}, client : Nat, good : BOOLEAN]
        /\ (request'.at # "none" <=> request.at # "none")
    BY <1>1, <1>4 DEF PopupTypes
  <2>2. {good', busy', connected', optionsReady', admitted', stopped'} \subseteq BOOLEAN
    BY <1>1, <1>4 DEF PopupTypes
  <2> QED BY <1>1, <1>4, <2>1, <2>2 DEF PopupTypes
<1>5. ASSUME \/ phase' # "installed"
             \/ busy
             \/ /\ phase = "installed" /\ (admitted' => admitted) /\ (stopped' => stopped)
             \/ ~ admitted' /\ ~ stopped'
      PROVE  UpToDate'
  <2> SUFFICES ASSUME phase' = "installed", ~ busy
               PROVE  /\ connected => Told(progress)'
                      /\ \A r \in reads : r.how = "read" /\ Wanted(r) => Told(r.seen)'
    BY <1>1, <1>3 DEF UpToDate, Told
  <2> QED BY <1>1, <1>5 DEF UpToDate, Told
<1>6. shown \in Statuses /\ phase \in {"free", "admitting", "options", "installed", "ending"}
      /\ {admitted, stopped} \subseteq BOOLEAN
  BY <1>1 DEF PopupTypes
<1>7. ASSUME Admits PROVE /\ shown' \in Statuses /\ BatchShown' /\ UpToDate'
                          /\ phase' \in {"free", "admitting", "options", "installed", "ending"}
                          /\ {admitted', stopped'} \subseteq BOOLEAN
  <2>1. shown' = Status("initializing", FALSE, FALSE) /\ phase' = "admitting"
        /\ admitted' = FALSE /\ stopped' = FALSE
    BY <1>7 DEF Admits
  <2> QED BY <1>5, <2>1 DEF Status, Statuses, States, BatchShown, SessionLocked
<1>8. ASSUME NEW kind, Obeys(kind)
      PROVE  /\ phase = "installed" /\ phase' = phase /\ shown' \in Statuses
             /\ shown'.state = shown.state /\ (shown.stop => shown'.stop)
             /\ (kind = "stop" => shown'.stop)
  BY <1>6, <1>8 DEF Obeys, Statuses
<1>9. CASE Serve
  <2>0. busy /\ request.at # "none"  BY <1>1, <1>9 DEF Serve
  <2>1. CASE request.kind = "start" /\ Admits /\ Replies("admitting")
    <3>1. PopupTypes' /\ (busy' <=> request'.at # "none")
      BY <1>4, <1>7, <2>0, <2>1 DEF Replies
    <3> QED BY <1>2, <1>7, <2>1, <3>1 DEF PopupInv
  <2>2. CASE phase = "free" /\ phase' = "options" /\ Replies("admitting") /\ UNCHANGED <<shown, ghosts>>
    <3>1. PopupTypes' /\ (busy' <=> request'.at # "none")
      BY <1>4, <1>6, <2>0, <2>2 DEF Replies, ghosts
    <3>2. BatchShown'  BY <1>1, <2>2 DEF BatchShown, ghosts
    <3> QED BY <1>2, <1>5, <2>2, <3>1, <3>2 DEF PopupInv
  <2>3. CASE /\ Obeys(request.kind) /\ Replies("ok")
             /\ stopped' = (stopped \/ request.kind = "stop") /\ UNCHANGED admitted
    <3>1. PopupTypes' /\ (busy' <=> request'.at # "none")
      BY <1>4, <1>6, <1>8, <2>0, <2>3 DEF Replies
    <3>2. BatchShown'  BY <1>1, <1>8, <2>3 DEF BatchShown, Told
    <3> QED BY <1>2, <1>5, <2>0, <3>1, <3>2 DEF PopupInv
  <2>4. CASE Replies("failed") /\ UNCHANGED <<daemon, ghosts>>
    <3>1. PopupTypes' /\ (busy' <=> request'.at # "none")
      BY <1>4, <1>6, <2>0, <2>4 DEF Replies, daemon, ghosts
    <3>2. BatchShown'  BY <1>1, <2>4 DEF BatchShown, Told, daemon, ghosts
    <3> QED BY <1>2, <1>5, <2>0, <3>1, <3>2 DEF PopupInv
  <2> QED BY <1>9, <2>1, <2>2, <2>3, <2>4 DEF Serve
<1>10. CASE Admitted
  <2> DEFINE own == request.at = "admitting"
  <2>0. /\ stopped' = stopped /\ phase \in {"admitting", "options"} /\ ~ admitted /\ ~ stopped
    BY <1>1, <1>10 DEF Admitted, BatchShown
  <2>1. \/ request' = request
        \/ /\ request.at # "none"
           /\ \E at \in {"admitting", "ok", "failed"} : request' = [request EXCEPT !.at = at]
    BY <1>10 DEF Admitted
  <2>2. CASE /\ phase' = IF phase = "admitting" THEN "installed" ELSE "free"
             /\ admitted' = (own /\ phase = "admitting") /\ shown' = shown
    <3>1. PopupTypes' /\ (busy' <=> request'.at # "none")
      BY <1>4, <1>6, <2>0, <2>1, <2>2
    <3>2. own => busy  BY <1>1
    <3>3. UpToDate'  BY <1>5, <2>0, <2>2, <3>2
    <3>4. BatchShown'
      <4>1. phase = "admitting" => SessionLocked(shown.state)  BY <1>1 DEF BatchShown
      <4> QED BY <2>0, <2>2, <4>1 DEF BatchShown, Told
    <3> QED BY <1>2, <3>1, <3>3, <3>4 DEF PopupInv
  <2>3. CASE /\ phase' = "free" /\ admitted' = admitted
             /\ IF phase = "admitting" THEN Shows("stopped") ELSE shown' = shown
    <3>1. shown' \in Statuses  BY <1>6, <2>3 DEF Shows, Statuses, States
    <3>2. PopupTypes' /\ (busy' <=> request'.at # "none")
      BY <1>4, <1>6, <2>0, <2>1, <2>3, <3>1
    <3>3. BatchShown'  BY <2>0, <2>3 DEF BatchShown
    <3> QED BY <1>2, <1>5, <2>3, <3>2, <3>3 DEF PopupInv
  <2> QED BY <1>10, <2>2, <2>3 DEF Admitted
<1>11. CASE Works
  <2>0. /\ phase = "installed" /\ request' = request /\ admitted' = admitted /\ stopped' = stopped
    BY <1>11 DEF Works, ghosts
  <2>1. CASE /\ phase' = phase /\ \E state \in {"working", "paused"} : Shows(state)
    <3>1. shown' \in Statuses /\ shown'.state \in {"working", "paused"} /\ shown'.stop = shown.stop
      BY <1>6, <2>1 DEF Shows, Statuses, States
    <3>2. PopupTypes' /\ (busy' <=> request'.at # "none")  BY <1>4, <1>6, <2>0, <2>1, <3>1
    <3>3. BatchShown'  BY <1>1, <2>0, <2>1, <3>1 DEF BatchShown, Told, SessionLocked
    <3> QED BY <1>2, <1>5, <2>0, <3>2, <3>3 DEF PopupInv
  <2>2. CASE /\ phase' = "ending"
             /\ \E end \in {"complete", "stopped"} : shown' = [shown EXCEPT !.state = end, !.pause = FALSE]
    <3>1. shown' \in Statuses  BY <1>6, <2>2 DEF Statuses, States
    <3>2. PopupTypes' /\ (busy' <=> request'.at # "none")  BY <1>4, <1>6, <2>0, <2>2, <3>1
    <3>3. BatchShown'  BY <2>2 DEF BatchShown
    <3> QED BY <1>2, <1>5, <2>2, <3>2, <3>3 DEF PopupInv
  <2> QED BY <1>11, <2>1, <2>2 DEF Works
<1>12. CASE TornDown
  <2>1. phase' = "free" /\ admitted' = FALSE /\ stopped' = FALSE /\ request' = request /\ shown' = shown
    BY <1>12 DEF TornDown, Over
  <2>2. PopupTypes' /\ (busy' <=> request'.at # "none")  BY <1>4, <1>6, <2>1
  <2>3. BatchShown'  BY <2>1 DEF BatchShown
  <2> QED BY <1>2, <1>5, <2>1, <2>2, <2>3 DEF PopupInv
<1>13. CASE Elsewhere
  <2>1. CASE Admits /\ request' = request
    <3>1. PopupTypes' /\ (busy' <=> request'.at # "none")  BY <1>4, <1>7, <2>1
    <3> QED BY <1>2, <1>7, <2>1, <3>1 DEF PopupInv
  <2>2. CASE (\E kind \in Controls : Obeys(kind)) /\ UNCHANGED <<request, ghosts>>
    <3>1. PICK kind \in Controls : Obeys(kind)  BY <2>2
    <3>2. request' = request /\ admitted' = admitted /\ stopped' = stopped  BY <2>2 DEF ghosts
    <3>3. PopupTypes' /\ (busy' <=> request'.at # "none")  BY <1>4, <1>6, <1>8, <3>1, <3>2
    <3>4. BatchShown'  BY <1>1, <1>8, <3>1, <3>2 DEF BatchShown, Told
    <3>5. UpToDate'  BY <1>5, <1>8, <3>1, <3>2
    <3> QED BY <1>2, <3>3, <3>4, <3>5 DEF PopupInv
  <2>3. CASE /\ Over /\ shown' = Idle
             /\ request' = IF request.at \in {"sent", "admitting"} THEN [request EXCEPT !.at = "failed"]
                           ELSE request
    <3>1. phase' = "free" /\ admitted' = FALSE /\ stopped' = FALSE /\ shown' \in Statuses
      BY <2>3, StatusIs DEF Over
    <3>2. PopupTypes' /\ (busy' <=> request'.at # "none")  BY <1>4, <2>3, <3>1
    <3>3. BatchShown'  BY <3>1 DEF BatchShown
    <3> QED BY <1>2, <1>5, <3>1, <3>2, <3>3 DEF PopupInv
  <2> QED BY <1>13, <2>1, <2>2, <2>3 DEF Elsewhere
<1> QED BY <1>9, <1>10, <1>11, <1>12, <1>13

LEMMA PopupStep == PopupInv /\ [PopupNext]_popupVars => PopupInv'
<1> SUFFICES ASSUME PopupInv, [PopupNext]_popupVars PROVE PopupInv'  OBVIOUS
<1>1. CASE Refresh \/ LosePoll \/ \E r \in reads : ServePoll(r) \/ ReadPoll(r)
  BY <1>1, PollsKeep
<1>2. CASE \E kind \in Controls \cup {"options", "start"} : Click(kind)  BY <1>2, ClickKeeps
<1>3. CASE Answered  BY <1>3, AnsweredKeeps
<1>4. CASE SaveSettings \/ Saved  BY <1>4, SavedKeeps
<1>5. CASE Serve \/ Admitted \/ Works \/ TornDown \/ Elsewhere  BY <1>5, DaemonKeeps
<1>6. CASE UNCHANGED popupVars
  <2>1. UNCHANGED <<client, good, connected, progress, optionsReady, busy, viewGeneration, reads,
                    optionsOf, request, shown, phase, admitted, stopped>>
    BY <1>6 DEF popupVars, view, daemon, ghosts
  <2>2. PopupTypes' /\ OptionsOfThisClient' /\ Marked'
    BY <2>1 DEF PopupInv, PopupTypes, OptionsOfThisClient, Marked
  <2>3. BatchShown' /\ UpToDate'
    BY <2>1 DEF PopupInv, BatchShown, UpToDate, Told, Wanted, Now, MarkOf
  <2> QED BY <2>1, <2>2, <2>3 DEF PopupInv
<1> QED BY <1>1, <1>2, <1>3, <1>4, <1>5, <1>6 DEF PopupNext

(* The inductive invariant of the popup: between its requests, whatever it      *)
(* believes of a batch of its own was read after its last request was answered. *)
THEOREM PopupInductive == PopupSpec => []PopupInv
<1> QED BY PopupStart, PopupStep, PTL DEF PopupSpec

(* Options loaded from one daemon never stand when the settings name another.    *)
THEOREM OptionsAreOfThisClient == PopupSpec => []OptionsOfThisClient
<1>1. PopupInv => OptionsOfThisClient  BY DEF PopupInv
<1> QED BY <1>1, PopupInductive, PTL

(* What a click can be: one of the controls the view offers. *)
LEMMA SentWasOffered ==
  ASSUME PopupInv, [PopupNext]_popupVars, made' # made
  PROVE  /\ Offered(request'.kind) /\ request'.kind \in Controls \cup {"options", "start"}
         /\ UNCHANGED <<phase, admitted, stopped>>
<1>1. PICK kind \in Controls \cup {"options", "start"} : Click(kind)
  BY DEF PopupNext, popupVars, bounds, Refresh, LosePoll, ServePoll, ReadPoll, Answered, SaveSettings,
         Saved, Serve, Admitted, Works, TornDown, Elsewhere
<1>2. request'.kind = kind  BY <1>1 DEF Click
<1> QED BY <1>1, <1>2 DEF Click, daemon, ghosts

(* Neither a view from before an answer nor a poll that was under way then, of    *)
(* whatever client and however late, makes the popup start a second batch beside *)
(* its own or pause and resume one it stopped.                                  *)
THEOREM OldViewsUnlockNothing == PopupSpec => StaleViewsUnlockNothing
<1>1. ASSUME PopupInv, [PopupNext]_popupVars, made' # made, phase = "installed"
      PROVE  /\ admitted => request'.kind # "start"
             /\ stopped => request'.kind \notin {"pause", "resume"}
  <2>1. Offered(request'.kind) /\ request'.kind \in Controls \cup {"options", "start"}
    BY <1>1, SentWasOffered
  <2>2. connected /\ ~ busy => Told(progress)  BY <1>1 DEF PopupInv, UpToDate
  <2>3. request'.kind = "start" => connected /\ ~ busy /\ ~ SessionLocked(progress.state)
    BY <2>1 DEF Offered, Locked
  <2>4. request'.kind \in {"pause", "resume"} => connected /\ ~ busy /\ ~ progress.stop
    <3>1. ASSUME request'.kind = "pause" PROVE connected /\ ~ busy /\ ~ progress.stop
      BY <2>1, <3>1 DEF Offered
    <3>2. ASSUME request'.kind = "resume" PROVE connected /\ ~ busy /\ ~ progress.stop
      BY <2>1, <3>2 DEF Offered
    <3> QED BY <3>1, <3>2
  <2> QED BY <2>2, <2>3, <2>4 DEF Told
<1>2. PopupInv /\ [PopupNext]_popupVars =>
        [Sent({"start"}) => ~ (phase = "installed" /\ admitted)]_popupVars
  BY <1>1 DEF Sent
<1>3. PopupInv /\ [PopupNext]_popupVars =>
        [Sent({"pause", "resume"}) => ~ (phase = "installed" /\ stopped)]_popupVars
  BY <1>1 DEF Sent
<1>4. PopupSpec => NoSecondStart  BY <1>2, PopupInductive, PTL DEF PopupSpec, NoSecondStart
<1>5. PopupSpec => NothingAfterOwnStop
  BY <1>3, PopupInductive, PTL DEF PopupSpec, NothingAfterOwnStop
<1> QED BY <1>4, <1>5 DEF StaleViewsUnlockNothing
=============================================================================
