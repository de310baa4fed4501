------------------------------ MODULE PortalTab ------------------------------
(***************************************************************************)
(* The automation engine driving a portal tab: RemotePortalAdapter in the     *)
(* background, the content script's dispatch, and DSSPPortalAdapter in the    *)
(* page.  A command that is not answered in time is given up on, and the tab  *)
(* runs it all the same: messages are handled in the order they were sent,    *)
(* but their fetches land in any order, between any two later commands.       *)
(***************************************************************************)
EXTENDS AutomationEngine, Bags

CONSTANTS First,        \* the first trainee of the portal's list
          MaxReloads,   \* bound: times the tab is reloaded
          MaxLate       \* bound: commands given up on that the tab still has

ASSUME FirstAssumption == First \in Trainees

VARIABLES
  late,       \* messages sent, given up on, and not handled yet
  flights,    \* bag of fetches the page has made and not seen answered
  selected,   \* currentTrainee
  form,       \* preparedForm: whose it is and whether it was filled
  submission, \* the outcome the last answered POST reads as, or "none"
  reloads,
  posts, stored,  \* ghosts: POSTs the page made, those the portal recorded
  overrun         \* ghost: the tab was left with a command given up on

tab == <<late, flights, selected, form, submission, reloads, posts, stored, overrun>>
vars == <<engine, tab>>

NoForm == [of |-> NoTrainee, filled |-> FALSE]

Init ==
  /\ EngineInit
  /\ late = << >> /\ flights = EmptyBag
  /\ selected = NoTrainee /\ form = NoForm /\ submission = "none" /\ reloads = 0
  /\ posts = << >> /\ stored = {} /\ overrun = FALSE

-----------------------------------------------------------------------------
(* Messages and fetches. *)

(* The trainee's turn a command belongs to. *)
Turn == [start |-> starts, who |-> current]
Message == [cmd |-> step, turn |-> Turn]

Flight(kind, who, turn, live) == [kind |-> kind, who |-> who, turn |-> turn, live |-> live]
InFlight == BagToSet(flights)
LiveFlights == {f \in InFlight : f.live}
Posting == {f \in InFlight : f.kind = "post"}

(* The engine's command has been sent and not handled. *)
Undelivered == step \in Commands /\ LiveFlights = {}

Fly(f) == flights' = flights (+) SetToBag({f})
Land(f) == flights' = flights (-) SetToBag({f})
LandAndFly(f, g) == flights' = (flights (-) SetToBag({f})) (+) SetToBag({g})

(* A command that would only read the page leaves nothing to run late. *)
Outlives(cmd) == cmd \in {"initialize", "reinitialize", "prepare", "fill", "submit"}
Abandoned == Len(late) + Cardinality({f \in InFlight : ~ f.live})

(* The answer goes to the engine if it is still waiting for it. *)
Answer(live, answer) == IF live THEN Hear(answer) ELSE UNCHANGED engine

-----------------------------------------------------------------------------
(* The commands.  Each is what handling the message does at once; an answer   *)
(* is given there and then or by the fetch it leaves behind.                  *)

IsPortalPage(live) ==
  /\ \E answer \in {"yes", "no"} : Answer(live, answer)
  /\ UNCHANGED tab

IsTrainingSessionReady(live) ==
  /\ Answer(live, IF form # NoForm THEN "yes" ELSE "no")
  /\ UNCHANGED tab

(* initializeTrainingSession lists the trainees and takes the first one's form. *)
InitializeTrainingSession(turn, live) ==
  /\ Fly(Flight("list", NoTrainee, turn, live))
  /\ UNCHANGED <<selected, form, submission, reloads, posts, stored, overrun, engine>>

(* prepareTrainee: the trainee is selected at once, the form loaded if need be. *)
PrepareTrainee(turn, live) ==
  /\ selected' = turn.who /\ submission' = "none"
  /\ IF form.of = turn.who
       THEN Answer(live, "ok") /\ UNCHANGED flights
       ELSE Fly(Flight("form", turn.who, turn, live)) /\ UNCHANGED engine
  /\ UNCHANGED <<form, reloads, posts, stored, overrun>>

OwnForm(turn) == selected = turn.who /\ form.of = turn.who

FillTrainingForm(turn, live) ==
  /\ \/ form = NoForm /\ Answer(live, "MISSING_DATA") /\ UNCHANGED form
     \/ /\ form # NoForm /\ ~ OwnForm(turn)
        /\ Answer(live, "PORTAL_STRUCTURE_CHANGED") /\ UNCHANGED form
     \/ OwnForm(turn) /\ Answer(live, "VALIDATION_FAILED") /\ UNCHANGED form
     \/ OwnForm(turn) /\ Answer(live, "ok") /\ form' = [form EXCEPT !.filled = TRUE]
  /\ UNCHANGED <<flights, selected, submission, reloads, posts, stored, overrun>>

ValidateTrainingForm(live) ==
  /\ \/ form = NoForm /\ Answer(live, "MISSING_DATA")
     \/ /\ form # NoForm
        /\ \E answer \in {"ok", "VALIDATION_FAILED", "PORTAL_STRUCTURE_CHANGED"} : Answer(live, answer)
  /\ UNCHANGED tab

(* withDialogsArmed: the page's world does not answer and nothing is run. *)
DialogsNotArmed(live) ==
  /\ Answer(live, "TIMEOUT")
  /\ UNCHANGED <<flights, selected, form, submission, reloads, posts, stored, overrun>>

(* Whoever the prepared form belongs to is who the POST is for.  A form that   *)
(* cannot be sent is an error of its own, or counts as one of the network.     *)
SubmitTrainingForm(turn, live) ==
  \/ DialogsNotArmed(live)
  \/ /\ \/ form = NoForm /\ Answer(live, "MISSING_DATA")
        \/ /\ form # NoForm
           /\ \E code \in {"PORTAL_STRUCTURE_CHANGED", "NETWORK"} : Answer(live, code)
     /\ UNCHANGED <<flights, selected, form, submission, reloads, posts, stored, overrun>>
  \/ /\ form # NoForm
     /\ posts' = Append(posts, [of |-> form.of, filled |-> form.filled, turn |-> turn])
     /\ Fly(Flight("post", form.of, turn, live))
     /\ UNCHANGED <<selected, form, submission, reloads, stored, overrun, engine>>

WaitForSubmissionResult(live) ==
  \/ Answer(live, "TIMEOUT") /\ UNCHANGED tab
  \/ submission # "none" /\ Answer(live, submission) /\ UNCHANGED tab

Handles(cmd, turn, live) ==
  \/ cmd = "is_page" /\ IsPortalPage(live)
  \/ cmd = "session_ready" /\ IsTrainingSessionReady(live)
  \/ cmd \in {"initialize", "reinitialize"} /\ InitializeTrainingSession(turn, live)
  \/ cmd = "prepare" /\ PrepareTrainee(turn, live)
  \/ cmd = "fill" /\ FillTrainingForm(turn, live)
  \/ cmd = "validate" /\ ValidateTrainingForm(live)
  \/ cmd = "submit" /\ SubmitTrainingForm(turn, live)
  \/ cmd = "wait" /\ WaitForSubmissionResult(live)

HandleLate ==
  /\ late # << >>
  /\ Handles(Head(late).cmd, Head(late).turn, FALSE)
  /\ late' = Tail(late)

HandleAwaited ==
  /\ late = << >> /\ Undelivered
  /\ Handles(step, Turn, TRUE)
  /\ UNCHANGED late

-----------------------------------------------------------------------------
(* The fetches. *)

Fails(f, codes) ==
  /\ Land(f)
  /\ \E code \in codes : Answer(f.live, code)

ListLands(f) ==
  /\ f.kind = "list"
  /\ \/ /\ selected' = First
        /\ LandAndFly(f, Flight("form", First, f.turn, f.live))
        /\ UNCHANGED engine
     \/ Fails(f, {"NETWORK", "SESSION_EXPIRED", "MISSING_DATA", "TIMEOUT"}) /\ UNCHANGED selected
  /\ UNCHANGED <<form, submission, stored>>

(* openTrainingForm after its await: the form replaces whatever was prepared. *)
FormLands(f) ==
  /\ f.kind = "form"
  /\ \/ Land(f) /\ Answer(f.live, "ok") /\ form' = [of |-> f.who, filled |-> FALSE]
     \/ Fails(f, {"NETWORK", "SESSION_EXPIRED", "ELEMENT_NOT_FOUND"}) /\ UNCHANGED form
  /\ UNCHANGED <<selected, submission, stored>>

(* The portal's answer to a POST, taken for what it says.  One that is lost or *)
(* cannot be read leaves both possible, and so does the login page: it comes   *)
(* after the POST and its redirects.                                          *)
Records(turn) == stored' = stored \cup {turn}
PostLands(f) ==
  /\ f.kind = "post"
  /\ \/ /\ Land(f) /\ Answer(f.live, "ok")
        /\ \/ submission' = "confirmed" /\ Records(f.turn)
           \/ submission' \in {"duplicate", "rejected"} /\ UNCHANGED stored
           \/ submission' = "CONFIRMATION_UNKNOWN" /\ (Records(f.turn) \/ UNCHANGED stored)
     \/ /\ Fails(f, {"NETWORK", "SESSION_EXPIRED"}) /\ UNCHANGED submission
        /\ Records(f.turn) \/ UNCHANGED stored
  /\ UNCHANGED <<selected, form>>

Lands ==
  /\ \E f \in InFlight : ListLands(f) \/ FormLands(f) \/ PostLands(f)
  /\ UNCHANGED <<late, reloads, posts, overrun>>

-----------------------------------------------------------------------------
(* The channel. *)

(* POSTs that get no further than the page may have got as far as the portal. *)
Lost(lostPosts) == \E turns \in SUBSET {f.turn : f \in lostPosts} : stored' = stored \cup turns

(* dispatch's timeout: the engine is answered and the tab is not told.  What  *)
(* it was doing goes on, or fails without an effect.                          *)
GiveUp ==
  /\ step \in Commands
  /\ Hear("PORTAL_UNAVAILABLE")
  /\ \/ /\ LiveFlights = {} /\ Outlives(step) /\ Abandoned < MaxLate
        /\ late' = Append(late, Message) /\ overrun' = TRUE /\ UNCHANGED <<flights, stored>>
     \/ LiveFlights = {} /\ UNCHANGED <<late, flights, stored, overrun>>
     \/ /\ Abandoned < MaxLate
        /\ \E f \in LiveFlights : LandAndFly(f, [f EXCEPT !.live = FALSE])
        /\ overrun' = TRUE /\ UNCHANGED <<late, stored>>
     \/ /\ \E f \in LiveFlights : Land(f) /\ Lost({f} \cap Posting)
        /\ UNCHANGED <<late, overrun>>
  /\ UNCHANGED <<selected, form, submission, reloads, posts>>

(* The tab is reloaded: the page's state and its fetches are gone, and with   *)
(* the message channel the engine's command fails.                            *)
Reload ==
  /\ reloads < MaxReloads
  /\ reloads' = reloads + 1
  /\ late' = << >> /\ flights' = EmptyBag
  /\ selected' = NoTrainee /\ form' = NoForm /\ submission' = "none"
  /\ Lost(Posting)
  /\ IF step \in Commands THEN Hear("PORTAL_UNAVAILABLE") ELSE UNCHANGED engine
  /\ UNCHANGED <<posts, overrun>>

-----------------------------------------------------------------------------
(* The end of the model, not of the extension. *)
Done == step = "idle" /\ starts = MaxStarts /\ UNCHANGED vars

Next ==
  \/ (Ticks \/ Operates) /\ UNCHANGED tab
  \/ HandleAwaited \/ HandleLate \/ Lands
  \/ GiveUp \/ Reload
  \/ Done

Spec == Init /\ [][Next]_vars

(* Timers fire and storage answers; the tab may do nothing for ever. *)
FairSpec == Spec /\ WF_vars(Ticks /\ UNCHANGED tab) /\ WF_vars(GiveUp)

-----------------------------------------------------------------------------
(* Properties. *)

Turns == [start : 0 .. MaxStarts, who : Trainees \cup {NoTrainee}]
Steps == Commands \cup {"idle", "pausing", "paused", "woken", "saving", "delay", "finishing",
                        "prepare_backoff", "wait_backoff"}
Rows == [who : Trainees, outcome : {"success", "failed", "indeterminate", "skipped"},
         code : Answers \cup {"none", "DUPLICATE_RECORD", "SUBMISSION_FAILED"}]

(* The values of the state, and that the engine waits for one fetch at most.   *)
TypeOK ==
  /\ step \in Steps
  /\ queue \in Seq(Trainees) /\ results \in Seq(Rows)
  /\ current \in Trainees \cup {NoTrainee} /\ attempt \in 0 .. MaxAttempts
  /\ pauseRequested \in BOOLEAN /\ stopRequested \in BOOLEAN
  /\ late \in Seq([cmd : Commands, turn : Turns])
  /\ \A f \in InFlight : f.turn \in Turns /\ f.kind \in {"list", "form", "post"}
  /\ Cardinality(LiveFlights) <= 1 /\ (LiveFlights # {} => step \in Commands)
  /\ selected \in Trainees \cup {NoTrainee} /\ form.of \in Trainees \cup {NoTrainee}
  /\ stored \subseteq Turns /\ overrun \in BOOLEAN

(* However often preparing and confirming are retried, and whatever runs late, *)
(* the page POSTs at most once in the turn a trainee has in a batch             *)
(* (commitSubmission: once per trainee and never through the retry policy).     *)
AtMostOnePost == \A i, j \in DOMAIN posts : posts[i].turn = posts[j].turn => i = j

(* Nobody of a batch is POSTed twice, and every POST is of the form that was    *)
(* filled for the trainee whose turn it is, as long as the tab was never left   *)
(* with a command given up on.  A form that lands late can be POSTed in another *)
(* trainee's turn, beside its own: submitTrainingForm does not look whose it is. *)
OnePostPerTrainee ==
  ~ overrun =>
    \A i \in DOMAIN posts :
      /\ posts[i].of = posts[i].turn.who /\ posts[i].filled
      /\ \A j \in DOMAIN posts :
           posts[i].of = posts[j].of /\ posts[i].turn.start = posts[j].turn.start => i = j

(* The turn's POST is still to be made or answered. *)
Outstanding(turn) ==
  \/ \E f \in Posting : f.turn = turn
  \/ \E i \in DOMAIN late : late[i] = [cmd |-> "submit", turn |-> turn]

(* A row that says failed without the portal having said so means what it says: *)
(* nothing more is POSTed in that turn, and what was has made no record         *)
(* (provesNothingSubmitted).  After an expired session only the first half is   *)
(* true: a login page that answered the POST does not say what became of it.     *)
FailedIsNotStored ==
  \A i \in DOMAIN results :
    (results[i].outcome = "failed" /\ results[i].code \notin {"DUPLICATE_RECORD", "SUBMISSION_FAILED"})
      => LET turn == [start |-> starts, who |-> results[i].who]
         IN  /\ ~ Outstanding(turn)
             /\ results[i].code # "SESSION_EXPIRED" => turn \notin stored

(* A turn is POSTed once at most, a trainee too unless a form came late, and    *)
(* the batch does not call a record that was made, or will be, a failure.       *)
NoDuplicates == AtMostOnePost /\ OnePostPerTrainee /\ FailedIsNotStored

(* A batch that ends has one row for every trainee it was started with, in     *)
(* order, however it ended; only one whose session never began has none, and   *)
(* that one POSTed nothing.                                                    *)
EndAccountsForAll ==
  (step \in {"finishing", "idle"} /\ starts > 0) =>
    \/ [i \in DOMAIN results |-> results[i].who] = batch
    \/ results = << >> /\ \A i \in DOMAIN posts : posts[i].turn.start < starts

(* Whenever the background is killed, the checkpoint it leaves has everyone of  *)
(* the batch, in order, either with a row or as pending: saves that failed and *)
(* the order of a row, its save and the next dequeue lose nobody (saveCheckpoint). *)
SlotAccountsForAll ==
  (slot.start = starts /\ starts > 0) =>
    [i \in DOMAIN slot.rows |-> slot.rows[i].who] \o slot.pending = batch

(* Nobody is lost, at the end of a batch or by a kill in the middle of one.    *)
AccountsForAll == EndAccountsForAll /\ SlotAccountsForAll

(* After a trainee whose record is in doubt nobody of the batch is tried       *)
(* (shouldAbortBatch: an unconfirmed submission stops the batch).              *)
DoubtEndsTheBatch ==
  \A i, j \in DOMAIN results :
    (i < j /\ results[i].outcome = "indeterminate") => results[j].outcome = "skipped"

(* No trainee is begun once a stop was asked for, not even by the resume of a  *)
(* pause the stop came into.                                                   *)
StopAdmitsNothing ==
  [][(Running /\ stopRequested) => current' \in {current, NoTrainee}]_vars

(* Neither a doubt nor a stop lets a batch go on.                              *)
DoubtOrStopIsTheEnd == []DoubtEndsTheBatch /\ StopAdmitsNothing

(* The engine always comes to its end or to sleep, though the tab may stop     *)
(* answering at any point: commands are given up on, retries are counted.      *)
RunEndsOrSleeps == Running ~> (~ Running \/ step = "paused")

=============================================================================
