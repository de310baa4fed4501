---------------------------- MODULE DaemonPopup ----------------------------
(***************************************************************************)
(* The extension's popup (popup/main.ts) in front of the daemon: it polls the *)
(* daemon's status once a second, offers the controls that status allows and  *)
(* sends each of them once.  A poll may be served at one time and read at     *)
(* another, polls overlap with requests, and the settings may be saved anew   *)
(* while anything is under way.                                               *)
(*                                                                          *)
(* Of the daemon (daemon.rs; in full in DaemonControl) there is what status   *)
(* shows and what makes a request refused.  Others use the daemon as well;    *)
(* a request of this popup that is lost and served later counts as theirs.    *)
(***************************************************************************)
EXTENDS Naturals, FiniteSets

CONSTANTS
  MaxRequests,   \* bound: requests the popup makes
  MaxReads,      \* bound: polls under way at once
  MaxSaves,      \* bound: settings saved
  MaxElsewhere   \* bound: requests of others, and restarts of the daemon

ASSUME DaemonPopupAssumption ==
  MaxRequests \in Nat /\ MaxReads \in Nat \ {0} /\ MaxSaves \in Nat /\ MaxElsewhere \in Nat

VARIABLES
  (* The popup, named as in main.ts; clients are numbered, 0 is null. *)
  client, good, connected, progress, optionsReady, polling, busy, viewGeneration,
  saving,     \* saves that wait for the extension's storage
  reads,      \* polls not completed: client, generation and what was read
  request,    \* the POST, or the form-options read, busy stands for
  optionsOf,  \* ghost: the client the options offered came from
  made, saves, elsewhere,
  (* The daemon. *)
  shown,      \* what GET /status answers
  phase,      \* "free", "admitting", "options", "installed" or "ending"
  (* Ghosts, of the daemon's batch: this popup had it admitted, told it to stop. *)
  admitted, stopped

view == <<client, good, connected, progress, optionsReady, polling, busy, viewGeneration,
          saving, reads, optionsOf>>
bounds == <<made, saves, elsewhere>>
daemon == <<shown, phase>>
ghosts == <<admitted, stopped>>
popupVars == <<view, request, bounds, daemon, ghosts>>

Controls == {"pause", "resume", "stop"}
Status(state, pause, stop) == [state |-> state, pause |-> pause, stop |-> stop]
Idle == Status("idle", FALSE, FALSE)
Unknown == Status("unknown", FALSE, FALSE)     \* progress = null
Nobody == [client |-> 0, generation |-> 0]
NoRequest == [kind |-> "none", at |-> "none", client |-> 0, good |-> FALSE]

PopupInit ==
  /\ client \in {0, 1} /\ good \in BOOLEAN /\ (good => client = 1)
  /\ connected = FALSE /\ progress = Unknown /\ optionsReady = FALSE
  /\ polling = Nobody /\ busy = FALSE /\ viewGeneration = 0
  /\ saving = 0 /\ reads = {} /\ request = NoRequest /\ optionsOf = 0
  /\ made = 0 /\ saves = 0 /\ elsewhere = 0
  /\ shown = Idle /\ phase = "free"
  /\ admitted = FALSE /\ stopped = FALSE

-----------------------------------------------------------------------------
(* controls(): what is offered. *)

SessionLocked(state) == state \notin {"idle", "stopped", "complete"}
Active(state) == state = "working"

Locked ==
  ~ connected \/ busy \/ SessionLocked(progress.state) \/ progress.pause \/ progress.stop

Offered(kind) ==
  CASE kind = "options" -> ~ Locked
    [] kind = "start" -> ~ Locked /\ optionsReady
    [] kind = "pause" ->
         connected /\ ~ busy /\ ~ progress.stop /\ Active(progress.state) /\ ~ progress.pause
    [] kind = "resume" ->
         connected /\ ~ busy /\ ~ progress.stop /\ progress.pause
           /\ (progress.state = "paused" \/ Active(progress.state))
    [] kind = "stop" ->
         connected /\ ~ busy /\ ~ progress.stop
           /\ (progress.state = "paused" \/ Active(progress.state))

-----------------------------------------------------------------------------
(* refresh(): one poll per client and generation at a time. *)

Now == [client |-> client, generation |-> viewGeneration]
Poll(mark, seen, how) ==
  [client |-> mark.client, generation |-> mark.generation, seen |-> seen, how |-> how]
MarkOf(r) == [client |-> r.client, generation |-> r.generation]

Begins(mark) ==
  IF mark.client = 0 \/ polling = mark
  THEN UNCHANGED <<polling, reads>>
  ELSE /\ Cardinality(reads) < MaxReads
       /\ polling' = mark
       /\ reads' = reads \cup {Poll(mark, Unknown, "sent")}

Refresh ==
  /\ Begins(Now)
  /\ UNCHANGED <<client, good, connected, progress, optionsReady, busy, viewGeneration, saving,
                 optionsOf, request, bounds, daemon, ghosts>>

(* The daemon serves a poll; a poll with bad settings, or one that is lost or    *)
(* cut off after five seconds, fails.                                           *)
ServePoll(r) ==
  /\ r \in reads /\ r.how = "sent"
  /\ reads' = (reads \ {r}) \cup
                {IF good THEN Poll(MarkOf(r), shown, "read") ELSE Poll(MarkOf(r), Unknown, "failed")}
  /\ UNCHANGED <<client, good, connected, progress, optionsReady, polling, busy, viewGeneration,
                 saving, optionsOf, request, bounds, daemon, ghosts>>

LosePoll ==
  /\ elsewhere < MaxElsewhere /\ elsewhere' = elsewhere + 1
  /\ \E r \in reads :
       /\ r.how = "sent"
       /\ reads' = (reads \ {r}) \cup {Poll(MarkOf(r), Unknown, "failed")}
  /\ UNCHANGED <<client, good, connected, progress, optionsReady, polling, busy, viewGeneration,
                 saving, optionsOf, request, made, saves, daemon, ghosts>>

(* Mutation: whatever is read is shown. *)
StillWanted(r) == TRUE

(* A poll of an older client or generation is not looked at. *)
Wanted(r) == MarkOf(r) = Now

Disconnected == connected' = FALSE /\ progress' = Unknown

Show(r) ==
  IF ~ Wanted(r) THEN UNCHANGED <<connected, progress>>
  ELSE IF r.how = "read"
  THEN connected' = TRUE /\ progress' = r.seen
  ELSE Disconnected

(* Mutation: only a poll that succeeds makes room for the next. *)
ReadPollInTry(r) ==
  /\ r \in reads /\ r.how # "sent"
  /\ reads' = reads \ {r}
  /\ Show(r)
  /\ polling' = IF polling = MarkOf(r) /\ r.how = "read" THEN Nobody ELSE polling
  /\ UNCHANGED <<client, good, optionsReady, optionsOf, busy, viewGeneration, saving, request,
                 bounds, daemon, ghosts>>

ReadPoll(r) ==
  /\ r \in reads /\ r.how # "sent"
  /\ reads' = reads \ {r}
  /\ Show(r)
  /\ polling' = IF polling = MarkOf(r) THEN Nobody ELSE polling
  /\ UNCHANGED <<client, good, optionsReady, optionsOf, busy, viewGeneration, saving, request,
                 bounds, daemon, ghosts>>

-----------------------------------------------------------------------------
(* The buttons. *)

(* control, loadOptions, start: sent once, everything locked until it is over.  *)
Click(kind) ==
  /\ client # 0 /\ Offered(kind) /\ made < MaxRequests
  /\ busy' = TRUE /\ made' = made + 1
  /\ request' = [kind |-> kind, at |-> "sent", client |-> client, good |-> good]
  /\ UNCHANGED <<client, good, connected, progress, optionsReady, polling, viewGeneration,
                 saving, reads, optionsOf, saves, elsewhere, daemon, ghosts>>

(* Mutation: the view stays connected, with what it showed before the request. *)
RefreshKeepsView ==
  /\ viewGeneration' = viewGeneration + 1
  /\ busy' = FALSE
  /\ Begins([client |-> client, generation |-> viewGeneration + 1])
  /\ UNCHANGED <<connected, progress>>

(* refreshAfterRequest.  The progress of a popup that is not connected decides   *)
(* nothing, and is taken for unknown. *)
RefreshAfterRequest ==
  /\ viewGeneration' = viewGeneration + 1
  /\ Disconnected /\ busy' = FALSE
  /\ Begins([client |-> client, generation |-> viewGeneration + 1])

(* Mutation: whoever's options come are taken. *)
OptionsOfAnyone ==
  IF request.kind # "options"
  THEN UNCHANGED <<optionsReady, optionsOf>>
  ELSE /\ optionsReady' \in IF request.at = "ok" THEN BOOLEAN ELSE {FALSE}
       /\ optionsOf' = IF optionsReady' THEN request.client ELSE 0

(* What becomes of the options: those of a client that was replaced are not      *)
(* taken, and any failure takes away what there was.                            *)
Options ==
  IF request.kind # "options" \/ (request.at = "ok" /\ request.client # client)
  THEN UNCHANGED <<optionsReady, optionsOf>>
  ELSE /\ optionsReady' \in IF request.at = "ok" THEN BOOLEAN ELSE {FALSE}
       /\ optionsOf' = IF optionsReady' THEN request.client ELSE 0

(* Mutation: a request that fails is only reported. *)
AnsweredThen ==
  /\ request.at = "ok"
  /\ Options
  /\ RefreshAfterRequest
  /\ request' = NoRequest
  /\ UNCHANGED <<client, good, saving, bounds, daemon, ghosts>>

Answered ==
  /\ request.at \in {"ok", "failed"}
  /\ Options
  /\ RefreshAfterRequest
  /\ request' = NoRequest
  /\ UNCHANGED <<client, good, saving, bounds, daemon, ghosts>>

SaveSettings ==
  /\ ~ busy /\ saves < MaxSaves
  /\ saves' = saves + 1 /\ saving' = saving + 1
  /\ UNCHANGED <<client, good, connected, progress, optionsReady, polling, busy, viewGeneration,
                 reads, optionsOf, request, made, elsewhere, daemon, ghosts>>

(* The storage has answered, maybe while a request has been made meanwhile. *)
Saved ==
  /\ saving > 0 /\ saving' = saving - 1
  /\ \/ UNCHANGED <<client, good, connected, progress, optionsReady, optionsOf, polling, reads>>
     \/ /\ client' = client + 1 /\ good' \in BOOLEAN
        /\ optionsReady' = FALSE /\ optionsOf' = 0
        /\ Disconnected
        /\ Begins([client |-> client + 1, generation |-> viewGeneration])
  /\ UNCHANGED <<busy, viewGeneration, request, bounds, daemon, ghosts>>

-----------------------------------------------------------------------------
(* The daemon. *)

Replies(at) == request' = [request EXCEPT !.at = at]

Admits ==
  /\ phase' = "admitting" /\ shown' = Status("initializing", FALSE, FALSE)
  /\ admitted' = FALSE /\ stopped' = FALSE

(* A pause, resume or stop with a controller installed, or its refusal. *)
Obeys(kind) ==
  /\ phase = "installed" /\ (kind = "stop" \/ ~ shown.stop)
  /\ shown' = IF kind = "stop" THEN [shown EXCEPT !.stop = TRUE, !.pause = FALSE]
              ELSE [shown EXCEPT !.pause = kind = "pause"]
  /\ UNCHANGED phase

(* The daemon takes the popup's request. *)
Serve ==
  /\ request.at = "sent"
  /\ \/ /\ request.kind = "start" /\ request.good /\ phase = "free"
        /\ Admits /\ Replies("admitting")
     \/ /\ request.kind = "options" /\ request.good /\ phase = "free"
        /\ phase' = "options" /\ Replies("admitting") /\ UNCHANGED <<shown, ghosts>>
     \/ /\ request.kind \in Controls /\ request.good
        /\ Obeys(request.kind) /\ Replies("ok")
        /\ stopped' = (stopped \/ request.kind = "stop")
        /\ UNCHANGED admitted
     \/ Replies("failed") /\ UNCHANGED <<daemon, ghosts>>
  /\ UNCHANGED <<view, bounds>>

Shows(state) == shown' = [shown EXCEPT !.state = state]

(* What was admitted comes up, or fails; shown is then what Busy::drop leaves.   *)
Admitted ==
  /\ phase \in {"admitting", "options"}
  /\ LET own == request.at = "admitting"
     IN  \/ /\ phase' = IF phase = "admitting" THEN "installed" ELSE "free"
            /\ request' = IF own THEN [request EXCEPT !.at = "ok"] ELSE request
            /\ admitted' = (own /\ phase = "admitting")
            /\ UNCHANGED shown
         \/ /\ phase' = "free" /\ UNCHANGED admitted
            /\ IF phase = "admitting" THEN Shows("stopped") ELSE UNCHANGED shown
            /\ request' = IF own THEN [request EXCEPT !.at = "failed"] ELSE request
  /\ UNCHANGED <<view, bounds, stopped>>

(* The batch at work: it pauses when asked to, goes on when asked to, and ends. *)
Works ==
  /\ phase = "installed"
  /\ \/ /\ \/ shown.state = "initializing" /\ Shows("working")
           \/ shown.state = "working" /\ shown.pause /\ Shows("paused")
           \/ shown.state = "paused" /\ ~ shown.pause /\ ~ shown.stop /\ Shows("working")
        /\ UNCHANGED phase
     \/ /\ shown.state # "paused" \/ shown.stop
        /\ phase' = "ending"
        /\ \E end \in {"complete", "stopped"} :
             /\ shown.stop => end = "stopped"
             /\ shown' = [shown EXCEPT !.state = end, !.pause = FALSE]
  /\ UNCHANGED <<view, request, bounds, ghosts>>

Over == phase' = "free" /\ admitted' = FALSE /\ stopped' = FALSE

TornDown ==
  /\ phase = "ending" /\ Over
  /\ UNCHANGED <<view, request, bounds, shown>>

(* Somebody else's request, or the daemon's end and new start. *)
Elsewhere ==
  /\ elsewhere < MaxElsewhere /\ elsewhere' = elsewhere + 1
  /\ \/ phase = "free" /\ Admits /\ UNCHANGED request
     \/ (\E kind \in Controls : Obeys(kind)) /\ UNCHANGED <<request, ghosts>>
     \/ /\ Over /\ shown' = Idle
        /\ request' = IF request.at \in {"sent", "admitting"} THEN [request EXCEPT !.at = "failed"]
                      ELSE request
  /\ UNCHANGED <<view, made, saves>>

PopupNext ==
  \/ Refresh \/ LosePoll
  \/ \E r \in reads : ServePoll(r) \/ ReadPoll(r)
  \/ \E kind \in Controls \cup {"options", "start"} : Click(kind)
  \/ Answered \/ SaveSettings \/ Saved
  \/ Serve \/ Admitted \/ Works \/ TornDown \/ Elsewhere

(* The interval timer, the storage, and a daemon that answers what it is asked:  *)
(* its workers and reads have timeouts (DaemonControl.EveryRequestIsAnswered).   *)
Fairness ==
  /\ WF_popupVars(Refresh) /\ WF_popupVars(Answered)
  /\ WF_popupVars(\E r \in reads : Wanted(r) /\ (ServePoll(r) \/ ReadPoll(r)))
  /\ WF_popupVars(\E r \in reads : ~ Wanted(r) /\ (ServePoll(r) \/ ReadPoll(r)))
  /\ WF_popupVars(Saved) /\ WF_popupVars(Serve) /\ WF_popupVars(Admitted)

PopupSpec == PopupInit /\ [][PopupNext]_popupVars
PopupFairSpec == PopupSpec /\ Fairness

-----------------------------------------------------------------------------
(* Properties. *)

States == {"unknown", "idle", "initializing", "working", "paused", "stopped", "complete"}

(* Every variable keeps its type, and no two polls are under way for one client  *)
(* and generation.                                                              *)
PopupTypeOK ==
  /\ client \in 0 .. MaxSaves + 1 /\ viewGeneration \in 0 .. MaxRequests
  /\ progress.state \in States /\ shown.state \in States
  /\ saving \in 0 .. MaxSaves
  /\ request.kind \in Controls \cup {"none", "options", "start"}
  /\ \A r, s \in reads : MarkOf(r) = MarkOf(s) => r = s
  /\ phase \in {"free", "admitting", "options", "installed", "ending"}
  /\ busy <=> request # NoRequest

Sent(kinds) == made' # made /\ request'.kind \in kinds

(* While the batch this popup had admitted runs, the popup sends no second        *)
(* start: neither a view from before the answer nor a poll that was under way    *)
(* unlocks the button (refreshAfterRequest, "old completions cannot unlock       *)
(* controls").                                                                  *)
NoSecondStart ==
  [][Sent({"start"}) => ~ (phase = "installed" /\ admitted)]_popupVars

(* Once a stop of this popup was accepted, it sends no pause and no resume to the *)
(* batch it stopped (docs/daemon-api.md, "a latched stop prevents further        *)
(* Pause/Resume controls").                                                     *)
NothingAfterOwnStop ==
  [][Sent({"pause", "resume"}) => ~ (phase = "installed" /\ stopped)]_popupVars

(* No view of an earlier moment makes the popup send what its daemon has gone    *)
(* beyond.                                                                      *)
StaleViewsUnlockNothing == NoSecondStart /\ NothingAfterOwnStop

(* The options a batch can be started with are those of the daemon it would be   *)
(* started at, also when the settings were saved while they were being loaded.   *)
OptionsOfThisClient == optionsReady => optionsOf = client

(* With settings that work the popup comes to show what the daemon shows, with    *)
(* the controls unlocked again, whatever polls failed or were overtaken and       *)
(* however its requests went (the interval timer, refreshAfterRequest).           *)
ComesToShowTheDaemon ==
  <>[](client # 0 /\ good) => <>[](connected /\ ~ busy /\ progress = shown)

=============================================================================
