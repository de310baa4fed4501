---------------------------- MODULE DialogBridge ----------------------------
(***************************************************************************)
(* The extension's two content scripts in one portal tab.  The isolated half  *)
(* (content-script.ts, BridgeClient) runs each submitting command between an  *)
(* arm and a disarm request; the page's half (main-world.ts, DialogGate)      *)
(* answers them, and while it is armed the page's alert and confirm are       *)
(* answered without being shown.  Both halves live on the one thread of the   *)
(* page and talk by postMessage, which keeps the order of the messages; a     *)
(* dialog that is shown stops that thread, but not the clock.                 *)
(*                                                                          *)
(* Commands overlap: the background gives one up after 15 s and may send the  *)
(* next while the content script is still at it.                              *)
(***************************************************************************)
EXTENDS Naturals, Sequences

CONSTANTS
  Commands,   \* the submitting commands the tab ever gets
  Ttl,        \* DIALOG_ARM_MS, in ticks
  MaxArm,     \* MAX_ARM_MS, in ticks
  ReplyWait   \* BridgeClient.defaultTimeoutMs, in ticks

ASSUME DialogBridgeAssumption ==
  Ttl \in Nat /\ MaxArm \in Nat \ {0} /\ ReplyWait \in Nat \ {0}

VARIABLES
  cmd,        \* command -> "idle", "arming", "operating", "disarming", "answered", "lost"
  sequence,   \* BridgeClient.sequence
  pending,    \* BridgeClient.pending: id, command and what is left of its timer
  queue,      \* messages posted to the window and not dispatched
  armed,      \* ticks until DialogGate.armedUntil, 0 when passed
  injected,   \* the page's half is there
  alive,      \* the isolated half is there
  shown,      \* a native dialog is open: nothing runs in the page
  handled,    \* commands whose arm the page's half has carried out
  cover,      \* command -> ticks its own arm has to last, counted from its request
  overlapped, \* commands that ran beside another one
  abandoned   \* an arm request was given up

bridgeVars == <<cmd, sequence, pending, queue, armed, injected, alive, shown, handled,
                cover, overlapped, abandoned>>

client == <<cmd, sequence, pending, overlapped, abandoned>>

Applied == IF Ttl < MaxArm THEN Ttl ELSE MaxArm
Less(n) == IF n = 0 THEN 0 ELSE n - 1

Active(c) == cmd[c] \in {"arming", "operating", "disarming"}

Message(kind, id, of) == [kind |-> kind, id |-> id, of |-> of]

BridgeInit ==
  /\ cmd = [c \in Commands |-> "idle"]
  /\ sequence = 0 /\ pending = {} /\ queue = << >>
  /\ armed = 0 /\ injected \in BOOLEAN /\ alive = TRUE /\ shown = FALSE
  /\ handled = {} /\ overlapped = {} /\ abandoned = FALSE
  /\ cover = [c \in Commands |-> 0]

-----------------------------------------------------------------------------
(* The isolated half. *)

(* Mutation: the request is posted, but nothing limits the wait for its reply. *)
SendWithoutTimer(kind, c) ==
  /\ sequence' = sequence + 1
  /\ queue' = Append(queue, Message(kind, sequence + 1, c))
  /\ UNCHANGED pending

(* BridgeClient.send. *)
SendRequest(kind, c) ==
  /\ sequence' = sequence + 1
  /\ queue' = Append(queue, Message(kind, sequence + 1, c))
  /\ pending' = pending \cup {[id |-> sequence + 1, cmd |-> c, left |-> ReplyWait]}

Arrive(c) ==
  LET beside == {d \in Commands : Active(d)}
  IN  overlapped' = IF beside = {} THEN overlapped ELSE overlapped \cup beside \cup {c}

(* Mutation: the arm is posted, and the operation does not wait for it. *)
BeginAtOnce(c) ==
  /\ alive /\ ~ shown /\ cmd[c] = "idle"
  /\ SendRequest("arm", c)
  /\ Arrive(c)
  /\ cmd' = [cmd EXCEPT ![c] = "operating"]
  /\ cover' = [cover EXCEPT ![c] = Applied]
  /\ UNCHANGED <<armed, injected, alive, shown, handled, abandoned>>

(* withDialogsArmed: arm first, and wait for the reply. *)
Begin(c) ==
  /\ alive /\ ~ shown /\ cmd[c] = "idle"
  /\ SendRequest("arm", c)
  /\ Arrive(c)
  /\ cmd' = [cmd EXCEPT ![c] = "arming"]
  /\ cover' = [cover EXCEPT ![c] = Applied]
  /\ UNCHANGED <<armed, injected, alive, shown, handled, abandoned>>

(* Mutation: the disarm is left to the deadline. *)
FinishWithoutDisarm(c) ==
  /\ alive /\ ~ shown /\ cmd[c] = "operating"
  /\ cmd' = [cmd EXCEPT ![c] = "answered"]
  /\ UNCHANGED <<sequence, pending, queue, armed, injected, alive, shown, handled, cover,
                 overlapped, abandoned>>

(* The operation ends, well or badly: finally, disarm. *)
Finish(c) ==
  /\ alive /\ ~ shown /\ cmd[c] = "operating"
  /\ SendRequest("disarm", c)
  /\ cmd' = [cmd EXCEPT ![c] = "disarming"]
  /\ UNCHANGED <<armed, injected, alive, shown, handled, cover, overlapped, abandoned>>

AfterReply(c) == IF cmd[c] = "arming" THEN "operating" ELSE "answered"

(* Mutation: a reply goes to whoever has waited longest. *)
SettleOldest(m) ==
  LET first == {p \in pending : \A q \in pending : p.id <= q.id}
  IN  /\ cmd' = [c \in Commands |->
                   IF \E p \in first : p.cmd = c THEN AfterReply(c) ELSE cmd[c]]
      /\ pending' = pending \ first

(* BridgeClient.settle: a reply nobody waits for any more is dropped. *)
Settle(m) ==
  LET entry == {p \in pending : p.id = m.id}
  IN  /\ cmd' = [c \in Commands |->
                   IF \E p \in entry : p.cmd = c THEN AfterReply(c) ELSE cmd[c]]
      /\ pending' = pending \ entry

(* The timer of a request: an arm that fails takes its command with it, a      *)
(* disarm that fails does not.                                                *)
GiveUp ==
  /\ alive /\ ~ shown
  /\ \E p \in pending :
       /\ p.left = 0
       /\ pending' = pending \ {p}
       /\ cmd' = [cmd EXCEPT ![p.cmd] = "answered"]
       /\ abandoned' = (abandoned \/ cmd[p.cmd] = "arming")
  /\ UNCHANGED <<sequence, queue, armed, injected, alive, shown, handled, cover, overlapped>>

(* The extension is reloaded, or its script is torn down: no disarm follows. *)
Die ==
  /\ alive
  /\ alive' = FALSE
  /\ pending' = {}
  /\ cmd' = [c \in Commands |-> IF Active(c) THEN "lost" ELSE cmd[c]]
  /\ UNCHANGED <<sequence, queue, armed, injected, shown, handled, cover, overlapped, abandoned>>

-----------------------------------------------------------------------------
(* The page's half. *)

(* DialogGate.arm: never shortens an arm that is running. *)
Arm == armed' = IF Applied > armed THEN Applied ELSE armed

(* DialogGate.disarm: whoever asks. *)
Disarm == armed' = 0

Answer(m) == queue' = Append(Tail(queue), Message("reply", m.id, m.of))

(* A message is dispatched to both halves; each takes what is meant for it. *)
Dispatch ==
  /\ ~ shown /\ queue # << >>
  /\ LET m == Head(queue)
     IN  \/ /\ m.kind = "reply"
            /\ queue' = Tail(queue)
            /\ Settle(m)
            /\ UNCHANGED <<armed, handled>>
         \/ /\ m.kind # "reply" /\ ~ injected
            /\ queue' = Tail(queue)
            /\ UNCHANGED <<armed, handled, cmd, pending>>
         \/ /\ m.kind = "arm" /\ injected
            /\ Arm
            /\ handled' = handled \cup {m.of}
            /\ Answer(m)
            /\ UNCHANGED <<cmd, pending>>
         \/ /\ m.kind = "disarm" /\ injected
            /\ Disarm
            /\ Answer(m)
            /\ UNCHANGED <<handled, cmd, pending>>
  /\ UNCHANGED <<sequence, injected, alive, shown, cover, overlapped, abandoned>>

(* The page calls alert or confirm, of its own or because of a command.  Armed, *)
(* it has its answer at once and nothing changes.                              *)
ShowDialog ==
  /\ ~ shown /\ armed = 0
  /\ shown' = TRUE
  /\ UNCHANGED <<client, queue, armed, injected, alive, handled, cover>>

Dismiss ==
  /\ shown
  /\ shown' = FALSE
  /\ UNCHANGED <<client, queue, armed, injected, alive, handled, cover>>

-----------------------------------------------------------------------------
(* Time. *)

(* Mutation: the gate stays armed until somebody disarms it. *)
WaitsForDisarm == UNCHANGED armed

(* DialogGate.armed: suppression ends at its deadline. *)
Lapses == armed' = Less(armed)

Tick ==
  /\ Lapses
  /\ cover' = [c \in Commands |-> Less(cover[c])]
  /\ pending' = {[p EXCEPT !.left = Less(p.left)] : p \in pending}
  /\ UNCHANGED <<cmd, sequence, queue, injected, alive, shown, handled, overlapped, abandoned>>

BridgeNext ==
  \/ \E c \in Commands : Begin(c) \/ Finish(c)
  \/ GiveUp \/ Die \/ Dispatch \/ ShowDialog \/ Dismiss \/ Tick

(* Time passes and a dialog is dismissed in the end.  A page may open one      *)
(* dialog after another, so dispatch and timers get their turns between them,  *)
(* which the event loop gives each of its queues.  An operation may never end. *)
Fairness ==
  /\ WF_bridgeVars(Tick) /\ WF_bridgeVars(Dismiss)
  /\ SF_bridgeVars(Dispatch) /\ SF_bridgeVars(GiveUp)

BridgeSpec == BridgeInit /\ [][BridgeNext]_bridgeVars
BridgeFairSpec == BridgeSpec /\ Fairness

-----------------------------------------------------------------------------
(* Properties. *)

(* Every variable keeps its type. *)
BridgeTypeOK ==
  /\ cmd \in [Commands -> {"idle", "arming", "operating", "disarming", "answered", "lost"}]
  /\ sequence \in Nat
  /\ \A p \in pending : p.id \in 1..sequence /\ p.cmd \in Commands /\ p.left \in 0..ReplyWait
  /\ \A i \in DOMAIN queue :
       /\ queue[i].kind \in {"arm", "disarm", "reply"}
       /\ queue[i].id \in 1..sequence /\ queue[i].of \in Commands
  /\ armed \in 0..Applied
  /\ {injected, alive, shown, abandoned} \subseteq BOOLEAN
  /\ handled \subseteq Commands /\ overlapped \subseteq Commands
  /\ cover \in [Commands -> 0..Applied]

(* A command runs its operation only after the page's half has carried out its *)
(* own arm: a late reply to a request that was given up is taken for nobody    *)
(* else's (BridgeClient.send, settle).                                         *)
RunsOnItsOwnArm == \A c \in Commands : cmd[c] \in {"operating", "disarming"} => c \in handled

(* As long as its arm has to last, no dialog reaches the user during a command *)
(* that overlaps no other, whatever requests before it were given up and come  *)
(* late (withDialogsArmed).                                                   *)
LoneCommandIsCovered ==
  \A c \in Commands \ overlapped : (cmd[c] = "operating" /\ cover[c] > 0) => armed > 0

(* A submission is covered by an arm of its own.                                *)
CommandsAreCovered == RunsOnItsOwnArm /\ LoneCommandIsCovered

NoSubmissionUnderWay ==
  /\ alive
  /\ \A c \in Commands : ~ Active(c)
  /\ \A i \in DOMAIN queue : queue[i].kind # "disarm"

(* When no arm request was given up, dialogs are back with the user as soon as *)
(* the last command has been answered and its disarm dispatched, however the   *)
(* commands overlapped (withDialogsArmed's finally).                           *)
HandedBack == (NoSubmissionUnderWay /\ ~ abandoned) => armed = 0

(* Without the isolated half, and without any disarm, suppression ends by      *)
(* itself (DialogGate: "the page has to recover on its own").                  *)
DialogsComeBack == armed > 0 ~> armed = 0

(* Arming and disarming always come to an end: the reply comes, or the timer   *)
(* does, also when the page's half was never injected (BridgeClient.send).     *)
BridgeCallsEnd ==
  \A c \in Commands : cmd[c] \in {"arming", "disarming"} ~> cmd[c] \notin {"arming", "disarming"}

(* The page gets its dialogs back, and no command hangs on the bridge.           *)
ThePageRecovers == []HandedBack /\ DialogsComeBack /\ BridgeCallsEnd

=============================================================================
