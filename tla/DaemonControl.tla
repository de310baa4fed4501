--------------------------- MODULE DaemonControl ---------------------------
(***************************************************************************)
(* The threads of the loopback daemon (rust/src/daemon.rs): one per HTTP     *)
(* connection, each serving one request, and one per started batch.  They    *)
(* share the daemon's State under its mutex and, per batch, a BatchControl    *)
(* under its pause mutex.  BatchEngine has the batch itself with its control  *)
(* sections as single actions; here the batch thread keeps only what it does  *)
(* with the two mutexes, the shared State and the worker it owns.             *)
(*                                                                          *)
(* Every section under the state mutex that takes no other lock is one        *)
(* action.  A batch is named by the connection that started it.               *)
(***************************************************************************)
EXTENDS Naturals, FiniteSets

CONSTANTS Connections,  \* connections ever accepted
          NoOne,        \* no controller installed, no report
          Requests,     \* the requests they bring
          MaxQueue      \* bound: trainees of a batch

ASSUME NoOneAssumption == NoOne \notin Connections
ASSUME RequestsAssumption == Requests \subseteq {"batch", "options", "pause", "resume", "stop"}
ASSUME MaxQueueAssumption == MaxQueue \in Nat \ {0}

VARIABLES
  busy, installed, shown, report,   \* State: busy, control, progress, report
  stateLocked,                      \* its mutex is held across steps
  ctl,                              \* batch -> BatchControl
  pauseLocked,                      \* batch -> its pause mutex is held
  woken,                            \* batch -> its condition variable was notified
  at, kind, caught,                 \* connection -> place, request, controller it cloned
  batch,                            \* batch -> place of its thread
  left, aborted,                    \* batch -> trainees queued, run()'s flag
  workers                           \* connections and batches that own a worker

state == <<busy, installed, shown, report>>
locks == <<stateLocked, pauseLocked>>
serving == <<at, kind, caught>>
running == <<batch, left, aborted>>
vars == <<state, locks, ctl, woken, serving, running, workers>>

Commands == {"pause", "resume", "stop"}

Ended == {"complete", "stopped"}

ActiveStates == {"initializing", "submitting", "loading_trainee", "retrying", "paused"}

Idle == [state |-> "idle", pause |-> FALSE, stop |-> FALSE]

Init ==
  /\ busy = FALSE /\ installed = NoOne /\ shown = Idle /\ report = NoOne
  /\ stateLocked = FALSE
  /\ ctl = [b \in Connections |-> [pause |-> FALSE, stop |-> FALSE, closed |-> FALSE]]
  /\ pauseLocked = [b \in Connections |-> FALSE]
  /\ woken = [b \in Connections |-> FALSE]
  /\ at = [h \in Connections |-> "new"]
  /\ kind \in [Connections -> Requests]
  /\ caught = [h \in Connections |-> NoOne]
  /\ batch = [b \in Connections |-> "none"]
  /\ left = [b \in Connections |-> 0] /\ aborted = [b \in Connections |-> FALSE]
  /\ workers = {}

-----------------------------------------------------------------------------
(* Moves of a connection's thread and of a batch's. *)

Serve(h, from, to) == at[h] = from /\ at' = [at EXCEPT ![h] = to] /\ UNCHANGED kind

Run(b, from, to) == batch[b] = from /\ batch' = [batch EXCEPT ![b] = to]

(* Mutation: the state is left as the batch last showed it. *)
ClearFlags ==
  /\ installed' = NoOne
  /\ shown' = [shown EXCEPT !.pause = FALSE]

(* clear_control *)
ClearControl ==
  /\ installed' = NoOne
  /\ shown' = [shown EXCEPT !.pause = FALSE,
                            !.state = IF @ \in ActiveStates THEN "stopped" ELSE @]

(* Busy::drop *)
DropBusy == ~ stateLocked /\ ClearControl /\ busy' = FALSE /\ UNCHANGED report

(* Mutation: a write shows the flags progress() starts from. *)
SinkForgets(phase, landed) ==
  /\ ~ stateLocked
  /\ IF landed
     THEN /\ shown' = [state |-> phase, pause |-> FALSE, stop |-> shown.stop]
          /\ installed' = IF phase \in Ended THEN NoOne ELSE installed
     ELSE UNCHANGED <<shown, installed>>
  /\ UNCHANGED <<busy, report>>

(* Sink::write: nothing is shown of a write that did not land. *)
Sink(phase, landed) ==
  /\ ~ stateLocked
  /\ IF landed
     THEN /\ shown' = [state |-> phase, stop |-> shown.stop,
                       pause |-> phase \notin Ended /\ shown.pause]
          /\ installed' = IF phase \in Ended THEN NoOne ELSE installed
     ELSE UNCHANGED <<shown, installed>>
  /\ UNCHANGED <<busy, report>>

-----------------------------------------------------------------------------
(* POST /batch/pause, /batch/resume and /batch/stop. *)

(* Mutation: the guard lives on as the scrutinee of an `if let`. *)
CaptureAndHold(h) ==
  /\ kind[h] \in Commands /\ ~ stateLocked
  /\ IF installed = NoOne
     THEN Serve(h, "new", "done") /\ UNCHANGED <<caught, stateLocked>>
     ELSE /\ Serve(h, "new", "captured") /\ stateLocked' = TRUE
          /\ caught' = [caught EXCEPT ![h] = installed]
  /\ UNCHANGED <<state, pauseLocked, ctl, woken, running, workers>>

(* apply_control: clone the controller and let the state mutex go. *)
Capture(h) ==
  /\ kind[h] \in Commands /\ ~ stateLocked
  /\ IF installed = NoOne
     THEN Serve(h, "new", "done") /\ UNCHANGED caught
     ELSE Serve(h, "new", "captured") /\ caught' = [caught EXCEPT ![h] = installed]
  /\ UNCHANGED <<state, locks, ctl, woken, running, workers>>

(* control_captured: the pause mutex first, the state mutex inside it. *)
LockPause(h) ==
  /\ Serve(h, "captured", "requested")
  /\ ~ pauseLocked[caught[h]]
  /\ pauseLocked' = [pauseLocked EXCEPT ![caught[h]] = TRUE]
  /\ UNCHANGED <<state, stateLocked, ctl, woken, caught, running, workers>>

LockState(h) ==
  /\ Serve(h, "requested", "checking")
  /\ ~ stateLocked /\ stateLocked' = TRUE
  /\ UNCHANGED <<state, pauseLocked, ctl, woken, caught, running, workers>>

Answer(h) ==
  /\ Serve(h, "checking", "done")
  /\ stateLocked' = FALSE
  /\ pauseLocked' = [pauseLocked EXCEPT ![caught[h]] = FALSE]

(* Mutation: whether the batch has closed is not asked. *)
ControllableInstalled(b) == installed = b

Controllable(b) == installed = b /\ ~ ctl[b].closed

Refuse(h) ==
  /\ Answer(h)
  /\ \/ ~ Controllable(caught[h])
     \/ kind[h] # "stop" /\ ctl[caught[h]].stop
  /\ UNCHANGED <<state, ctl, woken, caught, running, workers>>

PauseOrResume(h) ==
  LET b == caught[h]
  IN  /\ Answer(h)
      /\ kind[h] # "stop" /\ Controllable(b) /\ ~ ctl[b].stop
      /\ ctl' = [ctl EXCEPT ![b].pause = kind[h] = "pause"]
      /\ shown' = [shown EXCEPT !.pause = kind[h] = "pause"]
      /\ woken' = [woken EXCEPT ![b] = TRUE]
      /\ UNCHANGED <<busy, installed, report, caught, running, workers>>

(* Mutation: a stop sets the flag and wakes nobody. *)
StopUnheard(h) ==
  LET b == caught[h]
  IN  /\ Answer(h)
      /\ kind[h] = "stop" /\ Controllable(b)
      /\ ctl' = [ctl EXCEPT ![b].stop = TRUE, ![b].pause = FALSE]
      /\ shown' = [shown EXCEPT !.stop = TRUE, !.pause = FALSE]
      /\ UNCHANGED <<busy, installed, report, woken, caught, running, workers>>

Stop(h) ==
  LET b == caught[h]
  IN  /\ Answer(h)
      /\ kind[h] = "stop" /\ Controllable(b)
      /\ ctl' = [ctl EXCEPT ![b].stop = TRUE, ![b].pause = FALSE]
      /\ shown' = [shown EXCEPT !.stop = TRUE, !.pause = FALSE]
      /\ woken' = [woken EXCEPT ![b] = TRUE]
      /\ UNCHANGED <<busy, installed, report, caught, running, workers>>

-----------------------------------------------------------------------------
(* POST /batch and GET /form-options: both own Busy while they own a worker. *)

Acquire(h) ==
  /\ kind[h] \in {"batch", "options"} /\ ~ stateLocked
  /\ IF busy
     THEN Serve(h, "new", "done") /\ UNCHANGED busy
     ELSE Serve(h, "new", IF kind[h] = "batch" THEN "guard" ELSE "spawn") /\ busy' = TRUE
  /\ UNCHANGED <<installed, shown, report, locks, ctl, woken, caught, running, workers>>

(* The recovery guard or the validation behind it refuses. *)
GuardRefuses(h) ==
  /\ Serve(h, "guard", "release")
  /\ UNCHANGED <<state, locks, ctl, woken, caught, running, workers>>

(* A resume with nobody left to run is reported at once. *)
NothingToRun(h) ==
  /\ Serve(h, "guard", "release") /\ ~ stateLocked
  /\ \E end \in Ended : shown' = [Idle EXCEPT !.state = end]
  /\ report' = h
  /\ UNCHANGED <<busy, installed, locks, ctl, woken, caught, running, workers>>

Begin(h) ==
  /\ Serve(h, "guard", "spawn") /\ ~ stateLocked
  /\ shown' = [Idle EXCEPT !.state = "initializing"]
  /\ report' = NoOne
  /\ \E n \in 1 .. MaxQueue : left' = [left EXCEPT ![h] = n]
  /\ UNCHANGED <<busy, installed, locks, ctl, woken, caught, batch, aborted, workers>>

SpawnWorker(h) ==
  /\ \/ Serve(h, "spawn", "prepare") /\ workers' = workers \cup {h}
     \/ Serve(h, "spawn", "release") /\ UNCHANGED workers
  /\ UNCHANGED <<state, locks, ctl, woken, caught, running>>

(* ensure, list, resolve: done, or the worker is torn down. *)
Prepare(h) ==
  /\ \/ kind[h] = "batch" /\ Serve(h, "prepare", "install") /\ UNCHANGED workers
     \/ Serve(h, "prepare", "release") /\ workers' = workers \ {h}
  /\ UNCHANGED <<state, locks, ctl, woken, caught, running>>

Install(h) ==
  /\ Serve(h, "install", "launch") /\ ~ stateLocked
  /\ installed' = h
  /\ UNCHANGED <<busy, shown, report, locks, ctl, woken, caught, running, workers>>

(* When no thread can be had the lease is dropped here, as a thread would. *)
Launch(h) ==
  /\ \/ Serve(h, "launch", "done") /\ Run(h, "none", "session")
     \/ Serve(h, "launch", "unspawned") /\ Run(h, "none", "dropControl")
  /\ UNCHANGED <<state, locks, ctl, woken, caught, left, aborted, workers>>

Unspawned(h) ==
  /\ Serve(h, "unspawned", "done") /\ batch[h] = "gone"
  /\ UNCHANGED <<state, locks, ctl, woken, caught, running, workers>>

Release(h) ==
  /\ Serve(h, "release", "done")
  /\ DropBusy
  /\ UNCHANGED <<locks, ctl, woken, caught, running, workers>>

-----------------------------------------------------------------------------
(* BatchEngine::run, as far as the mutexes and the State go. *)

LockOwn(b) == ~ pauseLocked[b] /\ pauseLocked' = [pauseLocked EXCEPT ![b] = TRUE]

UnlockOwn(b) == pauseLocked' = [pauseLocked EXCEPT ![b] = FALSE]

Session(b) ==
  /\ Run(b, "session", "loop") \/ Run(b, "session", "failed")
  /\ UNCHANGED <<state, locks, ctl, woken, serving, left, aborted, workers>>

QueueDone(b) ==
  /\ left[b] = 0 /\ Run(b, "loop", "finish")
  /\ UNCHANGED <<state, locks, ctl, woken, serving, left, aborted, workers>>

EnterBoundary(b) ==
  /\ left[b] > 0 /\ Run(b, "loop", "boundary") /\ LockOwn(b)
  /\ UNCHANGED <<state, stateLocked, ctl, woken, serving, left, aborted, workers>>

(* stop_checkpoint: fatal when it fails. *)
WriteStop(b, from) ==
  /\ \/ Sink("stopped", TRUE) /\ Run(b, from, "finish")
        /\ aborted' = [aborted EXCEPT ![b] = TRUE]
     \/ Sink("stopped", FALSE) /\ Run(b, from, "failed") /\ UNCHANGED aborted
  /\ UNCHANGED <<stateLocked, ctl, woken, serving, left, workers>>

Boundary(b) ==
  \/ /\ ctl[b].stop
     /\ WriteStop(b, "boundary") /\ UnlockOwn(b)
  \/ /\ ~ ctl[b].stop /\ ctl[b].pause
     /\ \/ Sink("paused", TRUE) /\ Run(b, "boundary", "waiting")
        \/ Sink("paused", FALSE) /\ Run(b, "boundary", "failed")
     /\ UnlockOwn(b) /\ woken' = [woken EXCEPT ![b] = FALSE]
     /\ UNCHANGED <<stateLocked, ctl, serving, left, aborted, workers>>
  \/ /\ ~ ctl[b].stop /\ ~ ctl[b].pause
     /\ Run(b, "boundary", "admit") /\ UnlockOwn(b)
     /\ UNCHANGED <<state, stateLocked, ctl, woken, serving, left, aborted, workers>>

(* The condition variable returns with the pause mutex. *)
Wake(b) ==
  /\ woken[b] /\ Run(b, "waiting", "woke") /\ LockOwn(b)
  /\ UNCHANGED <<state, stateLocked, ctl, woken, serving, left, aborted, workers>>

Woke(b) ==
  \/ /\ ctl[b].stop
     /\ WriteStop(b, "woke") /\ UnlockOwn(b)
  \/ /\ ~ ctl[b].stop /\ ctl[b].pause
     /\ Run(b, "woke", "waiting") /\ UnlockOwn(b)
     /\ woken' = [woken EXCEPT ![b] = FALSE]
     /\ UNCHANGED <<state, stateLocked, ctl, serving, left, aborted, workers>>
  \/ /\ ~ ctl[b].stop /\ ~ ctl[b].pause
     /\ \/ Sink("loading_trainee", TRUE) /\ Run(b, "woke", "admit")
        \/ Sink("loading_trainee", FALSE) /\ Run(b, "woke", "failed")
     /\ UnlockOwn(b)
     /\ UNCHANGED <<stateLocked, ctl, woken, serving, left, aborted, workers>>

Dequeue(b) ==
  /\ ~ pauseLocked[b]
  /\ IF ctl[b].stop
     THEN Run(b, "admit", "loop") /\ UNCHANGED left
     ELSE Run(b, "admit", "record") /\ left' = [left EXCEPT ![b] = @ - 1]
  /\ UNCHANGED <<state, locks, ctl, woken, serving, aborted, workers>>

(* The pre-submit write, under no pause mutex. *)
Record(b) ==
  /\ \/ /\ Sink("submitting", TRUE) /\ Run(b, "record", "work")
        /\ UNCHANGED <<left, aborted>>
     \/ /\ Sink("submitting", FALSE) /\ Run(b, "record", "finish")
        /\ left' = [left EXCEPT ![b] = 0] /\ aborted' = [aborted EXCEPT ![b] = TRUE]
  /\ UNCHANGED <<locks, ctl, woken, serving, workers>>

(* process_trainee and the write that settles it; its own looks at the stop  *)
(* flag only choose the row.                                                 *)
Settle(b) ==
  /\ \E landed \in BOOLEAN : Sink("loading_trainee", landed)
  /\ Run(b, "work", "loop") \/ Run(b, "work", "halted")
  /\ UNCHANGED <<locks, ctl, woken, serving, left, aborted, workers>>

(* A transport that panics unwinds the thread. *)
Panic(b) ==
  /\ Run(b, "work", "dropControl")
  /\ UNCHANGED <<state, locks, ctl, woken, serving, left, aborted, workers>>

Halted(b) ==
  \/ /\ ctl[b].stop
     /\ WriteStop(b, "halted") /\ UNCHANGED pauseLocked
  \/ /\ ~ ctl[b].stop
     /\ Run(b, "halted", "finish") /\ aborted' = [aborted EXCEPT ![b] = TRUE]
     /\ UNCHANGED <<state, locks, ctl, woken, serving, left, workers>>

EnterCompletion(b) ==
  /\ Run(b, "finish", "closing") /\ LockOwn(b)
  /\ UNCHANGED <<state, stateLocked, ctl, woken, serving, left, aborted, workers>>

LateStop(b) ==
  /\ ctl[b].stop /\ ~ aborted[b]
  /\ \/ Sink("stopped", TRUE) /\ Run(b, "closing", "closing")
        /\ aborted' = [aborted EXCEPT ![b] = TRUE] /\ UNCHANGED pauseLocked
     \/ Sink("stopped", FALSE) /\ Run(b, "closing", "failed")
        /\ UnlockOwn(b) /\ UNCHANGED aborted
  /\ UNCHANGED <<stateLocked, ctl, woken, serving, left, workers>>

(* Closed, then the terminal write, best effort unless stopped. *)
Close(b) ==
  /\ ctl[b].stop => aborted[b]
  /\ ctl' = [ctl EXCEPT ![b].closed = TRUE]
  /\ \E landed \in BOOLEAN :
       /\ Sink(IF aborted[b] THEN "stopped" ELSE "complete", landed)
       /\ Run(b, "closing", IF ctl[b].stop /\ ~ landed THEN "failed" ELSE "report")
  /\ UnlockOwn(b)
  /\ UNCHANGED <<stateLocked, woken, serving, left, aborted, workers>>

(* What the batch thread shows of a run that returned; records may be owed. *)
Report(b) ==
  /\ Run(b, "report", "dropControl") /\ ~ stateLocked
  /\ installed' = NoOne
  /\ \E owed \in BOOLEAN :
       shown' = [state |-> IF aborted[b] \/ owed THEN "stopped" ELSE "complete",
                 pause |-> FALSE, stop |-> shown.stop]
  /\ report' = b
  /\ UNCHANGED <<busy, locks, ctl, woken, serving, left, aborted, workers>>

Failed(b) ==
  /\ Run(b, "failed", "dropControl") /\ ~ stateLocked
  /\ installed' = NoOne
  /\ shown' = [shown EXCEPT !.state = "stopped", !.pause = FALSE]
  /\ UNCHANGED <<busy, report, locks, ctl, woken, serving, left, aborted, workers>>

(* Mutation: Busy is the first field of the lease. *)
DropBusyFirst(b) ==
  /\ Run(b, "dropControl", "dropWorker")
  /\ DropBusy
  /\ UNCHANGED <<locks, ctl, woken, serving, left, aborted, workers>>

(* WorkerLease: the control, the worker's blocking teardown, then Busy. *)
DropControl(b) ==
  /\ Run(b, "dropControl", "dropWorker") /\ ~ stateLocked
  /\ ClearControl
  /\ UNCHANGED <<busy, report, locks, ctl, woken, serving, left, aborted, workers>>

DropWorker(b) ==
  /\ Run(b, "dropWorker", "dropBusy")
  /\ workers' = workers \ {b}
  /\ UNCHANGED <<state, locks, ctl, woken, serving, left, aborted>>

DropLease(b) ==
  /\ Run(b, "dropBusy", "gone")
  /\ DropBusy
  /\ UNCHANGED <<locks, ctl, woken, serving, left, aborted, workers>>

-----------------------------------------------------------------------------
Connection(h) ==
  \/ Capture(h) \/ LockPause(h) \/ LockState(h) \/ Refuse(h) \/ PauseOrResume(h) \/ Stop(h)
  \/ Acquire(h) \/ GuardRefuses(h) \/ NothingToRun(h) \/ Begin(h) \/ SpawnWorker(h)
  \/ Prepare(h) \/ Install(h) \/ Launch(h) \/ Unspawned(h) \/ Release(h)

BatchThread(b) ==
  \/ Session(b) \/ QueueDone(b) \/ EnterBoundary(b) \/ Boundary(b) \/ Wake(b) \/ Woke(b)
  \/ Dequeue(b) \/ Record(b) \/ Settle(b) \/ Panic(b) \/ Halted(b)
  \/ EnterCompletion(b) \/ LateStop(b) \/ Close(b)
  \/ Report(b) \/ Failed(b) \/ DropControl(b) \/ DropWorker(b) \/ DropLease(b)

Next == \E c \in Connections : Connection(c) \/ BatchThread(c)

Spec == Init /\ [][Next]_vars

(* The scheduler runs every thread, a mutex that stays free is obtained, and  *)
(* every exchange with a worker and its teardown have timeouts.  A connection *)
(* arrives when it likes.                                                     *)
Fair ==
  \A c \in Connections : WF_vars(at[c] # "new" /\ Connection(c)) /\ WF_vars(BatchThread(c))

FairSpec == Spec /\ Fair

-----------------------------------------------------------------------------
(* Properties. *)

(* One browser profile, one worker: a second worker is never spawned while     *)
(* one is alive, also not during the teardown of a batch that has ended,       *)
(* failed or panicked (daemon.rs, "Field drop order keeps admission closed     *)
(* through worker shutdown").                                                  *)
OneWorker == Cardinality(workers) <= 1

(* A stop that was answered with 200 is never followed by the batch completing: *)
(* it was accepted before the completion looked, or it was refused.             *)
AcceptedStopAborts == \A b \in Connections : ctl[b].closed /\ ctl[b].stop => aborted[b]

(* A daemon that accepts work shows none going on, whichever way the last       *)
(* request left: refused, failed before or after its worker came up, panicked.  *)
IdleShowsNothingActive ==
  ~ busy => installed = NoOne /\ shown.state \notin ActiveStates /\ ~ shown.pause

(* What /status says of pause and stop is what the installed controller holds,  *)
(* with no older report beside it, whatever write or stale command comes in     *)
(* between.                                                                     *)
ShownIsTheControllers ==
  installed # NoOne =>
    /\ shown.pause = ctl[installed].pause
    /\ shown.stop = ctl[installed].stop
    /\ report = NoOne

(* /status never shows what is not so, between batches or during one. *)
StatusIsTrue == IdleShowsNothingActive /\ ShownIsTheControllers

(* Every request is answered: no two threads wait for each other's mutex, and   *)
(* a paused batch holds none.                                                   *)
EveryRequestIsAnswered ==
  \A h \in Connections : at[h] # "new" ~> at[h] = "done"

(* A batch that was told to stop gives the daemon back, paused or not.          *)
StopFreesTheDaemon ==
  \A b \in Connections : ctl[b].stop ~> batch[b] = "gone"

(* Nobody waits for ever: neither a client for its answer nor, once a stop was  *)
(* accepted, the next client for the daemon.                                    *)
NobodyWaitsForEver == EveryRequestIsAnswered /\ StopFreesTheDaemon

=============================================================================
