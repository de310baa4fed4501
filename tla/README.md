# DSSP-Bot in TLA+

DSSP-Bot records driver-training sessions on a web portal, one form submission
(POST) per trainee. A submission cannot be undone and the portal refuses no
duplicates reliably, so nearly everything in the program is about one question:
*may this trainee be submitted (again)?* These modules model the parts that
answer it, the runs check them on small instances, and the proofs establish the
main answers for every instance.

## The system

| Component | Where | State | Operations |
|---|---|---|---|
| Batch engine | `rust/src/engine.rs`, `queue.rs`, `report.rs` | queue, rows, current trainee, attempts, state machine, operator flags | run a batch: boundary (pause/stop), take, admit, settle, retry, abort, complete |
| Checkpoint record | `rust/src/checkpoint.rs` | one JSON file per directory | questions: is anything unconfirmed, unaccounted, never attempted; rewrites: mark interrupted, promote a suspect |
| Recovery gate | `rust/src/recovery.rs` | none of its own | `guard`: fresh start, refusal, resume with roster and carried rows |
| Checkpoint store | `rust/src/store.rs` | the file, a temporary file per process | `save`: write, sync, rename, sync the directory |
| Verdicts | `rust/src/decision.rs` | none | `settle_submit` for a batch row, `decide_submit` for a single run |
| State machine | `rust/src/state.rs` | current state | transitions, most of them with the error discarded |
| Command line | `rust/src/main.rs` | exit code | `plan`, `resolve_against`, `run_single`, `run_batch` |
| Worker client | `rust/src/worker.rs` | pipes, a reader thread and its channel, `unusable`, child process | spawn, handshake, send with timeout, invalidate, shutdown |
| Python worker | `python/app` | browser session | one request per line: ensure session, form options, list, submit |
| Daemon | `rust/src/daemon.rs` | `busy`, installed controller, progress, report; per batch a `BatchControl` | `POST /batch`, `/batch/pause`, `/resume`, `/stop`, `GET /form-options`, reads |
| Daemon, HTTP | `rust/src/daemon.rs` | the token file, the count of connections | start-up; accept, read one request under one deadline, authorise, route |
| Extension engine | `src/core/automation`, `shared/retry.ts` | queue, rows, current trainee, pause and stop flags, the wake-up signal | start, run, pause, resume, stop; prepare, submit and confirm a trainee |
| Extension portal link | `RemotePortalAdapter.ts`, `content-script.ts`, `DSSPPortalAdapter.ts` | commands under way; in the page the selected trainee, the prepared form, the last submission | thirteen commands with a timeout, run in the portal's tab |
| Extension bridge | `BridgeClient.ts`, `DialogGate.ts`, `main-world.ts` | requests that wait for a reply, the deadline of the page's suppression | arm and disarm around a submission, answer the page's dialogs |
| Extension popup | `popup/main.ts`, `daemonView.ts`, `DaemonClient.ts` | a client per saved settings, the view generation, the request under way, what is shown | poll the daemon, offer its controls, send each once |

They interact in a line. The command line or a daemon connection passes the
recovery gate over the checkpoint slot and builds an engine; the engine calls the
worker client synchronously, the client exchanges JSON lines with the Python
process, and that one talks to the portal. The engine writes the checkpoint
through a sink: the store itself, or the daemon's wrapper that also updates what
`/status` shows. Control requests reach a running engine through `BatchControl`,
flags and a condition variable under one mutex.

The extension's own engine is the program these replace: it is in the repository
with its tests, and nothing in the shipped extension constructs it any more. It
sends each step of a submission as a command to the content script of the portal's
tab, where the portal adapter fetches, fills and posts the form.

What is hard: the process dies between any two steps; a worker outlives the engine
that gave up on it and still POSTs; writes fail, some fatally and some not, and a
write to the worker may never return; a stop arrives anywhere, between an admission and
its send included; files written by older builds say less than they seem to; the
daemon's threads share two mutexes and one browser profile; clients of the daemon
dawdle and hang up; answers and views are older than what they are used for; and the
extension gives up on commands and on bridge requests that are carried out later.

## Modules

| Module | Models | Kind |
|---|---|---|
| `BatchCheckpoint` | `checkpoint.rs` | constant level: the record and the questions asked of it |
| `Recovery` | `recovery.rs` | constant level: the gate as functions of the slot |
| `Decision` | `decision.rs`, `should_abort` | constant level: responses and verdicts |
| `BatchEngine` | `engine.rs`, starts from `main.rs` and `daemon.rs` | state machine, on the three above |
| `SubmissionLedger` | the promise of a batch | abstract specification that `BatchEngine` implements |
| `RefusalAdvice` | the texts of `recovery.rs`, the ends shown by `main.rs` and `daemon.rs` | `BatchEngine` with seven more variables |
| `BatchRoster` | `plan`, `resolve_trainees` and `resolve_against` of `main.rs`, `_resolve_trainee` of `client.py` | state machine |
| `EngineMachine` | `state.rs` as the engine drives it | `BatchEngine` with one more variable |
| `CheckpointStore` | `store.rs` | state machine of processes and a file system |
| `WorkerReplies` | `protocol.py`, `parsing.py`, `client.py` | constant level: what the worker says of what happened |
| `SingleRun` | `run_single`, `worker.rs`, the Python worker | state machine, on `Decision` and `WorkerReplies` |
| `WorkerProcess` | `worker.rs` down to its pipes | state machine of client, reader thread and process |
| `DaemonControl` | `daemon.rs` | state machine of connection and batch threads |
| `HttpConnections` | `daemon.rs`: accept loop, permits, `read_request`, `route` | state machine of connection threads and clients |
| `DaemonLaunch` | `daemon.rs`: `token_file`, `run` | state machine of starts and the token file |
| `AutomationEngine` | `AutomationEngine.ts`, `BatchRunner.ts`, `retry.ts` | the engine between its awaits: actions that `PortalTab` composes |
| `PortalTab` | `RemotePortalAdapter.ts`, `content-script.ts`, `DSSPPortalAdapter.ts` | state machine, on `AutomationEngine` |
| `DialogBridge` | `BridgeClient.ts`, `DialogGate.ts`, `main-world.ts`, `withDialogsArmed` | state machine of two content scripts and the page |
| `DaemonPopup` | `popup/main.ts`, `DaemonClient.ts`, the daemon as it shows itself | state machine of the popup and a daemon |
| `BatchEngineProofs` | `BatchEngine`, `EngineMachine`, `SubmissionLedger` | theorems |
| `RefusalAdviceProofs` | `RefusalAdvice` | theorems, on those of `BatchEngineProofs` |
| `SingleRunProofs`, `DaemonControlProofs` | the modules of those names | theorems |
| `BatchGroundProofs` | `CheckpointStore`, `BatchRoster` | theorems |
| `ChannelProofs` | `WorkerProcess`, `DialogBridge` | theorems |
| `DaemonDoorProofs` | `DaemonLaunch`, `HttpConnections` | theorems |
| `ExtensionProofs` | `PortalTab`, `DaemonPopup` | theorems |
| `MC*` | | instances for TLC |

Four of the proof modules extend two state machines that share nothing. The second of
each pair therefore has names of its own where the first has `Init`, `Next`, `Spec`,
`vars` or `TypeOK`: `Roster...`, `Bridge...`, `Http...`, `Popup...`.

### BatchEngine

`slot` is the file; `queue`, `results`, `skipped`, `total` are the locals of `run`
(the code keeps skipped rows in `results`; every reader splits them off, the model
keeps them apart from the start); `current`, `attempts`, `halt` belong to
`process_trainee` and the abort check; `pauseRequested` and `stopRequested` are the
`BatchControl`. `pc` names the place in `run`. Every critical section of the
control lock is one action. Completion is two, because a crash can separate its
writes; between them (`pc = "closing"`) no control request gets in. `Admit` is the
section that admits an attempt; `worker.send` comes after it, with the lock dropped
(`pc = "admitted"`, `Send`), so a stop accepted between the two finds the request on
its way, as in the code. `StopIsKept` therefore allows one request after a stop, the
one admitted before it. The write to the worker has no deadline: `Send` may never
happen.

Two ghosts say what the outside has seen. `inHand` holds the trainees whose request
a worker has taken and not POSTed, and survives the engine; `posted` counts POSTs.
A fresh start over a *finished* file opens a new account of POSTs: running a
closed-out roster again is the operator's right.

`Replies` are the responses a worker may give. `Truthful` is what the engine relies
on: an ok line follows a POST, a claim that nothing was submitted follows none.
`SingleRun` models the worker that makes this true and checks it (`ClaimsAreTrue`).

`exit` has three values: "clean" (exit code 0), "failed" (4) and "attention", which
stands for the codes 1, 2 and 3 and for a daemon batch that ends in an error. A row
is Failed also when the portal was never reached, as in the code.

### RefusalAdvice

`BatchEngine` again, over any file a first start may find (`Files`), with what the
operator is told and shown. `told` is the last refusal: which action `refusal`
advises, which `reason` it gives and how many runs it promises; `kept` are the
settled rows it counted. `owed` is `Plan::Resume.owed`, the records a resume leaves
to a human. `shown` is the state the daemon shows and `report` how the run ended until
its thread has published that: the terminal write shows the word of the file through
`Sink::write` (`AClose`), and a later section of the state's mutex replaces it by what
the report and `owed` say (`AEnd`). Each action is one of `BatchEngine`'s together with
its effect on these; `AOther` is every action that has none. Sentences are chosen, not
worded.

The file a first start finds may have been written by any build. Whoever its rows say
succeeded was POSTed, and whoever else it names may have been, once. A file without the
in-flight key is from a build that dropped a failed write and carried on, so *anyone* in
its queue may have been POSTed: its head, the suspect, is counted in `posted` like those
named, and `before` is any set of those behind the head. `erased` holds whom a start
gave up doubting when it gave such a file the key. Both are ghosts, and so is `kept`.
Whom a file short of its total has lost is not counted: no start knows of him.

### BatchRoster

`job` is what a job file or a request says: a `trainee`, a `batch`, either or
neither; `path` tells the command line, which checks only that an entry has a field,
from the daemon, which also refuses a blank one. `listing` is the portal's list as
it was read, `portal` as it is by now. `Resolve` takes the entries one by one, as
the loop does, and keeps the problems to report; `Submit` is the worker's own
resolution of the id it is handed. Names are spellings and `Norm` is
`normalize_name` on them. The recovery gate and the engine are left to `BatchEngine`:
here a run may end after any trainee.

### WorkerProcess

Requests are numbered; `result` is what each call returned and `believed` the
request whose line it was built from (a ghost). A line has the job id it echoes and
the request it really answers. `stdin`, `stdout` and `channel` are the two pipes and
the reader thread's channel; `Invalidate` drops the receiver and its contents. The
worker may write one line or two, of its own request or unreadable, exit at any
time, or stay; `heir` is a descendant that holds the pipe open, `stubborn` a process
that a kill does not end. `Send` begins a write (`call = "writing"`), which `Written` or
`WriteFails` ends; neither has to happen while the worker or a descendant holds the other
end (`PipeHeld`), since `write_all` has no deadline and the timer starts behind it. How
much the pipe holds is not modelled. The timeout of a wait is the disjunct of `Fails` over
an empty channel.

### CheckpointStore

A file is an inode that holds "none", "part" or "whole" of one version, once as
read now and once as it would be after a power loss. A rename is atomic, bytes
survive once synced, a name survives once its directory is.

### SingleRun

The coordinator's step, the client's pipes, the worker's place and the POST on the
wire. The portal is external and `Honest`: a success flag means a stored record, a
refusal none, anything else (a redirect, a login page, an unreadable body) either.
`CommitsOnError` lets it store a record and answer with an error status.

### DaemonControl

Each connection serves one request, as in the code; a batch is named by the
connection that started it. A section under the state mutex alone is one action;
the pause mutex of a batch is held across actions, and `control_captured` takes
the second mutex inside it. The batch thread keeps the lock sections, checkpoint
writes and failures of `run`, and the drop order of the worker's lease.

### HttpConnections

The `stage` of a connection is "away", one of the steps of its thread (`Served`), or
done; `active` is the counter behind `ConnectionPermit`. A request is a head of `HeadPieces` pieces
and a body of as many as it says; `got` counts what has arrived, `age` the ticks
since the thread began to read. `Ask` is `read_piece`: it takes what is left of the
one deadline as the timeout of the next read (`until`), or ends the request when
nothing is left. Clients send a piece, stop for good or hang up at any moment.
`acted` holds the requests that reached a batch or a control. What they do there is
`DaemonControl`'s.

### DaemonLaunch

A start is at one of the steps of `token_file` (open; create exclusively; write;
reopen; check) and then of `run` (bind, listen). The file is named by the start that
created it and is `whole` once it was written; `safe` stands for owner, type and
mode. A start may die at any step. An operator may spoil the file's mode or, at most
`Removals` times, remove it.

### AutomationEngine and PortalTab

The engine is JavaScript, one thread: an action is the code between two awaits and
`step` is the await it is at. `pause`, `resume` and `stop` come in at any of them.
For a command of the portal, `Hear(answer)` is everything up to the next await.
`Save` writes the checkpoint or swallows the error. The moment between the paused
checkpoint's write and the sleep ("pausing") is a step of its own, since a `resume`
in it finds no signal to give.

`PortalTab` gives each command its life outside the engine. The message is handled
in the tab in the order it was sent; what it does at once is the handler, what it
awaits is a fetch in the bag `flights`, which lands between any two later steps.
`GiveUp` is the timeout of `dispatch`: the engine hears `PORTAL_UNAVAILABLE`, the
message moves to `late` or its fetch loses `live`, and both still run. `Reload` is the
tab losing its page. The content of pages is abstracted to the answers they lead to.
The portal is external: it records a POST whose answer says so, records none whose
answer refuses, and leaves both open when the answer is lost or unreadable, and when it
is the login page: that answer comes after the POST and its redirects.

The ghosts are `batch` (what was queued), `posts` (of whom, filled or not, in whose
turn), `stored` (turns whose POST was recorded) and `overrun` (the tab was at some time
left with a command that had been given up on).

### DialogBridge

The two content scripts of a portal tab share the page's thread and talk through
`queue`, which keeps its order. `pending` is `BridgeClient`'s table with what is left
of each timer; `armed` counts down to `DialogGate.armedUntil`. A submitting command
arms, operates and disarms (`withDialogsArmed`); commands overlap because the
background gives one up and sends the next. A dialog that is shown stops the page's
thread and not its clock. The isolated half may die; the page's half may never have
been injected. `handled`, `cover`, `overlapped` and `abandoned` are ghosts. The ping,
and the logs of alerts and responses that only the console reads, are left out, and
so are messages forged by other scripts of the page.

### DaemonPopup

The variables are those of `popup/main.ts`: `client`, `viewGeneration`, `progress`,
`connected`, the request that locks the controls. A poll is issued, served and read
in three steps (`Refresh`, `ServePoll`, `ReadPoll`), each for the client and the
generation of its issue. The daemon is what it shows and what makes it refuse, with two
ghosts for whether its batch is one that this popup had admitted (`admitted`) or told to
stop (`stopped`);
`Elsewhere` are other clients and restarts. A request that is lost to the popup and
served later counts as theirs; after a popup's disconnection its progress counts as
unknown. The settings are taken as loaded when the popup opens.

## Runs

Every property is a definition of the module it is about, with its parts as
definitions of their own where it has several.

| Run | Instance | Checks | States |
|---|---|---|---|
| `batch_engine` | `EngineMachine`: 3 trainees, rosters <<1,2,3>> and <<2,1,2>>, 2 attempts, 4 starts, fair | `AtMostOnce`; `FileIsTrue`: everyone placed exactly once, finished is closed out, paused is quiet; `MachineFollows`: moves of a pause are legal, the end is labelled; `UnconfirmedSurvives`; `StopIsKept`: nobody begun, nothing admitted after a stop, one request on its way at most, aborted the last word; `RefusalDoesNotExpire`; `CleanExitMeansAllConfirmed`; `ImplementsLedger`; `RunsEnd`: but in a write never taken | 71 000 |
| `refusal_advice` | 15 files earlier builds and runs may leave, 3 starts | `PromiseKept`: a resume queues what the refusal promised, and behind the suspect of an old file exactly those whom the rewrite made wait; `PastIsKept`: settled rows are kept, nobody else is POSTed again; `CompleteOwesNobody`, once the end is published | 47 000 |
| `batch_roster` | 3 ids, 2 spellings of a name, another, a blank one; 2 changes of the portal's list | `ResolvedOrReported`: each person once in order of mention, or all complaints; `OnlyWholeRosters`: a bad entry stops the whole, only those meant are submitted | 96 000 |
| `checkpoint_store` | 2 processes, 3 saves | `NeverTornAnywhere`: neither now nor after a power loss; `SlotIsReplacedWhole` | 7 300 |
| `single_run` | 2 attempts, honest portal, fair | `AtMostOnePost`, `ClaimsAreTrue`, `SettledIsSettled`, `RunEnds` | 2 900 |
| `worker_process` | 3 requests, fair | `RequestsStayApart`: no answer of another request, no work for a failed worker; `NothingAfterShutdown`; `NothingHangs`: but in a write never taken | 35 000 |
| `daemon_control` | 3 connections of any kind, a queue of 1, fair | `OneWorker`; `AcceptedStopAborts`; `StatusIsTrue`: idle shows nothing active, flags as the controller's; `NobodyWaitsForEver` | 57 000 |
| `http_connections` | 3 connections, 2 threads, one tick to read, fair | `ThreadsAreBounded`: permits are threads, nobody reads past the deadline; `OnlyWholeRequestsAct`; `ServiceGoesOn` | 91 000 |
| `daemon_launch` | 5 starts on 2 ports and a bad one, 1 removal | `TheTokenIsKept`: one token ever, and whole in the file | 851 000 |
| `portal_tab` | 2 trainees, a request of <<2,1,2>> and one with an unknown name, 2 attempts, 1 reload, 1 late command, fair | `NoDuplicates`: one POST per turn; one per trainee, of her own filled form, unless the tab was left with a command given up on; no record behind a failed row but one whose session expired; `AccountsForAll`: the report and the checkpoint have everybody; `DoubtOrStopIsTheEnd`; `RunEndsOrSleeps` | 1 127 000 |
| `dialog_bridge` | 3 commands, arm of 2 ticks, replies within 1, fair | `CommandsAreCovered`: runs on its own arm, no dialog during a lone command; `ThePageRecovers`: handed back, by disarm or deadline, and no call hangs | 236 000 |
| `daemon_popup` | 3 requests, 2 polls at once, 1 save, 1 event elsewhere, fair | `StaleViewsUnlockNothing`: no second start, no control after an own stop; `OptionsOfThisClient`; `ComesToShowTheDaemon` | 1 004 000 |

`EngineMachine` extends `BatchEngine` by one variable that blocks no step, so its run
is `BatchEngine`'s as well.

Bounds, and why they suffice. Two attempts separate "retry", "gave up" and "stopped
before a retry". Three trainees give a settled, a current and a waiting one at once;
the second roster repeats one. A row's fate needs at most four starts: the run that
exposes a trainee, one that is refused, the resume, and one after that; over a given
file the first of these is not needed. Those files are the ones of `recovery.rs`'s own
tests: an old build's queue is there with nobody, one or two waiting behind its suspect.
The replies are one of each way
`settle_submit` and `should_abort` can go, a stray ready line included. Three saves let
two processes interleave over a third's file. Three requests give a late line a
request before it and one after it. Three connections let a batch meet a second start
or form-options request and a control request, or two control requests meet each
other; connections are alike, and one order of handing the requests out is checked.
With two threads the third connection is the one too many; one of the three brings
everything that may be wrong with a request. Three starts race for one port, a fourth
succeeds beside them and a fifth is misconfigured. In the portal tab one
abandoned command at a time is enough for it to meet every later one; when it is
there, another that is given up on fails without an effect. One reload takes the page's
state away at any point. Three commands let one that was given up overlap with the
next and a third find what they leave. In the popup, loading the options, starting and
the request that must not follow are three; one save replaces the client under any of
them.

Deadlock is checked except where everything bounded may be used up and the machine is
rightly idle: saves (`checkpoint_store`), connections (`daemon_control`), requests
(`worker_process`, `daemon_popup`), starts (`daemon_launch`). Daemon threads that wait
for each other are the subject of `NobodyWaitsForEver`.

What a liveness property does not see. In `BatchEngine` a paused run waits on a predicate,
so a wake-up lost between the paused checkpoint and the wait is not a behaviour of it;
`DaemonControl` has the condition variable, and `NobodyWaitsForEver` is the property that
such a loss breaks. In `PortalTab` a lost resume is a behaviour, and `RunEndsOrSleeps`
counts the sleep it leads to as an end: the code promises no better, and no property
claims it.

Fairness.

- `BatchEngine`: weak fairness of the engine's steps where it does not write to its
  worker; its thread runs, and every wait for an answer has a timeout (`worker.rs`,
  `read_response`). A write to the worker's stdin has none
  (`docs/stage32-error-testing.md:83`, `rust/README.md:173`, `docs/daemon-api.md:299`),
  and is left to the worker (`Writing`): `RunsEnd` excepts a run that stays in one. Nothing
  is assumed of the worker or the operator, so a batch paused for good does not end.
- `SingleRun`: weak fairness of the coordinator alone, its writes to the worker taken as done
  (`WorkerProcess` has those that are not).
- `WorkerProcess`: weak fairness of the client and of the reader thread, and of the
  failure of a write to a pipe nobody holds; nothing is assumed of the process, its
  descendants or a write they could take, which is what `CallsReturn` excepts.
- `DaemonControl`: weak fairness of each thread whose connection has arrived, and of
  batch threads; Rust's mutexes are not fair, but each thread takes a lock finitely
  often here, as each batch has a finite queue, so a waiting thread finds it free for
  good.
- `HttpConnections`: weak fairness of the clock and of each connection's thread;
  nothing is assumed of clients.
- `PortalTab`: weak fairness of the engine's own timers and storage calls and of the
  timeout of a command; nothing is assumed of the tab or the operator, so an engine
  asleep in a pause stays.
- `DialogBridge`: weak fairness of the clock and of a dialog's dismissal; strong
  fairness of message dispatch and of timers, since a page may open one dialog after
  another and the event loop serves its queues between them. An operation may never end.
- `DaemonPopup`: weak fairness of the interval timer, the extension's storage, and a
  daemon that answers; polls that are still wanted and polls that are not are served
  each on their own.

## Where the code and its documents disagree

Met while modelling. Where a definition of the models is named, adding the property to
its run shows the disagreement as a counterexample.

1. **An untracked queue is run after all.** `rust/README.md:134` promises that a file
   without the `in_flight` key "runs none of its queue", and the test at `recovery.rs:1159`
   says why: anyone in it may have been submitted. The plain start that refuses such a file
   also rewrites it, with the key (`recovery.rs`, `mark_interrupted` in the guard); the
   resume that the refusal suggests then reads `pending` as never sent, and POSTs again
   whoever an older build had POSTed from behind the head. A first resume that has rewritten
   the file and dies before its first write of a run does the same for a second one. The
   test at `recovery.rs:747` expects as much: after the refusal it has "3" run, behind the
   suspect "2". Only the head is protected. `PastIsKept` excepts exactly
   those behind it whom a start had made wait (`Posts(t) <= 1` alone fails), and
   `PromiseKept`, the refusal having said how many the resume would run before the rewrite
   changed it, counts exactly them on top.
2. **`Submitting` is never reached on a first attempt.** The transition from
   `LoadingTrainee` is not in the table and its error is discarded (`pc = "sent" =>
   machine = "Submitting"` fails), against the "hard error" of `state.rs:3`. Harmless as
   far as modelled: the two moves that can kill a batch are always legal.
3. **Ok is not durable where the directory cannot be synced** (`DirectoryNotSynced`,
   `store.rs:144`): the pre-submit write may be lost to a power cut after the submission
   went out, against `rust/README.md:105`, "never the reverse".
4. **An error status settles a submission.** A gateway's 502 or 504 behind which the
   portal committed is reported as a definitive failure (`parsing.py:433`);
   `SettledIsSettled` fails with `CommitsOnError = TRUE`. The parser's tests ask for this,
   the comment at `decision.rs:4` says otherwise.
5. **Exit code 0 though records are owed.** `announce_resume` looks at `owed` only when
   the roster is empty (`main.rs:595`). With a roster the exit code comes from the report,
   whose total no longer counts the trainees the old file could not place, so the run can
   exit 0 (`exit = "clean" => owed = 0` fails) against `recovery.rs:156`, "stops a run over
   such a file reporting itself finished". The daemon holds the run to it
   (`CompleteOwesNobody`), once its thread has published (12).
6. **The advice to close out does not always close out.** Over a file with landed work,
   nobody to run and an unconfirmed row, `recovery.rs:331` says "every trainee this file
   knows about is already settled". The resume then owes that record, closes nothing and
   exits 3, and every later plain start is refused with the same advice.
7. **A blank name names somebody.** `plan` asks only that a command-line entry has a name,
   and `resolve_against` (`main.rs:174`) looks a blank one up among the portal's names; the
   worker's `_resolve_trainee`, which it "mirrors", refuses it (`client.py:204`), as does the
   daemon.
8. **Preparing is not safe to replay.** `AutomationEngine.ts:481` says "Safe to replay: no
   step here writes to the portal." But a form load that was given up on goes on
   (`DSSPPortalAdapter.ts:877`): landing after the retry has filled its form, it replaces
   that form, and `submitTrainingForm` posts what is there, blank or, after a
   re-initialised session, another trainee's (`posts[i].of = posts[i].turn.who` fails in
   `PortalTab`). `fillTrainingForm` looks whose form it is; the submit does not. The other
   trainee is POSTed in her own turn as well, so she may have two records. `AtMostOnePost`
   is therefore about turns, and `OnePostPerTrainee` about tabs in which no command that
   was given up on was left (`~ overrun`; without that it fails).
9. **"Unprocessed" trainees may have been attempted.** `unreconciled`
   (`BatchCheckpoint.ts:81`) takes the pending ids of the last checkpoint, and a checkpoint
   is written only before a pause, after a row and at the end; the trainee whose submit is
   under way, or whose row's save failed, is among them, against "never got as far as an
   attempt" (line 66).
10. **A disarm cuts an overlapping submission short.** `DialogGate.disarm` acts whoever asks,
    against the comment of `arm` (`DialogGate.ts:55`), "must not have the first one's disarm
    cut the second one short". `LoneCommandIsCovered` therefore says "lone".
11. **A stray arm.** `withDialogsArmed` awaits the arm outside its `try`
    (`BridgeClient.ts:135`): when its reply takes longer than 5 s no disarm is ever sent, and
    the page is armed until the deadline with no submission under way, against line 108,
    "Only for the window around a submission this extension started". `HandedBack` therefore
    excludes runs with such an arm (`abandoned`).
12. **A batch that owes records is complete for a moment.** The terminal write shows the
    file's own word, "complete" for a finished one (`Sink::write`, `daemon.rs:218`); only a
    later section of the state's mutex (`daemon.rs:601`) makes it "stopped" where records
    are owed, against its comment, "do not present that as a clean run". A poll in between
    reads a complete batch that owes somebody. `CompleteOwesNobody` is therefore about a
    batch whose thread has published its end (`report = "none"`; without that it fails).
13. **A dead session is seen after the POST.** The comment at `AutomationEngine.ts:574` has
    `SESSION_EXPIRED` among the codes "raised before the request leaves the page". The submit
    raises it from the answer, behind the POST and its redirects
    (`DSSPPortalAdapter.ts:980`), and the row says failed of a trainee who may have a record.
    The Python worker takes the same answer as open (`parsing.py:414`).
    `FailedIsNotStored` claims of such a row only that nothing more is POSTed in its turn.

## Proofs

Eight modules, for every value of the constants under the assumptions the modelled
modules name. The constants are sets and limits of any size; what the assumptions ask of
them is their type, and of a file found by a first start (`Files`) what every build
leaves: nobody in two groups. **Every invariant and every action property of the runs is
a theorem**, and so is that `BatchEngine` implements `SubmissionLedger`.

### The batch

`BatchEngineProofs`: for all sets of trainees, rosters, retry limits, bounds and
replies,

- `Inductive` and `Types`: the invariant `IInv`, and in it `TypeOK`, always hold;
- `NoDuplicates`: no trainee is POSTed twice before the batch closes out;
- `NeverUnnamed`: the file names everyone who has been or can still be POSTed;
- `StopIsObeyed`: after a stop, wherever it came in, nobody is begun, no attempt is
  admitted, at most the request admitted before it reaches the worker, and the file's and
  the run's last word is that the batch was aborted;
- `DoubtSurvives`: an unconfirmed row outlives every rewrite of the file;
- `TrueFile`: everyone placed once (`EachPlacedOnce`), finished is closed out
  (`FinishedMeansFinished`), paused is quiet (`PauseIsSafe`);
- `RefusalStands`: between runs only a close-out lifts a refusal;
- `CleanIsConfirmed`: exit code 0 only when all were POSTed once and confirmed;
- `Refines`: the engine implements `SubmissionLedger`, the record being the file;
- `MachineRefinesEngine`: with the state machine beside it the engine does what it does
  without, so all of the above holds of `EngineMachine`; and `MachineIsFollowed`: the
  moves of a pause, whose failure would kill a batch, are always legal, and the end is
  labelled as it was; in between the label may lag behind the engine (finding 2).

`AtMostOnce` is not inductive: it says nothing of who is about to be sent. `IInv`
adds the argument of the code. *FileSeparates*: nobody the file names as sent waits
in it. *FileNames*: it names everyone exposed, as unconfirmed while a worker may
still POST. *RunSeparates* and *RunNames*: the same of the run's memory, which a
start takes over from the file and a save writes back. *TaskInFlight*: between the
pre-submit write and the settle write the current trainee is the one in flight.
*SentOnce*: the count itself, and that an admission follows no exposure. A start
takes its roster from the trainees that wait, so it cannot send whom the file names;
a refused start keeps the file; the fresh start happens over a file that names
nobody in doubt. Each action has its lemma, and the lemmas about sequences (`Range`
of a tail, of a concatenation) are stated first.

The other theorems strengthen it each in one direction. *RunCarries* (a run holds every
unconfirmed row of the file it would rewrite) gives `DoubtSurvives`. *PauseWritten* (a
pause begins with a write that says so) gives `PauseIsSafe`, *NobodyLeft* (a run that
reaches its end has an empty queue) `FinishedMeansFinished`. *FileCounts* and
*RunCounts* (rows, skips, queue and the one in flight add up to the total, each row
once) give `EachPlacedOnce`. *LandedPosted* (a success row stands for a POST) and
*ExitOpen* (a run has no exit code before it ends) give `CleanIsConfirmed`. In `Refines`
a step is a hand-over (`Admit`), a POST, a reopening (a fresh start over a finished
file) or, by `IInv` in the state it leads to, a rewrite of the record. *MachineInv* says
where the machine is at each `pc`.

`RefusalAdviceProofs`: the same engine over *any* file of any build, whoever of its queue
that build may have POSTed. `IInv` is about files that carry the in-flight key; `AInv`
(`AdviceInductive`) puts *FileAccounts* in its place, which asks an old file only that
whom it names or suspects is a row of it or its suspect, and that no run over it has come
to a submission, since the write before one replaces it (*OldFile*). `OnceOverAnyFile` and
`DoubtSurvivesAnyFile` follow. Those POSTed from behind the suspect are counted apart
(*BeforeInv*, `OldQueueIsNotSent`): until a start has given their file the key they wait
in it, or stand in doubt in it and in every run that rewrites it, and nobody sends them.
With that `PastKept`: nobody is POSTed again but those excepted in finding 1, and the
settled rows a refusal counted stay, in the file or in the run that took it over
(*KeptInv*). `CompleteIsComplete`: a batch shown "complete" once its thread has published
owes nobody and leaves nobody in doubt (*EndInv*: doubt among its rows means it was halted,
and a run that reported itself whole leaves none in its file). `PromiseHolds`: a resume
queues as many as the refusal promised and, where the refusal's own rewrite gave an old
file the key, exactly those behind its suspect on top (*PromiseInv*: between a refusal and
the next start the roster of the file has that length, whether or not the rewrite landed).

`BatchGroundProofs`, what a batch stands on.
- `CheckpointStore`, for any number of processes and saves: `SlotIsNeverTorn` and
  `OnlyReplaced`. Each process writes the inode that its own temporary name names
  (*WritesItsOwn*), nobody else's name or the slot names it (*Unshared*), and what a step
  presupposes is in it (*SoFar*); so what a rename puts under the slot's name is whole and
  nobody has it open.
- `BatchRoster`, for every job, portal list and spelling: `EveryRosterResolves` and
  `WholeRostersOnly`. The loop has gathered everyone its entries so far mean and nobody
  else (*Gathered*), in the order of first mention (*InOrder*), and has reported exactly
  the entries that mean nobody (*Reported*). `FoundIsMeant` says that what the code looks
  up is what an entry means.

`SingleRunProofs`, for any retry limit: `OnePost`, `TrueClaims` and, under
`~ CommitsOnError`, `ExitSettles`. At most one request is out at a time, the lines in the
pipes are truthful, and a retry follows only a truthful line that proves nothing sent.

### The daemon

`DaemonControlProofs`, for any number of connections and any requests: `OnlyOneWorker`,
`StopsAreKept`, `ShownIsTrue`. The flag `busy` has one owner; every worker and the installed
controller are the owner's, from admission to the end of the teardown; and what is shown
follows the owner's place.

`DaemonDoorProofs`, its two ways in.
- `DaemonLaunch`, for any starts and ports: `OneToken`. While nobody removes it, a
  token file once whole does not change, and every token taken is what was read from it.
- `HttpConnections`, for any number of connections, threads, ticks and pieces, and any
  clients: `BoundedThreads` and `WholeRequestsAct`. The counter is the number of threads,
  at most the limit (*Permits*); a read times out at the one deadline, so its thread is no
  older (*Deadline*); and a request is routed when all its pieces and no more were read
  (*ReadSoFar*).

### Channels

`ChannelProofs`, two channels with requests, late replies and failures.
- `WorkerProcess`, for any number of requests: `TypeCorrect`, `OwnAnswers`,
  `QuietAfterShutdown`. The pipes hold only lines labelled with a request that was asked;
  a failure closes the pipes, so that no later request is written and no line read,
  however long a write was blocked; a shutdown returns over a reaped process unless the kill failed.
- `DialogBridge`, for any number of commands and any limits: `SubmissionsAreCovered`. A
  reply finds the one request it answers (*Correlated*), nothing is handled for who never
  asked (*OnlyAskers*), and commands at work together know it (*Beside*). The heart is the
  order of the queue: of a command on its own, every disarm of others is ahead of its arm
  (*DisarmsAhead*) and none is left once its arm is carried out (*NoneAfterwards*).
- `DialogsAreHandedBack`, the safety half of `ThePageRecovers`: unless an arm was given up
  on, the gate is armed only while a command has its disarm before it or that disarm is on
  its way (*DisarmsOwed*).

### The extension

`ExtensionProofs`.
- `PortalTab`, for all trainees, requests, retry limits and numbers of reloads and late
  commands: `NoDuplicatesEver`, `OwnFormIsPosted`, `NobodyIsLost`, `DoubtOrStopEnds`,
  `TypesHold`. *EngineInv*:
  rows, whoever is in hand and the queue are the batch, in its order (*Shared*), and so are
  rows and pending of the last checkpoint (*SlotInv*). *TabInv*: a turn is
  still to be POSTed by a command that was given up on, on its way, or recorded, one of
  them and once (*OncePlaced*); of this batch only for those who have a row or are in hand
  (*UsedAreBegun*); and nothing was sent for a turn before its submit is handled
  (*FreshInv*), which is why preparing again is allowed to. *OwnInv*: as long as no command
  given up on was left in the tab, whatever is under way there is what the engine waits for
  (*Tidy*), so the form filled for the one in hand is the one submitted (*FormKept*) and
  every POST was of its own turn's trainee (*OwnPosts*). What a login page's answer leaves
  of a POST is left open throughout.
- `DaemonPopup`, for any number of requests, polls and saves: `OptionsAreOfThisClient` and
  `OldViewsUnlockNothing`. Between requests, whatever the popup believes or is about to
  believe of a batch of its own was read after its last request was answered (*UpToDate*).

### What is only model-checked

Liveness, and ENABLED with it, which the temporal prover does not reach: `RunsEnd`,
`RunEnds`, `NothingHangs`, `NobodyWaitsForEver`, `ServiceGoesOn`, `RunEndsOrSleeps`,
`ThePageRecovers` (but for its safety half) and `ComesToShowTheDaemon`.

Nothing is proved by induction over data. Where the code filters or folds, the models say
what the result holds and in which order (`BuildTasks`, `FirstMention`, the roster of a
file), which is also what the theorems need. The lemmas about sequences and bags that a
proof module begins with are proved there, from the definitions and the theorem library.

## Not modelled

- Two coordinators over one slot: nothing in the code excludes them, and
  `docs/migration-runbook.md` lists it as a limit.
- The parsing of job files and configuration, and the text of messages; of HTTP, the
  grammar of a head and the order of its fields.
- The content of the portal's pages and the selectors that find it, on either side: it is
  the answers it leads to.
- Reads of the daemon that change nothing (`/report`, `/checkpoint`).
- Of the extension: the engine's state machine and log, a start over a running batch
  (`BatchRunner.start` clears the queue before `run` refuses), the restart of the
  background process, messages forged by other scripts of a page, and the popup's pages
  other than the daemon's.
- Clocks: a timeout may strike whenever its wait has no answer yet, except where a deadline
  is the point (`HttpConnections`, `DialogBridge`), which count ticks.
- A poisoned state mutex: only a panic while holding it could cause it.

## What could come next

- A model of how much the worker's pipes hold, to say when a write can block.
- An abstract specification of the daemon's one worker, and one of the extension's
  turns, each with the proof that the detailed module implements it.
- Two coordinators over one slot, composed of `BatchEngine`'s gate, once the code has a
  lock between them.
- The extension's start over a running batch and the restart of its background process.
