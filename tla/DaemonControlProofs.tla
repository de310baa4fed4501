------------------------ MODULE DaemonControlProofs ------------------------
(***************************************************************************)
(* Theorems of DaemonControl, for any number of connections.  The inductive   *)
(* invariant is who owns Busy: at most one thread does, a connection before   *)
(* it has launched its batch or let go, and the batch thread afterwards; the  *)
(* worker and the installed controller are always that owner's.              *)
(***************************************************************************)
EXTENDS DaemonControl, FiniteSetTheorems, TLAPS

Places ==
  {"new", "captured", "requested", "checking", "guard", "spawn", "prepare", "install",
   "launch", "unspawned", "release", "done"}

(* Where a batch thread may still have its controller installed. *)
Working ==
  {"session", "loop", "boundary", "waiting", "woke", "admit", "record", "work",
   "halted", "finish", "closing", "failed", "report", "dropControl"}

Stages == Working \cup {"none", "dropWorker", "dropBusy", "gone"}

Shown ==
  [state : ActiveStates \cup Ended \cup {"idle"}, pause : BOOLEAN, stop : BOOLEAN]

Control == [pause : BOOLEAN, stop : BOOLEAN, closed : BOOLEAN]

Types ==
  /\ busy \in BOOLEAN /\ installed \in Connections \cup {NoOne} /\ shown \in Shown
  /\ ctl \in [Connections -> Control]
  /\ at \in [Connections -> Places] /\ kind \in [Connections -> Requests]
  /\ caught \in [Connections -> Connections \cup {NoOne}]
  /\ batch \in [Connections -> Stages] /\ aborted \in [Connections -> BOOLEAN]
  /\ workers \subseteq Connections

(* The places say which of the two threads runs, and for what. *)
Placed ==
  \A h \in Connections :
    /\ batch[h] # "none" => at[h] \in {"unspawned", "done"}
    /\ at[h] \in {"guard", "install", "launch"} => kind[h] = "batch"
    /\ at[h] \in {"captured", "requested", "checking"} => caught[h] \in Connections

Owns(h) ==
  \/ at[h] \in {"guard", "spawn", "prepare", "install", "launch", "release"}
  \/ batch[h] \notin {"none", "gone"}

OneOwner ==
  \A h \in Connections :
    Owns(h) => busy /\ \A k \in Connections : Owns(k) => k = h

WorkersOwned ==
  \A h \in workers :
    \/ at[h] \in {"prepare", "install", "launch"}
    \/ batch[h] \in Working \cup {"dropWorker"}

InstalledOwns ==
  installed # NoOne => at[installed] = "launch" \/ batch[installed] \in Working

(* A controller nobody could reach yet. *)
Fresh ==
  \A h \in Connections :
    at[h] \in {"new", "guard", "spawn", "prepare", "install"} =>
      ~ ctl[h].pause /\ ~ ctl[h].stop /\ ~ ctl[h].closed

(* From Begin to Install, /status shows nothing of an earlier batch. *)
ShownFresh ==
  \A h \in Connections :
    at[h] \in {"spawn", "prepare", "install"} /\ kind[h] = "batch" =>
      ~ shown.pause /\ ~ shown.stop /\ report = NoOne

IInv ==
  /\ Types /\ Placed /\ OneOwner /\ WorkersOwned /\ InstalledOwns /\ Fresh /\ ShownFresh
  /\ AcceptedStopAborts /\ IdleShowsNothingActive /\ ShownIsTheControllers

-----------------------------------------------------------------------------
(* What the mutexes allow a write of progress to change. *)
Shows ==
  /\ shown' \in Shown /\ shown'.stop = shown.stop
  /\ \/ installed' = NoOne
     \/ installed' = installed /\ shown'.pause = shown.pause

LEMMA SinkShows ==
  ASSUME Types, NEW phase \in ActiveStates \cup Ended, NEW landed, Sink(phase, landed)
  PROVE  Shows /\ UNCHANGED <<busy, report>>
  <1>1. CASE landed
    <2>1. shown' = [state |-> phase, stop |-> shown.stop,
                    pause |-> phase \notin Ended /\ shown.pause]  BY <1>1 DEF Sink
    <2>2. (phase \notin Ended /\ shown.pause) \in BOOLEAN  OBVIOUS
    <2>3. shown' \in Shown /\ shown'.stop = shown.stop  BY <2>1, <2>2 DEF Types, Shown
    <2>4. shown'.pause = (phase \notin Ended /\ shown.pause)  BY <2>1
    <2>5. CASE phase \in Ended  BY <1>1, <2>3, <2>5 DEF Sink, Shows
    <2>6. CASE phase \notin Ended
      <3>1. shown'.pause = shown.pause  BY <2>4, <2>6 DEF Types, Shown
      <3> QED BY <1>1, <2>3, <2>6, <3>1 DEF Sink, Shows
    <2> QED BY <1>1, <2>5, <2>6 DEF Sink
  <1>2. CASE ~ landed  BY <1>2 DEF Sink, Shows, Types
  <1> QED BY <1>1, <1>2

LEMMA StillShows == ASSUME Types, UNCHANGED <<shown, installed>> PROVE Shows
  BY DEF Types, Shows

(* A batch thread that moves on with its lease disturbs nothing: it is the     *)
(* owner, so what it shows or takes down is its own.                           *)
LEMMA BatchMoves ==
  ASSUME IInv, NEW b \in Connections, batch[b] \in Working, Shows,
         UNCHANGED <<busy, serving, workers>>,
         \E to \in Working \cup {"dropWorker"} :
           /\ Run(b, batch[b], to)
           /\ installed' = NoOne \/ (report' = report /\ to \in Working),
         ctl' \in [Connections -> Control], aborted' \in [Connections -> BOOLEAN],
         \A c \in Connections : ctl'[c].pause = ctl[c].pause /\ ctl'[c].stop = ctl[c].stop,
         \A c \in Connections : c = b \/ ctl'[c] = ctl[c],
         AcceptedStopAborts'
  PROVE  IInv'
  <1> USE NoOneAssumption DEF Run, serving
  <1>0. PICK to \in Working \cup {"dropWorker"} :
          /\ batch' = [batch EXCEPT ![b] = to]
          /\ installed' = NoOne \/ (report' = report /\ to \in Working)
    OBVIOUS
  <1>1. Owns(b) /\ busy /\ at[b] \in {"unspawned", "done"} /\ \A k \in Connections : Owns(k) => k = b
    BY DEF IInv, Types, OneOwner, Owns, Placed, Working
  <1>2. /\ batch' \in [Connections -> Stages] /\ batch'[b] = to
        /\ \A k \in Connections : k = b \/ batch'[k] = batch[k]
    BY <1>0 DEF IInv, Types, Stages
  <1>3. Types'  BY <1>2 DEF IInv, Types, Shows
  <1>4. Placed'  BY <1>1, <1>2 DEF IInv, Placed
  <1>5. \A k \in Connections : Owns(k)' => Owns(k)  BY <1>1, <1>2 DEF Owns
  <1>6. OneOwner'  BY <1>1, <1>5 DEF OneOwner
  <1>7. WorkersOwned'  BY <1>2 DEF IInv, Types, WorkersOwned
  <1>8. InstalledOwns'  BY <1>0, <1>1, <1>2 DEF IInv, Types, InstalledOwns, Shows, Owns
  <1>9. Fresh'  BY <1>1 DEF IInv, Fresh
  <1>10. ShownFresh'
    <2> SUFFICES ASSUME NEW h \in Connections, at[h] \in {"spawn", "prepare", "install"} PROVE FALSE
      BY DEF ShownFresh
    <2> QED BY <1>1 DEF Owns
  <1>11. IdleShowsNothingActive'  BY <1>1 DEF IdleShowsNothingActive
  <1>12. ShownIsTheControllers'  BY <1>0 DEF IInv, Types, ShownIsTheControllers, Shows
  <1> QED BY <1>3, <1>4, <1>6, <1>7, <1>8, <1>9, <1>10, <1>11, <1>12 DEF IInv

(* The same, for the steps that close no controller. *)
LEMMA BatchGoesOn ==
  ASSUME IInv, NEW b \in Connections, batch[b] \in Working, Shows,
         UNCHANGED <<busy, ctl, serving, workers>>,
         aborted' = aborted \/ aborted' = [aborted EXCEPT ![b] = TRUE],
         \E to \in Working \cup {"dropWorker"} :
           /\ Run(b, batch[b], to)
           /\ installed' = NoOne \/ (report' = report /\ to \in Working)
  PROVE  IInv'
  <1>1. ctl' \in [Connections -> Control] /\ aborted' \in [Connections -> BOOLEAN]
    BY DEF IInv, Types
  <1>2. AcceptedStopAborts'  BY DEF IInv, Types, AcceptedStopAborts
  <1> QED BY <1>1, <1>2, BatchMoves

LEMMA StopIsWritten ==
  ASSUME IInv, NEW b \in Connections, batch[b] \in Working, WriteStop(b, batch[b])
  PROVE  IInv'
  <1> USE DEF Working
  <1>1. Types  BY DEF IInv
  <1>2. "stopped" \in ActiveStates \cup Ended  BY DEF Ended
  <1>3. Shows /\ UNCHANGED <<busy, report>>  BY <1>1, <1>2, SinkShows DEF WriteStop
  <1> QED BY <1>3, BatchGoesOn DEF WriteStop, Run

(* The worker is gone, and Busy is not yet given back. *)
LEMMA WorkerIsDropped == ASSUME IInv, NEW b \in Connections, DropWorker(b) PROVE IInv'
  <1> USE NoOneAssumption DEF DropWorker, Run, state, serving
  <1>1. /\ batch' \in [Connections -> Stages] /\ batch'[b] = "dropBusy"
        /\ \A k \in Connections : k = b \/ batch'[k] = batch[k]
    BY DEF IInv, Types, Stages
  <1>2. Types'  BY <1>1 DEF IInv, Types
  <1>3. Placed'  BY <1>1 DEF IInv, Placed
  <1>4. \A k \in Connections : Owns(k)' => Owns(k)  BY <1>1 DEF Owns
  <1>5. OneOwner'  BY <1>4 DEF IInv, OneOwner
  <1>6. WorkersOwned'  BY <1>1 DEF IInv, Types, WorkersOwned
  <1>7. InstalledOwns'  BY <1>1 DEF IInv, Types, InstalledOwns, Working, Placed
  <1>8. Fresh'  BY DEF IInv, Fresh
  <1>9. ShownFresh'  BY DEF IInv, ShownFresh
  <1>10. AcceptedStopAborts'  BY DEF IInv, AcceptedStopAborts
  <1>11. IdleShowsNothingActive'  BY DEF IInv, IdleShowsNothingActive
  <1>12. ShownIsTheControllers'  BY DEF IInv, ShownIsTheControllers
  <1> QED BY <1>2, <1>3, <1>5, <1>6, <1>7, <1>8, <1>9, <1>10, <1>11, <1>12 DEF IInv

(* Busy is given back by its owner, which leaves no owner and nothing shown. *)
LEMMA LastDrop ==
  ASSUME IInv, DropBusy, UNCHANGED <<ctl, kind, caught, aborted, workers>>,
         NEW h \in Connections, Owns(h),
         \A k \in Connections : ~ Owns(k)',
         Types', Placed', WorkersOwned',
         \A k \in Connections : at'[k] = at[k] \/ at'[k] = "done"
  PROVE  IInv'
  <1> USE DEF DropBusy, ClearControl
  <1>1. installed' = NoOne /\ shown'.pause = FALSE /\ shown'.state \notin ActiveStates
    BY DEF IInv, Types, Shown, ActiveStates
  <1>2. OneOwner'  BY DEF OneOwner
  <1>3. InstalledOwns'  BY <1>1 DEF InstalledOwns
  <1>4. Fresh'  BY DEF IInv, Fresh
  <1>5. ShownFresh'  BY DEF ShownFresh, Owns
  <1>6. AcceptedStopAborts'  BY DEF IInv, AcceptedStopAborts
  <1>7. IdleShowsNothingActive'  BY <1>1 DEF IdleShowsNothingActive
  <1>8. ShownIsTheControllers'  BY <1>1 DEF ShownIsTheControllers
  <1> QED BY <1>2, <1>3, <1>4, <1>5, <1>6, <1>7, <1>8 DEF IInv

LEMMA ClearIsShown == ASSUME Types, ClearControl PROVE shown' \in Shown /\ installed' = NoOne
  <1>1. shown' = [shown EXCEPT !.pause = FALSE,
                    !.state = IF @ \in ActiveStates THEN "stopped" ELSE @]  BY DEF ClearControl
  <1>2. (IF shown.state \in ActiveStates THEN "stopped" ELSE shown.state)
           \in ActiveStates \cup Ended \cup {"idle"}
    BY DEF Types, Shown, Ended
  <1> QED BY <1>1, <1>2 DEF ClearControl, Types, Shown

LEMMA LeaseIsDropped == ASSUME IInv, NEW b \in Connections, DropLease(b) PROVE IInv'
  <1> USE DEF DropLease, Run, serving
  <1>1. /\ batch[b] = "dropBusy" /\ batch' \in [Connections -> Stages] /\ batch'[b] = "gone"
        /\ \A k \in Connections : k = b \/ batch'[k] = batch[k]
    BY DEF IInv, Types, Stages
  <1>2. Owns(b) /\ at[b] \in {"unspawned", "done"} /\ \A k \in Connections : Owns(k) => k = b
    BY <1>1 DEF IInv, Types, OneOwner, Owns, Placed
  <1>3. \A k \in Connections : ~ Owns(k)'  BY <1>1, <1>2 DEF Owns
  <1>4. Types'  BY <1>1, ClearIsShown DEF IInv, Types, DropBusy
  <1>5. Placed'  BY <1>1, <1>2 DEF IInv, Placed
  <1>6. WorkersOwned'  BY <1>1 DEF IInv, Types, WorkersOwned, Working
  <1> QED BY <1>2, <1>3, <1>4, <1>5, <1>6, LastDrop

LEMMA BatchKeeps == ASSUME IInv, NEW b \in Connections, BatchThread(b) PROVE IInv'
  <1> USE DEF Run, Working, state, locks
  <1>0. Types /\ UNCHANGED serving  BY DEF IInv, BatchThread, Session, QueueDone, EnterBoundary,
        Boundary, Wake, Woke, Dequeue, Record, Settle, Panic, Halted, EnterCompletion, LateStop,
        Close, Report, Failed, DropControl, DropWorker, DropLease, WriteStop
  <1>1. CASE Session(b)  BY <1>0, <1>1, StillShows, BatchGoesOn DEF Session
  <1>2. CASE QueueDone(b)  BY <1>0, <1>2, StillShows, BatchGoesOn DEF QueueDone
  <1>3. CASE EnterBoundary(b)  BY <1>0, <1>3, StillShows, BatchGoesOn DEF EnterBoundary
  <1>4. CASE Boundary(b)
    <2>1. CASE ctl[b].stop  BY <1>4, <2>1, StopIsWritten DEF Boundary, WriteStop
    <2>2. CASE ~ ctl[b].stop /\ ctl[b].pause
      <3>1. Shows /\ UNCHANGED <<busy, report>>
        BY <1>0, <1>4, <2>2, SinkShows DEF Boundary, ActiveStates
      <3> QED BY <1>4, <2>2, <3>1, BatchGoesOn DEF Boundary
    <2>3. CASE ~ ctl[b].stop /\ ~ ctl[b].pause
      BY <1>0, <1>4, <2>3, StillShows, BatchGoesOn DEF Boundary
    <2> QED BY <2>1, <2>2, <2>3
  <1>5. CASE Wake(b)  BY <1>0, <1>5, StillShows, BatchGoesOn DEF Wake
  <1>6. CASE Woke(b)
    <2>1. CASE ctl[b].stop  BY <1>6, <2>1, StopIsWritten DEF Woke, WriteStop
    <2>2. CASE ~ ctl[b].stop /\ ctl[b].pause
      BY <1>0, <1>6, <2>2, StillShows, BatchGoesOn DEF Woke
    <2>3. CASE ~ ctl[b].stop /\ ~ ctl[b].pause
      <3>1. Shows /\ UNCHANGED <<busy, report>>
        BY <1>0, <1>6, <2>3, SinkShows DEF Woke, ActiveStates
      <3> QED BY <1>6, <2>3, <3>1, BatchGoesOn DEF Woke
    <2> QED BY <2>1, <2>2, <2>3
  <1>7. CASE Dequeue(b)  BY <1>0, <1>7, StillShows, BatchGoesOn DEF Dequeue
  <1>8. CASE Record(b)
    <2>1. Shows /\ UNCHANGED <<busy, report>>  BY <1>0, <1>8, SinkShows DEF Record, ActiveStates
    <2> QED BY <1>8, <2>1, BatchGoesOn DEF Record
  <1>9. CASE Settle(b)
    <2>1. Shows /\ UNCHANGED <<busy, report>>  BY <1>0, <1>9, SinkShows DEF Settle, ActiveStates
    <2> QED BY <1>9, <2>1, BatchGoesOn DEF Settle
  <1>10. CASE Panic(b)  BY <1>0, <1>10, StillShows, BatchGoesOn DEF Panic
  <1>11. CASE Halted(b)
    <2>1. CASE ctl[b].stop  BY <1>11, <2>1, StopIsWritten DEF Halted, WriteStop
    <2>2. CASE ~ ctl[b].stop  BY <1>0, <1>11, <2>2, StillShows, BatchGoesOn DEF Halted
    <2> QED BY <2>1, <2>2
  <1>12. CASE EnterCompletion(b)  BY <1>0, <1>12, StillShows, BatchGoesOn DEF EnterCompletion
  <1>13. CASE LateStop(b)
    <2>1. Shows /\ UNCHANGED <<busy, report>>  BY <1>0, <1>13, SinkShows DEF LateStop, Ended
    <2> QED BY <1>13, <2>1, BatchGoesOn DEF LateStop
  <1>14. CASE Close(b)
    <2>1. (IF aborted[b] THEN "stopped" ELSE "complete") \in ActiveStates \cup Ended  BY DEF Ended
    <2>2. Shows /\ UNCHANGED <<busy, report>>  BY <1>0, <1>14, <2>1, SinkShows DEF Close
    <2>3. ctl' \in [Connections -> Control]
      <3>1. ctl' = [ctl EXCEPT ![b].closed = TRUE]  BY <1>14 DEF Close
      <3> QED BY <1>0, <3>1 DEF Types, Control
    <2>4. \A c \in Connections :
            /\ ctl'[c].pause = ctl[c].pause /\ ctl'[c].stop = ctl[c].stop
            /\ c = b \/ ctl'[c] = ctl[c]
      BY <1>0, <1>14 DEF Close, Types, Control
    <2>5. AcceptedStopAborts'
      BY <1>0, <1>14, <2>4 DEF Close, Types, IInv, AcceptedStopAborts
    <2>6. batch[b] = "closing" /\ UNCHANGED <<workers, aborted>>  BY <1>14 DEF Close
    <2>7. \E to \in Working : Run(b, batch[b], to)  BY <1>14, <2>6 DEF Close
    <2> QED BY <1>0, <2>2, <2>3, <2>4, <2>5, <2>6, <2>7, BatchMoves DEF Types
  <1>15. CASE Report(b)
    <2>1. shown' \in Shown /\ shown'.stop = shown.stop
      BY <1>0, <1>15 DEF Report, Types, Shown, Ended
    <2>2. Shows  BY <1>15, <2>1 DEF Report, Shows
    <2> QED BY <1>15, <2>2, BatchGoesOn DEF Report
  <1>16. CASE Failed(b)
    <2>1. shown' \in Shown /\ shown'.stop = shown.stop
      BY <1>0, <1>16 DEF Failed, Types, Shown, Ended
    <2>2. Shows  BY <1>16, <2>1 DEF Failed, Shows
    <2> QED BY <1>16, <2>2, BatchGoesOn DEF Failed
  <1>17. CASE DropControl(b)
    <2>1. shown' \in Shown /\ shown'.stop = shown.stop
      BY <1>0, <1>17 DEF DropControl, ClearControl, Types, Shown, Ended
    <2>2. Shows  BY <1>17, <2>1 DEF DropControl, ClearControl, Shows
    <2> QED BY <1>17, <2>2, BatchGoesOn DEF DropControl, ClearControl
  <1>18. CASE DropWorker(b)  BY <1>18, WorkerIsDropped
  <1>19. CASE DropLease(b)  BY <1>19, LeaseIsDropped
  <1> QED BY <1>1, <1>2, <1>3, <1>4, <1>5, <1>6, <1>7, <1>8, <1>9, <1>10, <1>11, <1>12, <1>13,
             <1>14, <1>15, <1>16, <1>17, <1>18, <1>19 DEF BatchThread

-----------------------------------------------------------------------------
(* A connection on its way through a command, which owns nothing. *)
Command == {"new", "captured", "requested", "checking"}

(* It moves on, and nothing it could disturb is touched. *)
LEMMA CommandMoves ==
  ASSUME IInv, NEW h \in Connections, at[h] \in Command,
         at' \in [Connections -> Places], at'[h] \in Command \cup {"done"}, at'[h] # "new",
         \A k \in Connections : k = h \/ at'[k] = at[k],
         caught' \in [Connections -> Connections \cup {NoOne}],
         \A k \in Connections : k = h \/ caught'[k] = caught[k],
         at'[h] # "done" => caught'[h] \in Connections,
         UNCHANGED <<state, ctl, kind, batch, aborted, workers>>
  PROVE  IInv'
  <1> USE NoOneAssumption DEF state, Command
  <1>1. Types'  BY DEF IInv, Types
  <1>2. Placed'  BY DEF IInv, Placed
  <1>3. \A k \in Connections : Owns(k)' => Owns(k)  BY DEF Owns
  <1>4. OneOwner'  BY <1>3 DEF IInv, OneOwner
  <1>5. WorkersOwned'  BY DEF IInv, Types, WorkersOwned
  <1>6. InstalledOwns'  BY DEF IInv, Types, InstalledOwns
  <1>7. Fresh'  BY DEF IInv, Fresh
  <1>8. ShownFresh'  BY DEF IInv, ShownFresh
  <1>9. AcceptedStopAborts'  BY DEF IInv, AcceptedStopAborts
  <1>10. IdleShowsNothingActive'  BY DEF IInv, IdleShowsNothingActive
  <1>11. ShownIsTheControllers'  BY DEF IInv, ShownIsTheControllers
  <1> QED BY <1>1, <1>2, <1>4, <1>5, <1>6, <1>7, <1>8, <1>9, <1>10, <1>11 DEF IInv

(* What an accepted command does to the flags: to the controller installed, and *)
(* to what is shown of it, the same.                                            *)
LEMMA CommandActs ==
  ASSUME IInv, NEW h \in Connections, Answer(h), NEW b \in Connections,
         installed = b, ~ ctl[b].closed, shown' \in Shown, shown'.state = shown.state,
         ctl' \in [Connections -> Control], ~ ctl'[b].closed,
         shown'.pause = ctl'[b].pause, shown'.stop = ctl'[b].stop,
         \A c \in Connections : c = b \/ ctl'[c] = ctl[c],
         UNCHANGED <<busy, installed, report, caught, batch, aborted, workers>>
  PROVE  IInv'
  <1> USE NoOneAssumption DEF Answer, Serve
  <1>1. /\ at' \in [Connections -> Places] /\ at'[h] = "done" /\ at[h] = "checking"
        /\ \A k \in Connections : k = h \/ at'[k] = at[k]
    BY DEF IInv, Types, Places
  <1>2. Owns(b) /\ b # h /\ at[b] \in {"launch", "unspawned", "done"}
    BY <1>1 DEF IInv, Types, InstalledOwns, Owns, Working, Placed
  <1>3. busy /\ \A k \in Connections : Owns(k) => k = b  BY <1>2 DEF IInv, OneOwner
  <1>4. Types'  BY <1>1 DEF IInv, Types
  <1>5. Placed'  BY <1>1 DEF IInv, Placed
  <1>6. \A k \in Connections : Owns(k)' => Owns(k)  BY <1>1 DEF Owns
  <1>7. OneOwner'  BY <1>6 DEF IInv, OneOwner
  <1>8. WorkersOwned'  BY <1>1 DEF IInv, Types, WorkersOwned
  <1>9. InstalledOwns'  BY <1>1, <1>2 DEF IInv, Types, InstalledOwns
  <1>10. Fresh'  BY <1>1, <1>2 DEF IInv, Fresh
  <1>11. ShownFresh'  BY <1>1, <1>2, <1>3 DEF ShownFresh, Owns
  <1>12. AcceptedStopAborts'  BY DEF IInv, AcceptedStopAborts
  <1>13. IdleShowsNothingActive'  BY <1>3 DEF IdleShowsNothingActive
  <1>14. ShownIsTheControllers'  BY DEF IInv, ShownIsTheControllers
  <1> QED BY <1>4, <1>5, <1>7, <1>8, <1>9, <1>10, <1>11, <1>12, <1>13, <1>14 DEF IInv

LEMMA PauseKeeps == ASSUME IInv, NEW h \in Connections, PauseOrResume(h) PROVE IInv'
  <1> DEFINE b == caught[h]
             wanted == kind[h] = "pause"
  <1>1. b \in Connections /\ installed = b /\ ~ ctl[b].closed
    BY DEF PauseOrResume, Answer, Serve, Controllable, IInv, Placed
  <1>2. wanted \in BOOLEAN  OBVIOUS
  <1>3. ctl' = [ctl EXCEPT ![b].pause = wanted] /\ shown' = [shown EXCEPT !.pause = wanted]
    BY DEF PauseOrResume
  <1>4. Answer(h) /\ UNCHANGED <<busy, installed, report, caught, batch, aborted, workers>>
    BY DEF PauseOrResume, running
  <1>5. shown.stop = ctl[b].stop  BY <1>1, NoOneAssumption DEF IInv, ShownIsTheControllers
  <1> HIDE DEF wanted
  <1>6. shown' \in Shown /\ shown'.state = shown.state /\ shown'.pause = wanted /\ shown'.stop = shown.stop
    BY <1>2, <1>3 DEF IInv, Types, Shown
  <1>7. ctl' \in [Connections -> Control]  BY <1>1, <1>2, <1>3 DEF IInv, Types, Control
  <1>8. /\ ctl'[b].pause = wanted /\ ctl'[b].stop = ctl[b].stop /\ ctl'[b].closed = ctl[b].closed
        /\ \A c \in Connections : c = b \/ ctl'[c] = ctl[c]
    BY <1>1, <1>2, <1>3 DEF IInv, Types, Control
  <1> QED BY <1>1, <1>4, <1>5, <1>6, <1>7, <1>8, CommandActs

LEMMA StopKeeps == ASSUME IInv, NEW h \in Connections, Stop(h) PROVE IInv'
  <1> DEFINE b == caught[h]
  <1>1. b \in Connections /\ installed = b /\ ~ ctl[b].closed
    BY DEF Stop, Answer, Serve, Controllable, IInv, Placed
  <1>2. /\ ctl' = [ctl EXCEPT ![b].stop = TRUE, ![b].pause = FALSE]
        /\ shown' = [shown EXCEPT !.stop = TRUE, !.pause = FALSE]
    BY DEF Stop
  <1>3. Answer(h) /\ UNCHANGED <<busy, installed, report, caught, batch, aborted, workers>>
    BY DEF Stop, running
  <1>4. shown' \in Shown /\ shown'.state = shown.state /\ shown'.pause = FALSE /\ shown'.stop = TRUE
    BY <1>2 DEF IInv, Types, Shown
  <1>5. ctl' \in [Connections -> Control]  BY <1>1, <1>2 DEF IInv, Types, Control
  <1>6. /\ ctl'[b].pause = FALSE /\ ctl'[b].stop = TRUE /\ ctl'[b].closed = ctl[b].closed
        /\ \A c \in Connections : c = b \/ ctl'[c] = ctl[c]
    BY <1>1, <1>2 DEF IInv, Types, Control
  <1> QED BY <1>1, <1>3, <1>4, <1>5, <1>6, CommandActs

-----------------------------------------------------------------------------
(* A connection that owns Busy. *)

(* It is the only owner, and the controller installed can only be its own. *)
LEMMA SoleOwner ==
  ASSUME IInv, NEW h \in Connections,
         at[h] \in {"guard", "spawn", "prepare", "install", "launch", "release"}
  PROVE  /\ busy /\ batch[h] = "none" /\ \A k \in Connections : Owns(k) => k = h
         /\ installed # NoOne => installed = h /\ at[h] = "launch"
  <1>1. Owns(h) /\ batch[h] = "none"  BY DEF Owns, IInv, Placed
  <1>2. busy /\ \A k \in Connections : Owns(k) => k = h  BY <1>1 DEF IInv, OneOwner
  <1>3. installed # NoOne => Owns(installed)
    BY DEF IInv, Types, InstalledOwns, Owns, Working
  <1> QED BY <1>1, <1>2, <1>3 DEF IInv, Types, InstalledOwns, Working

LEMMA Moved ==
  ASSUME Types, NEW h \in Connections, NEW from, NEW to \in Places, Serve(h, from, to)
  PROVE  /\ at[h] = from /\ at' \in [Connections -> Places] /\ at'[h] = to /\ kind' = kind
         /\ \A k \in Connections : k = h \/ at'[k] = at[k]
  BY DEF Types, Serve

(* Until its controller is installed, whatever it shows is its own. *)
LEMMA OwnerMoves ==
  ASSUME IInv, NEW h \in Connections, at[h] \in {"guard", "spawn", "prepare"},
         NEW to \in {"spawn", "prepare", "install", "release"}, Serve(h, at[h], to),
         to = "install" => kind[h] = "batch",
         workers' \subseteq workers \cup {h}, h \in workers' => to \in {"prepare", "install"},
         shown' \in Shown,
         to # "release" /\ kind[h] = "batch" =>
           ~ shown'.pause /\ ~ shown'.stop /\ report' = NoOne,
         UNCHANGED <<busy, installed, ctl, caught, batch, aborted>>
  PROVE  IInv'
  <1>1. Types  BY DEF IInv
  <1>2. /\ at' \in [Connections -> Places] /\ at'[h] = to /\ kind' = kind
        /\ \A k \in Connections : k = h \/ at'[k] = at[k]
    BY <1>1, Moved DEF Places
  <1>3. /\ busy /\ batch[h] = "none" /\ installed = NoOne
        /\ \A k \in Connections : Owns(k) => k = h
    BY SoleOwner
  <1>4. Types'  BY <1>2 DEF IInv, Types
  <1>5. Placed'  BY <1>2, <1>3 DEF IInv, Placed
  <1>6. \A k \in Connections : Owns(k)' => Owns(k)  BY <1>2 DEF Owns
  <1>7. OneOwner'  BY <1>3, <1>6 DEF OneOwner
  <1>8. WorkersOwned'  BY <1>2 DEF IInv, Types, WorkersOwned
  <1>9. InstalledOwns'  BY <1>3 DEF InstalledOwns
  <1>10. Fresh'  BY <1>2 DEF IInv, Fresh
  <1>11. ShownFresh'  BY <1>2, <1>3 DEF ShownFresh, Owns
  <1>12. AcceptedStopAborts'  BY DEF IInv, AcceptedStopAborts
  <1>13. IdleShowsNothingActive'  BY <1>3 DEF IdleShowsNothingActive
  <1>14. ShownIsTheControllers'  BY <1>3 DEF ShownIsTheControllers
  <1> QED BY <1>4, <1>5, <1>7, <1>8, <1>9, <1>10, <1>11, <1>12, <1>13, <1>14 DEF IInv

LEMMA IdleIsShown ==
  \A name \in ActiveStates \cup Ended :
    LET new == [Idle EXCEPT !.state = name] IN new \in Shown /\ ~ new.pause /\ ~ new.stop
  BY DEF Idle, Shown

LEMMA AcquireKeeps == ASSUME IInv, NEW h \in Connections, Acquire(h) PROVE IInv'
  <1> USE DEF Acquire, locks, running
  <1>1. CASE busy
    <2>1. Serve(h, "new", "done") /\ UNCHANGED state  BY <1>1 DEF state
    <2>2. Types  BY DEF IInv
    <2>3. /\ at[h] = "new" /\ at' \in [Connections -> Places] /\ at'[h] = "done" /\ kind' = kind
          /\ \A k \in Connections : k = h \/ at'[k] = at[k]
      BY <2>1, <2>2, Moved DEF Places
    <2> QED BY <2>1, <2>2, <2>3, CommandMoves DEF Command, Types
  <1>2. CASE ~ busy
    <2> DEFINE to == IF kind[h] = "batch" THEN "guard" ELSE "spawn"
    <2>1. Types  BY DEF IInv
    <2>2. /\ at[h] = "new" /\ at' \in [Connections -> Places] /\ at'[h] = to /\ kind' = kind
          /\ \A k \in Connections : k = h \/ at'[k] = at[k]
      BY <1>2, <2>1, Moved DEF Places
    <2>3. /\ installed = NoOne /\ \A k \in Connections : ~ Owns(k)
          /\ batch[h] = "none" /\ busy' = TRUE
      BY <1>2, <2>2 DEF IInv, OneOwner, IdleShowsNothingActive, Placed
    <2>4. Types'  BY <1>2, <2>2 DEF IInv, Types
    <2>5. Placed'  BY <2>2, <2>3 DEF IInv, Placed
    <2>6. OneOwner'  BY <2>2, <2>3 DEF OneOwner, Owns
    <2>7. WorkersOwned'  BY <2>2 DEF IInv, Types, WorkersOwned
    <2>8. InstalledOwns'  BY <2>3 DEF InstalledOwns
    <2>9. Fresh'  BY <2>2 DEF IInv, Fresh
    <2>10. ShownFresh'  BY <2>2, <2>3 DEF ShownFresh, Owns
    <2>11. AcceptedStopAborts'  BY DEF IInv, AcceptedStopAborts
    <2>12. IdleShowsNothingActive'  BY <2>3 DEF IdleShowsNothingActive
    <2>13. ShownIsTheControllers'  BY <2>3 DEF ShownIsTheControllers
    <2> QED BY <2>4, <2>5, <2>6, <2>7, <2>8, <2>9, <2>10, <2>11, <2>12, <2>13 DEF IInv
  <1> QED BY <1>1, <1>2

LEMMA InstallKeeps == ASSUME IInv, NEW h \in Connections, Install(h) PROVE IInv'
  <1> USE NoOneAssumption DEF Install, locks, running
  <1>1. Types  BY DEF IInv
  <1>2. /\ at[h] = "install" /\ at' \in [Connections -> Places] /\ at'[h] = "launch"
        /\ kind' = kind /\ \A k \in Connections : k = h \/ at'[k] = at[k]
    BY <1>1, Moved DEF Places
  <1>3. busy /\ batch[h] = "none" /\ \A k \in Connections : Owns(k) => k = h
    BY <1>2, SoleOwner
  <1>4. /\ kind[h] = "batch" /\ ~ ctl[h].pause /\ ~ ctl[h].stop
        /\ ~ shown.pause /\ ~ shown.stop /\ report = NoOne
    BY <1>2 DEF IInv, Placed, Fresh, ShownFresh
  <1>5. Types'  BY <1>2 DEF IInv, Types
  <1>6. Placed'  BY <1>2, <1>3 DEF IInv, Placed
  <1>7. \A k \in Connections : Owns(k)' => Owns(k)  BY <1>2 DEF Owns
  <1>8. OneOwner'  BY <1>3, <1>7 DEF OneOwner
  <1>9. WorkersOwned'  BY <1>2 DEF IInv, Types, WorkersOwned
  <1>10. InstalledOwns'  BY <1>2 DEF InstalledOwns
  <1>11. Fresh'  BY <1>2 DEF IInv, Fresh
  <1>12. ShownFresh'  BY <1>2 DEF IInv, ShownFresh
  <1>13. AcceptedStopAborts'  BY DEF IInv, AcceptedStopAborts
  <1>14. IdleShowsNothingActive'  BY <1>3 DEF IdleShowsNothingActive
  <1>15. ShownIsTheControllers'  BY <1>4 DEF IInv, Types, Shown, Control, ShownIsTheControllers
  <1> QED BY <1>5, <1>6, <1>8, <1>9, <1>10, <1>11, <1>12, <1>13, <1>14, <1>15 DEF IInv

(* The batch thread takes Busy, the worker and the controller over. *)
LEMMA LaunchKeeps == ASSUME IInv, NEW h \in Connections, Launch(h) PROVE IInv'
  <1> USE NoOneAssumption DEF Launch, Run, state, locks
  <1>1. Types  BY DEF IInv
  <1>2. PICK to \in {"done", "unspawned"} :
          /\ Serve(h, "launch", to)
          /\ batch' = [batch EXCEPT ![h] = IF to = "done" THEN "session" ELSE "dropControl"]
    OBVIOUS
  <1>3. /\ at[h] = "launch" /\ at' \in [Connections -> Places] /\ at'[h] = to
        /\ kind' = kind /\ \A k \in Connections : k = h \/ at'[k] = at[k]
    BY <1>1, <1>2, Moved DEF Places
  <1>4. /\ batch' \in [Connections -> Stages] /\ batch'[h] \in {"session", "dropControl"}
        /\ \A k \in Connections : k = h \/ batch'[k] = batch[k]
    BY <1>1, <1>2 DEF Types, Stages, Working
  <1>5. busy /\ Owns(h) /\ \A k \in Connections : Owns(k) => k = h
    BY <1>3, SoleOwner DEF Owns
  <1>6. Types'  BY <1>3, <1>4 DEF IInv, Types
  <1>7. Placed'  BY <1>2, <1>3, <1>4 DEF IInv, Placed
  <1>8. \A k \in Connections : Owns(k)' => Owns(k)  BY <1>3, <1>4, <1>5 DEF Owns
  <1>9. OneOwner'  BY <1>5, <1>8 DEF OneOwner
  <1>10. WorkersOwned'  BY <1>3, <1>4 DEF IInv, Types, WorkersOwned, Working
  <1>11. InstalledOwns'  BY <1>3, <1>4 DEF IInv, Types, InstalledOwns, Working
  <1>12. Fresh'  BY <1>3 DEF IInv, Fresh
  <1>13. ShownFresh'  BY <1>3 DEF IInv, ShownFresh
  <1>14. AcceptedStopAborts'  BY DEF IInv, AcceptedStopAborts
  <1>15. IdleShowsNothingActive'  BY <1>5 DEF IdleShowsNothingActive
  <1>16. ShownIsTheControllers'  BY DEF IInv, ShownIsTheControllers
  <1> QED BY <1>6, <1>7, <1>9, <1>10, <1>11, <1>12, <1>13, <1>14, <1>15, <1>16 DEF IInv

LEMMA ReleaseKeeps == ASSUME IInv, NEW h \in Connections, Release(h) PROVE IInv'
  <1> USE DEF Release, running
  <1>1. Types  BY DEF IInv
  <1>2. /\ at[h] = "release" /\ at' \in [Connections -> Places] /\ at'[h] = "done"
        /\ kind' = kind /\ \A k \in Connections : k = h \/ at'[k] = at[k]
    BY <1>1, Moved DEF Places
  <1>3. Owns(h) /\ batch[h] = "none" /\ \A k \in Connections : Owns(k) => k = h
    BY <1>2, SoleOwner DEF Owns
  <1>4. \A k \in Connections : ~ Owns(k)'  BY <1>2, <1>3 DEF Owns
  <1>5. Types'  BY <1>1, <1>2, ClearIsShown DEF Types, DropBusy
  <1>6. Placed'  BY <1>2, <1>3 DEF IInv, Placed
  <1>7. WorkersOwned'  BY <1>2 DEF IInv, Types, WorkersOwned
  <1> QED BY <1>2, <1>3, <1>4, <1>5, <1>6, <1>7, LastDrop

LEMMA UnspawnedKeeps == ASSUME IInv, NEW h \in Connections, Unspawned(h) PROVE IInv'
  <1> USE DEF Unspawned, state, locks, running
  <1>1. Types  BY DEF IInv
  <1>2. /\ at[h] = "unspawned" /\ at' \in [Connections -> Places] /\ at'[h] = "done"
        /\ kind' = kind /\ \A k \in Connections : k = h \/ at'[k] = at[k]
    BY <1>1, Moved DEF Places
  <1>3. Types'  BY <1>2 DEF IInv, Types
  <1>4. Placed'  BY <1>2 DEF IInv, Placed
  <1>5. OneOwner'  BY <1>2 DEF IInv, OneOwner, Owns
  <1>6. WorkersOwned'  BY <1>2 DEF IInv, Types, WorkersOwned
  <1>7. InstalledOwns'  BY <1>2 DEF IInv, Types, InstalledOwns
  <1>8. Fresh'  BY <1>2 DEF IInv, Fresh
  <1>9. ShownFresh'  BY <1>2 DEF IInv, ShownFresh
  <1>10. AcceptedStopAborts'  BY DEF IInv, AcceptedStopAborts
  <1>11. IdleShowsNothingActive'  BY DEF IInv, IdleShowsNothingActive
  <1>12. ShownIsTheControllers'  BY DEF IInv, ShownIsTheControllers
  <1> QED BY <1>3, <1>4, <1>5, <1>6, <1>7, <1>8, <1>9, <1>10, <1>11, <1>12 DEF IInv

LEMMA ConnectionKeeps == ASSUME IInv, NEW h \in Connections, Connection(h) PROVE IInv'
  <1> USE DEF state, locks, running
  <1>0. Types  BY DEF IInv
  <1>1. CASE Capture(h)
    <2>1. CASE installed = NoOne
      <3>1. Serve(h, "new", "done")  BY <1>1, <2>1 DEF Capture
      <3>2. /\ at[h] = "new" /\ at' \in [Connections -> Places] /\ at'[h] = "done" /\ kind' = kind
            /\ \A k \in Connections : k = h \/ at'[k] = at[k]
        BY <1>0, <3>1, Moved DEF Places
      <3> QED BY <1>0, <1>1, <2>1, <3>2, CommandMoves DEF Capture, Command, Types
    <2>2. CASE installed # NoOne
      <3>1. Serve(h, "new", "captured")  BY <1>1, <2>2 DEF Capture
      <3>2. /\ at[h] = "new" /\ at' \in [Connections -> Places] /\ at'[h] = "captured" /\ kind' = kind
            /\ \A k \in Connections : k = h \/ at'[k] = at[k]
        BY <1>0, <3>1, Moved DEF Places
      <3>3. /\ caught' \in [Connections -> Connections \cup {NoOne}] /\ caught'[h] \in Connections
            /\ \A k \in Connections : k = h \/ caught'[k] = caught[k]
        BY <1>0, <1>1, <2>2 DEF Capture, Types
      <3> QED BY <1>1, <3>2, <3>3, CommandMoves DEF Capture, Command
    <2> QED BY <2>1, <2>2
  <1>2. CASE LockPause(h)
    <2>1. Serve(h, "captured", "requested")  BY <1>2 DEF LockPause
    <2>2. /\ at[h] = "captured" /\ at' \in [Connections -> Places] /\ at'[h] = "requested"
          /\ kind' = kind /\ \A k \in Connections : k = h \/ at'[k] = at[k]
      BY <1>0, <2>1, Moved DEF Places
    <2> QED BY <1>0, <1>2, <2>2, CommandMoves DEF LockPause, Command, Types, IInv, Placed
  <1>3. CASE LockState(h)
    <2>1. Serve(h, "requested", "checking")  BY <1>3 DEF LockState
    <2>2. /\ at[h] = "requested" /\ at' \in [Connections -> Places] /\ at'[h] = "checking"
          /\ kind' = kind /\ \A k \in Connections : k = h \/ at'[k] = at[k]
      BY <1>0, <2>1, Moved DEF Places
    <2> QED BY <1>0, <1>3, <2>2, CommandMoves DEF LockState, Command, Types, IInv, Placed
  <1>4. CASE Refuse(h)
    <2>1. Serve(h, "checking", "done")  BY <1>4 DEF Refuse, Answer
    <2>2. /\ at[h] = "checking" /\ at' \in [Connections -> Places] /\ at'[h] = "done"
          /\ kind' = kind /\ \A k \in Connections : k = h \/ at'[k] = at[k]
      BY <1>0, <2>1, Moved DEF Places
    <2> QED BY <1>0, <1>4, <2>2, CommandMoves DEF Refuse, Command, Types
  <1>5. CASE PauseOrResume(h)  BY <1>5, PauseKeeps
  <1>6. CASE Stop(h)  BY <1>6, StopKeeps
  <1>7. CASE Acquire(h)  BY <1>7, AcquireKeeps
  <1>8. CASE GuardRefuses(h)
    <2>1. Serve(h, "guard", "release") /\ at[h] = "guard"  BY <1>8 DEF GuardRefuses, Serve
    <2>2. h \notin workers  BY <2>1 DEF IInv, WorkersOwned, Placed, Working
    <2> QED BY <1>0, <1>8, <2>1, <2>2, OwnerMoves DEF GuardRefuses, Types
  <1>9. CASE NothingToRun(h)
    <2>1. Serve(h, "guard", "release") /\ at[h] = "guard"  BY <1>9 DEF NothingToRun, Serve
    <2>2. h \notin workers  BY <2>1 DEF IInv, WorkersOwned, Placed, Working
    <2>3. shown' \in Shown  BY <1>9, IdleIsShown DEF NothingToRun
    <2> QED BY <1>9, <2>1, <2>2, <2>3, OwnerMoves DEF NothingToRun
  <1>10. CASE Begin(h)
    <2>1. Serve(h, "guard", "spawn") /\ at[h] = "guard"  BY <1>10 DEF Begin, Serve
    <2>2. h \notin workers  BY <2>1 DEF IInv, WorkersOwned, Placed, Working
    <2>3. shown' \in Shown /\ ~ shown'.pause /\ ~ shown'.stop
      BY <1>10, IdleIsShown DEF Begin, ActiveStates
    <2> QED BY <1>10, <2>1, <2>2, <2>3, OwnerMoves DEF Begin
  <1>11. CASE SpawnWorker(h)
    <2>1. at[h] = "spawn"  BY <1>11 DEF SpawnWorker, Serve
    <2>2. h \notin workers  BY <2>1 DEF IInv, WorkersOwned, Placed, Working
    <2>3. kind[h] = "batch" => ~ shown.pause /\ ~ shown.stop /\ report = NoOne
      BY <2>1 DEF IInv, ShownFresh
    <2>4. CASE Serve(h, "spawn", "prepare") /\ workers' = workers \cup {h}
      BY <1>0, <1>11, <2>1, <2>3, <2>4, OwnerMoves DEF SpawnWorker, Types
    <2>5. CASE Serve(h, "spawn", "release") /\ UNCHANGED workers
      BY <1>0, <1>11, <2>1, <2>2, <2>5, OwnerMoves DEF SpawnWorker, Types
    <2> QED BY <1>11, <2>4, <2>5 DEF SpawnWorker
  <1>12. CASE Prepare(h)
    <2>1. at[h] = "prepare"  BY <1>12 DEF Prepare, Serve
    <2>2. kind[h] = "batch" => ~ shown.pause /\ ~ shown.stop /\ report = NoOne
      BY <2>1 DEF IInv, ShownFresh
    <2>3. CASE kind[h] = "batch" /\ Serve(h, "prepare", "install") /\ UNCHANGED workers
      BY <1>0, <1>12, <2>1, <2>2, <2>3, OwnerMoves DEF Prepare, Types
    <2>4. CASE Serve(h, "prepare", "release") /\ workers' = workers \ {h}
      BY <1>0, <1>12, <2>1, <2>4, OwnerMoves DEF Prepare, Types
    <2> QED BY <1>12, <2>3, <2>4 DEF Prepare
  <1>13. CASE Install(h)  BY <1>13, InstallKeeps
  <1>14. CASE Launch(h)  BY <1>14, LaunchKeeps
  <1>15. CASE Unspawned(h)  BY <1>15, UnspawnedKeeps
  <1>16. CASE Release(h)  BY <1>16, ReleaseKeeps
  <1> QED BY <1>1, <1>2, <1>3, <1>4, <1>5, <1>6, <1>7, <1>8, <1>9, <1>10, <1>11, <1>12, <1>13,
             <1>14, <1>15, <1>16 DEF Connection

-----------------------------------------------------------------------------
(* Nobody owns anything yet. *)
LEMMA InitHolds == Init => IInv
  <1> SUFFICES ASSUME Init PROVE IInv  OBVIOUS
  <1> USE DEF Init
  <1>1. Types  BY DEF Types, Idle, Shown, Control, Places, Stages
  <1>2. Placed /\ OneOwner /\ WorkersOwned /\ InstalledOwns
    BY DEF Placed, OneOwner, Owns, WorkersOwned, InstalledOwns
  <1>3. Fresh /\ ShownFresh  BY DEF Fresh, ShownFresh
  <1>4. AcceptedStopAborts /\ IdleShowsNothingActive /\ ShownIsTheControllers
    BY DEF AcceptedStopAborts, IdleShowsNothingActive, ShownIsTheControllers, Idle, ActiveStates
  <1> QED BY <1>1, <1>2, <1>3, <1>4 DEF IInv

LEMMA StutterKeeps == ASSUME IInv, UNCHANGED vars PROVE IInv'
  BY DEF vars, state, locks, serving, running, IInv, Types, Placed, OneOwner, Owns, WorkersOwned,
         InstalledOwns, Fresh, ShownFresh, AcceptedStopAborts, IdleShowsNothingActive,
         ShownIsTheControllers

THEOREM Invariance == Spec => []IInv
  <1>1. IInv /\ [Next]_vars => IInv'
    BY BatchKeeps, ConnectionKeeps, StutterKeeps DEF Next
  <1> QED BY <1>1, InitHolds, PTL DEF Spec

-----------------------------------------------------------------------------
(* Theorems. *)

(* However many requests come and however their batches end, a second worker is *)
(* never spawned beside a living one: workers belong to the owner of Busy.       *)
THEOREM OnlyOneWorker == Spec => []OneWorker
  <1>1. IInv => OneWorker
    <2> SUFFICES ASSUME IInv PROVE OneWorker  OBVIOUS
    <2>1. CASE workers = {}
      <3>1. Cardinality(workers) = 0  BY <2>1, FS_EmptySet
      <3> QED BY <3>1 DEF OneWorker
    <2>2. CASE workers # {}
      <3>1. PICK h \in workers : TRUE  BY <2>2
      <3>2. \A k \in workers : k \in Connections /\ Owns(k)
        BY DEF IInv, Types, WorkersOwned, Owns, Working
      <3>3. workers = {h}  BY <3>1, <3>2 DEF IInv, OneOwner
      <3>4. Cardinality(workers) = 1  BY <3>3, FS_Singleton
      <3> QED BY <3>4 DEF OneWorker
    <2> QED BY <2>1, <2>2
  <1> QED BY <1>1, Invariance, PTL

(* A stop accepted before a batch closes is never followed by its completing. *)
THEOREM StopsAreKept == Spec => []AcceptedStopAborts
  <1>1. IInv => AcceptedStopAborts  BY DEF IInv
  <1> QED BY <1>1, Invariance, PTL

(* Whenever the daemon takes a new request it shows nothing of an earlier one,  *)
(* and what it shows of pause and stop is what the installed controller holds.  *)
THEOREM ShownIsTrue == Spec => []StatusIsTrue
  <1>1. IInv => StatusIsTrue  BY DEF IInv, StatusIsTrue
  <1> QED BY <1>1, Invariance, PTL

=============================================================================
