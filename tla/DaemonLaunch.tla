---------------------------- MODULE DaemonLaunch ----------------------------
(***************************************************************************)
(* How a daemon comes to listen, and with which token (rust/src/daemon.rs:    *)
(* `token_file`, `Config::environment`, `run`): starts that race on the first *)
(* run, a start that dies between creating the token file and writing it, and *)
(* an operator who puts something else in its place or takes it away.         *)
(*                                                                          *)
(* A token is the start that drew it, and so is the file it was written to;   *)
(* no two starts draw the same one.                                          *)
(***************************************************************************)
EXTENDS Naturals, FiniteSets

CONSTANTS Starts,     \* starts of `dssp-bot --daemon`
          Port,       \* start -> the port it is configured for, 0 if none is valid
          AnOrigin,   \* start -> DSSP_DAEMON_ORIGINS names at least one, all of them valid
          Removals    \* bound on the operator's removals of the file

ASSUME PortAssumption == Port \in [Starts -> Nat]
ASSUME RemovalsAssumption == Removals \in Nat
ASSUME OriginAssumption == AnOrigin \in [Starts -> BOOLEAN]
ASSUME StartsAssumption == {"none", "torn", "nobody"} \cap Starts = {}

VARIABLES
  file,     \* the token file, or Missing
  at,       \* start -> where it is
  held,     \* start -> the file it has open
  token,    \* start -> the token it goes by
  removals  \* times the operator took the file away

vars == <<file, at, held, token, removals>>

Missing == [by |-> "nobody"]

(* whole: all 64 digits are there; safe: what the metadata checks ask for. *)
File(s, whole) == [by |-> s, whole |-> whole, safe |-> TRUE]

Init ==
  /\ file = Missing
  /\ at = [s \in Starts |-> "off"]
  /\ held = [s \in Starts |-> "none"]
  /\ token = [s \in Starts |-> "none"]
  /\ removals = 0

Goes(s, to) == at' = [at EXCEPT ![s] = to]

-----------------------------------------------------------------------------
(* Config::environment, up to the token. *)
Start(s) ==
  /\ at[s] = "off"
  /\ Goes(s, IF Port[s] # 0 /\ AnOrigin[s] THEN "open" ELSE "refused")
  /\ UNCHANGED <<file, held, token, removals>>

Opens(s, otherwise) ==
  /\ Goes(s, IF file = Missing THEN otherwise ELSE "check")
  /\ held' = [held EXCEPT ![s] = file.by]
  /\ UNCHANGED <<file, token, removals>>

(* The first open of token_file. *)
Open(s) == at[s] = "open" /\ Opens(s, "create")

(* Mutation: the file is created or emptied. *)
CreateAnew(s) ==
  /\ at[s] = "create"
  /\ file' = File(s, FALSE) /\ Goes(s, "write")
  /\ UNCHANGED <<held, token, removals>>

(* create_new: there is a file by now, or this start makes an empty one. *)
Create(s) ==
  /\ at[s] = "create"
  /\ IF file = Missing THEN file' = File(s, FALSE) /\ Goes(s, "write")
     ELSE Goes(s, "reopen") /\ UNCHANGED file
  /\ UNCHANGED <<held, token, removals>>

(* write_all and sync, to the file this start made, if it has a name still. *)
Write(s) ==
  /\ at[s] = "write"
  /\ file' = IF file.by = s THEN [file EXCEPT !.whole = TRUE] ELSE file
  /\ Goes(s, "reopen")
  /\ UNCHANGED <<held, token, removals>>

(* An error of any of these steps. *)
Fails(s) ==
  /\ at[s] \in {"open", "create", "write", "reopen", "check", "bind"}
  /\ Goes(s, "refused")
  /\ UNCHANGED <<file, held, token, removals>>

Reopen(s) == at[s] = "reopen" /\ Opens(s, "refused")

(* The file that is open still has its name. *)
Linked(s) == file # Missing /\ file.by = held[s]

(* Mutation: what was read is not looked at. *)
CheckUnread(s) ==
  /\ at[s] = "check"
  /\ IF Linked(s) /\ file.safe
     THEN token' = [token EXCEPT ![s] = IF file.whole THEN file.by ELSE "torn"] /\ Goes(s, "bind")
     ELSE UNCHANGED token /\ Goes(s, "refused")
  /\ UNCHANGED <<file, held, removals>>

(* Kind, mode, owner and links, then exactly 64 digits. *)
Check(s) ==
  /\ at[s] = "check"
  /\ IF Linked(s) /\ file.safe /\ file.whole
     THEN token' = [token EXCEPT ![s] = file.by] /\ Goes(s, "bind")
     ELSE UNCHANGED token /\ Goes(s, "refused")
  /\ UNCHANGED <<file, held, removals>>

Listening == {s \in Starts : at[s] = "listening"}

(* One listener to a port. *)
Bind(s) ==
  /\ at[s] = "bind"
  /\ Goes(s, IF \E other \in Listening : Port[other] = Port[s] THEN "refused" ELSE "listening")
  /\ UNCHANGED <<file, held, token, removals>>

-----------------------------------------------------------------------------
(* The process dies, or an operator ends it: what comes next is another start. *)
Stops(s) ==
  /\ at[s] \notin {"off", "refused", "dead"}
  /\ Goes(s, "dead")
  /\ UNCHANGED <<file, held, token, removals>>

(* What an operator may do to the file, the first as often as Removals. *)
Remove ==
  /\ file # Missing /\ removals < Removals
  /\ file' = Missing
  /\ removals' = removals + 1
  /\ UNCHANGED <<at, held, token>>

Chmod ==
  /\ file # Missing
  /\ file' = [file EXCEPT !.safe = ~ @]
  /\ UNCHANGED <<at, held, token, removals>>

Process(s) ==
  Start(s) \/ Open(s) \/ Create(s) \/ Write(s) \/ Fails(s) \/ Reopen(s) \/ Check(s) \/ Bind(s)

Next == (\E s \in Starts : Process(s) \/ Stops(s)) \/ Remove \/ Chmod

Spec == Init /\ [][Next]_vars

-----------------------------------------------------------------------------
(* Properties. *)

TypeOK ==
  /\ file = Missing \/ file \in [by : Starts, whole : BOOLEAN, safe : BOOLEAN]
  /\ at \in [Starts -> {"off", "open", "create", "write", "reopen", "check", "bind",
                        "listening", "refused", "dead"}]
  /\ token \in [Starts -> Starts \cup {"none"}]
  /\ removals \in Nat

(* As long as nobody takes the file away, every daemon that ever got as far as   *)
(* binding goes by one token, however the first starts raced and died: "the      *)
(* operator pastes it into the extension once" (docs/daemon-api.md:122).         *)
OneTokenEver ==
  removals = 0 =>
    \A s, t \in Starts : token[s] # "none" /\ token[t] # "none" => token[s] = token[t]

(* And that token is the one an operator reads in the file, to the last digit.   *)
TheFileIsTheToken ==
  removals = 0 =>
    \A s \in Listening : file # Missing /\ file.whole /\ file.by = token[s]

(* One token, and the one in the file.                                           *)
TheTokenIsKept == OneTokenEver /\ TheFileIsTheToken

=============================================================================
