---------------------------- MODULE BatchRoster ----------------------------
(***************************************************************************)
(* From what a job names to whom the worker submits: the job's shape         *)
(* (main.rs, `plan`; the validation in Daemon::start), the resolution of its *)
(* entries against the portal's list (`resolve_trainees`, `resolve_against`) *)
(* and the worker's own resolution, against the list as it is by then, of    *)
(* each trainee it is asked to submit (client.py, `_resolve_trainee`).       *)
(*                                                                          *)
(* The recovery gate and the run itself are BatchEngine's: here a run hands  *)
(* over the resolved trainees in order and may end after any of them.        *)
(***************************************************************************)
EXTENDS Naturals, Sequences, FiniteSets, Functions

CONSTANTS Ids,         \* trainee ids
          Written,     \* names as a job or the portal spells them
          Norm,        \* normalize_name: spelling -> spelling
          Blank,       \* the empty spelling
          None,        \* an absent field
          Jobs,        \* what a job file or a request may say
          Portals,     \* the trainee list when a batch starts
          MaxChanges   \* bound: edits of that list while the batch starts and runs

ASSUME NormAssumption == Norm \in [Written -> Written] /\ \A w \in Written : Norm[Norm[w]] = Norm[w]
ASSUME BlankAssumption == Blank \in Written
ASSUME NoneAssumption == None \notin Ids \cup Written

Entries == [id : Ids \cup {None, Blank}, name : Written \cup {None}]

Person == [id : Ids, name : Written]

ASSUME JobsAssumption ==
  \A j \in Jobs :
    /\ j.single = None \/ j.single \in Entries
    /\ j.batch = None \/ j.batch \in Seq(Entries)
    /\ j.session \in BOOLEAN

ASSUME PortalsAssumption == Portals \subseteq Seq(Person)
ASSUME MaxChangesAssumption == MaxChanges \in Nat

VARIABLES
  path,       \* "cli" or "daemon"
  job,        \* [single, batch, session]: the two forms, the session's fields all filled
  pc,
  portal,     \* the portal's list, now
  listing,    \* the list that was fetched
  next,       \* entries looked at so far, plus one
  resolved,   \* ids, in the order of their entries
  problems,   \* indices of the entries that resolve to nobody
  handed,     \* trainees handed to the worker
  posted,     \* ids the worker submitted
  exit,       \* how it ended
  changes

decided == <<path, job>>
work == <<listing, next, resolved, problems, handed>>
rosterVars == <<decided, pc, portal, work, posted, exit, changes>>

-----------------------------------------------------------------------------
Asked == IF job.batch = None THEN << >> ELSE job.batch

(* key_of: the id wins, else the raw name. *)
Key(entry) == IF entry.id # None THEN entry.id ELSE entry.name

(* What a list says of an entry: the rows it may be. *)
Rows(list, entry) ==
  IF entry.id # None
  THEN {i \in DOMAIN list : list[i].id = entry.id}
  ELSE {i \in DOMAIN list : Norm[list[i].name] = Norm[entry.name]}

(* A repeated id names one person; two rows of one name are two people. *)
Found(list, entry) ==
  /\ Rows(list, entry) # {}
  /\ entry.id = None => Cardinality(Rows(list, entry)) = 1

Chosen(list, entry) == list[CHOOSE i \in Rows(list, entry) : TRUE].id

(* The worker: a blank id is no id, and a blank name is missing data. *)
WorkerFinds(list, entry) ==
  LET asked == IF entry.id = Blank THEN [entry EXCEPT !.id = None] ELSE entry
  IN  IF asked.id = None /\ (asked.name = None \/ Norm[asked.name] = Blank) THEN {}
      ELSE IF Found(list, asked) THEN {Chosen(list, asked)} ELSE {}

(* Mutation: the worker is told the name it is to look for. *)
RequestByName(id) ==
  [id |-> None,
   name |-> LET i == CHOOSE j \in DOMAIN listing : listing[j].id = id IN listing[i].name]

(* Resolved entries are submitted by id only. *)
Request(id) == [id |-> id, name |-> None]

-----------------------------------------------------------------------------
RosterInit ==
  /\ path \in {"cli", "daemon"}
  /\ job \in Jobs
  /\ pc = "plan"
  /\ portal \in Portals
  /\ listing = << >> /\ next = 1 /\ resolved = << >> /\ problems = << >> /\ handed = 0
  /\ posted = {} /\ exit = "none" /\ changes = 0

End(how) ==
  /\ pc' = "done" /\ exit' = how
  /\ UNCHANGED <<decided, portal, work, posted, changes>>

Goes(to) ==
  /\ pc' = to
  /\ UNCHANGED <<decided, portal, work, posted, exit, changes>>

(* plan(): exactly one of the two forms, and everybody named somehow. *)
PlannedByCli ==
  /\ job.single = None /\ job.batch # None
  /\ Asked # << >>
  /\ \A i \in DOMAIN Asked : Key(Asked[i]) # None

(* A request has the batch form only; a blank field is refused too. *)
PlannedByDaemon ==
  /\ Asked # << >> /\ job.session
  /\ \A i \in DOMAIN Asked : Key(Asked[i]) \notin {None, Blank}

PlanSingle ==
  /\ pc = "plan" /\ path = "cli"
  /\ job.single # None /\ job.batch = None /\ Key(job.single) # None
  /\ End("single run")

PlanRefused ==
  /\ pc = "plan"
  /\ IF path = "cli"
     THEN /\ ~ PlannedByCli
          /\ ~ (job.single # None /\ job.batch = None /\ Key(job.single) # None)
     ELSE job.single # None \/ job.batch = None \/ ~ PlannedByDaemon
  /\ End("bad job")

PlanBatch ==
  /\ pc = "plan"
  /\ IF path = "cli" THEN PlannedByCli
     ELSE job.single = None /\ job.batch # None /\ PlannedByDaemon
  /\ Goes("connect")

(* connect and ensure_session *)
Connect ==
  /\ pc = "connect"
  /\ Goes("list") \/ End("no session")

ListTrainees ==
  /\ pc = "list"
  /\ \/ /\ listing' = portal
        /\ pc' = "resolve"
        /\ UNCHANGED <<decided, portal, next, resolved, problems, handed, posted, exit, changes>>
     \/ End("no list")

(* Mutation: repeats are told by what the entry says. *)
ResolveByKey ==
  /\ pc = "resolve" /\ next <= Len(Asked)
  /\ LET entry == Asked[next] IN
       IF Found(listing, entry)
       THEN /\ resolved' = IF \E i \in 1 .. next - 1 : Key(Asked[i]) = Key(entry) THEN resolved
                           ELSE Append(resolved, Chosen(listing, entry))
            /\ UNCHANGED problems
       ELSE problems' = Append(problems, next) /\ UNCHANGED resolved
  /\ next' = next + 1
  /\ UNCHANGED <<decided, pc, portal, listing, handed, posted, exit, changes>>

(* Mutation: the first problem is the only one looked for. *)
ResolveToFirstProblem ==
  /\ pc = "resolve" /\ next <= Len(Asked)
  /\ LET entry == Asked[next] IN
       IF Found(listing, entry)
       THEN /\ resolved' = IF Chosen(listing, entry) \in Range(resolved) THEN resolved
                           ELSE Append(resolved, Chosen(listing, entry))
            /\ next' = next + 1
            /\ UNCHANGED problems
       ELSE problems' = Append(problems, next) /\ next' = Len(Asked) + 1 /\ UNCHANGED resolved
  /\ UNCHANGED <<decided, pc, portal, listing, handed, posted, exit, changes>>

(* One turn of resolve_against's loop: repeats are told by the canonical id. *)
Resolve ==
  /\ pc = "resolve" /\ next <= Len(Asked)
  /\ LET entry == Asked[next] IN
       IF Found(listing, entry)
       THEN /\ resolved' = IF Chosen(listing, entry) \in Range(resolved) THEN resolved
                           ELSE Append(resolved, Chosen(listing, entry))
            /\ UNCHANGED problems
       ELSE problems' = Append(problems, next) /\ UNCHANGED resolved
  /\ next' = next + 1
  /\ UNCHANGED <<decided, pc, portal, listing, handed, posted, exit, changes>>

(* Mutation: entries that resolve to nobody are left out of the batch. *)
ResolvedWithout ==
  /\ pc = "resolve" /\ next > Len(Asked)
  /\ Goes("run")

Resolved ==
  /\ pc = "resolve" /\ next > Len(Asked)
  /\ IF problems = << >> THEN Goes("run") ELSE End("bad roster")

(* submit_training resolves again before it opens the form. *)
Submit ==
  /\ pc = "run" /\ handed < Len(resolved)
  /\ handed' = handed + 1
  /\ posted' = posted \cup WorkerFinds(portal, Request(resolved[handed + 1]))
  /\ UNCHANGED <<decided, pc, portal, listing, next, resolved, problems, exit, changes>>

RunEnds == pc = "run" /\ End("ran")

-----------------------------------------------------------------------------
(* The portal's own users: somebody registers, leaves or is renamed. *)

Edit(list) ==
  /\ pc # "done" /\ changes < MaxChanges
  /\ portal' = list /\ list # portal
  /\ changes' = changes + 1
  /\ UNCHANGED <<decided, pc, work, posted, exit>>

Registers ==
  \E id \in Ids, name \in Written :
    /\ \A i \in DOMAIN portal : portal[i].id # id
    /\ Edit(Append(portal, [id |-> id, name |-> name]))

Leaves == \E i \in DOMAIN portal : Edit(SubSeq(portal, 1, i - 1) \o SubSeq(portal, i + 1, Len(portal)))

Renamed == \E i \in DOMAIN portal, name \in Written : Edit([portal EXCEPT ![i].name = name])

Finished == pc = "done" /\ UNCHANGED rosterVars

RosterNext ==
  \/ PlanSingle \/ PlanRefused \/ PlanBatch \/ Connect \/ ListTrainees
  \/ Resolve \/ Resolved \/ Submit \/ RunEnds
  \/ Registers \/ Leaves \/ Renamed
  \/ Finished

RosterSpec == RosterInit /\ [][RosterNext]_rosterVars

-----------------------------------------------------------------------------
(* Properties, against a reference: the rows of the list an entry means. *)

Means(entry, i) ==
  IF entry.id # None THEN listing[i].id = entry.id
  ELSE \A j \in DOMAIN listing : (Norm[listing[j].name] = Norm[entry.name]) <=> (j = i)

MeantBy(entry) == {listing[i].id : i \in {j \in DOMAIN listing : Means(entry, j)}}

Meant == UNION {MeantBy(entry) : entry \in Range(Asked)}

FirstMention(id) ==
  CHOOSE k \in DOMAIN Asked :
    /\ id \in MeantBy(Asked[k])
    /\ \A l \in 1 .. k - 1 : id \notin MeantBy(Asked[l])

(* Every variable has the type its declaration says. *)
TypeOK ==
  /\ path \in {"cli", "daemon"}
  /\ pc \in {"plan", "connect", "list", "resolve", "run", "done"}
  /\ portal \in Seq(Person) /\ listing \in Seq(Person)
  /\ resolved \in Seq(Ids) /\ problems \in Seq(Nat) /\ next \in Nat
  /\ handed \in 0 .. Len(resolved) /\ posted \subseteq Ids
  /\ exit \in {"none", "single run", "bad job", "no session", "no list", "bad roster", "ran"}
  /\ changes \in 0 .. MaxChanges

(* A batch runs each person its entries mean once, in the order of their first *)
(* mention, whether by id, by name or by another spelling (main.rs, "collapses *)
(* two entries naming one person ... into a single submission").               *)
EachPersonOnce ==
  pc = "run" =>
    /\ Range(resolved) = Meant
    /\ \A i, j \in DOMAIN resolved : i < j => FirstMention(resolved[i]) < FirstMention(resolved[j])

(* One entry that means nobody, or more than one person, and nobody at all is  *)
(* submitted ("rather than submit a prefix and then discover the problem").    *)
AllOrNobody == posted # {} => \A i \in DOMAIN Asked : MeantBy(Asked[i]) # {}

(* A refused roster is reported whole ("so one run reports all of them").      *)
ReportedWhole ==
  exit = "bad roster" =>
    Range(problems) = {i \in DOMAIN Asked : MeantBy(Asked[i]) = {}}

(* A roster becomes the right list of people, or a whole list of complaints.   *)
ResolvedOrReported == EachPersonOnce /\ ReportedWhole

(* Whoever registers, leaves or changes a name after the list was read, nobody *)
(* is submitted but those whom the entries meant in it.                        *)
OnlyThoseMeant == posted \subseteq Meant

(* Only whole rosters are submitted, and nobody beside them.                    *)
OnlyWholeRosters == AllOrNobody /\ OnlyThoseMeant

=============================================================================
