------------------------- MODULE BatchGroundProofs -------------------------
(***************************************************************************)
(* What BatchEngine takes for granted at its two ends.  CheckpointStore, for  *)
(* any number of processes and of saves: a checkpoint is never torn, since    *)
(* every process has a temporary name of its own, nobody else writes the      *)
(* inode it is filling, and only an inode that is whole and synced is given   *)
(* the slot's name, which no temporary name leads to.  BatchRoster, for every *)
(* job, portal and spelling: the trainees a run is handed are those its       *)
(* entries mean, each once and in order.                                      *)
(***************************************************************************)
EXTENDS CheckpointStore, BatchRoster, SequenceTheorems, FiniteSetTheorems, TLAPS

-----------------------------------------------------------------------------
(* CheckpointStore. *)

Contents == {"none", "part", "whole"}

Types ==
  /\ saves \in 0..MaxSaves
  /\ step \in [Processes -> {"idle", "writing", "written", "synced", "renamed"}]
  /\ handle \in [Processes -> 0..saves] /\ temp \in [Processes -> 0..saves]
  /\ slotNow \in slotDisk /\ slotDisk \subseteq 0..saves
  /\ bytes \in [Inodes -> Contents] /\ onDisk \in [Inodes -> Contents]

(* A process writes the inode that its own temporary name names. *)
WritesItsOwn ==
  \A p \in Processes :
    step[p] \in {"writing", "written", "synced"} => handle[p] # NoInode /\ temp[p] = handle[p]

(* No other name leads to it. *)
Unshared ==
  \A p \in Processes :
    temp[p] # NoInode =>
      /\ temp[p] \notin slotDisk
      /\ \A q \in Processes : temp[q] = temp[p] => q = p

(* How far its bytes have got. *)
SoFar ==
  \A p \in Processes :
    /\ step[p] \in {"written", "synced"} => bytes[handle[p]] = "whole"
    /\ step[p] = "synced" => onDisk[handle[p]] = "whole"

(* Whatever the slot may name is whole, in memory and on the disk. *)
SlotsAreWhole ==
  \A i \in slotDisk \ {NoInode} : bytes[i] = "whole" /\ onDisk[i] = "whole"

IInv == Types /\ WritesItsOwn /\ Unshared /\ SoFar /\ SlotsAreWhole

-----------------------------------------------------------------------------
LEMMA InitHolds == Init => IInv
  BY MaxSavesAssumption DEF Init, IInv, Types, WritesItsOwn, Unshared, SoFar, SlotsAreWhole,
     Inodes, NoInode, Contents

(* A process that leaves its save, and at most gives up its temporary name. *)
LEMMA GivesUp ==
  ASSUME IInv, NEW p \in Processes, Goto(p, "idle"),
         handle' = [handle EXCEPT ![p] = NoInode],
         temp' = temp \/ temp' = [temp EXCEPT ![p] = NoInode],
         slotNow' \in slotDisk', slotDisk' \subseteq slotDisk,
         UNCHANGED <<saves, bytes, onDisk>>
  PROVE  IInv'
  <1> USE MaxSavesAssumption DEF Goto, NoInode, Inodes
  <1>1. Types'  BY DEF IInv, Types
  <1>2. WritesItsOwn'  BY DEF IInv, Types, WritesItsOwn
  <1>3. Unshared'  BY DEF IInv, Types, Unshared
  <1>4. SoFar'  BY DEF IInv, Types, SoFar
  <1>5. SlotsAreWhole'  BY DEF IInv, SlotsAreWhole
  <1> QED BY <1>1, <1>2, <1>3, <1>4, <1>5 DEF IInv

(* A process that goes on with the bytes of its inode. *)
LEMMA Fills ==
  ASSUME IInv, NEW p \in Processes, step[p] \in {"writing", "written"},
         NEW to \in {"writing", "written", "synced"}, Goto(p, to),
         bytes' = bytes \/ \E c \in Contents : bytes' = [bytes EXCEPT ![handle[p]] = c],
         onDisk' = onDisk \/ \E c \in Contents : onDisk' = [onDisk EXCEPT ![handle[p]] = c],
         to # "writing" => bytes'[handle[p]] = "whole",
         to = "synced" => onDisk'[handle[p]] = "whole",
         UNCHANGED <<saves, handle, temp, slotNow, slotDisk>>
  PROVE  IInv'
  <1> USE MaxSavesAssumption DEF Goto, NoInode, Inodes
  <1>1. /\ handle[p] \in Inodes /\ temp[p] = handle[p] /\ handle[p] \notin slotDisk
        /\ \A q \in Processes : temp[q] = handle[p] => q = p
    BY DEF IInv, Types, WritesItsOwn, Unshared
  <1>2. \A i \in Inodes : i # handle[p] => bytes'[i] = bytes[i] /\ onDisk'[i] = onDisk[i]
    BY <1>1 DEF IInv, Types
  <1>3. Types'  BY <1>1 DEF IInv, Types
  <1>4. WritesItsOwn'  BY <1>1 DEF IInv, Types, WritesItsOwn
  <1>5. Unshared'  BY DEF IInv, Unshared
  <1>6. SoFar'
    <2> SUFFICES ASSUME NEW q \in Processes
                 PROVE  /\ step'[q] \in {"written", "synced"} => bytes'[handle[q]] = "whole"
                        /\ step'[q] = "synced" => onDisk'[handle[q]] = "whole"
      BY DEF SoFar
    <2>1. CASE q = p  BY <2>1 DEF IInv, Types
    <2>2. CASE q # p
      <3>1. step'[q] = step[q]  BY <2>2 DEF IInv, Types
      <3>2. step[q] \in {"written", "synced"} => handle[q] \in Inodes /\ handle[q] # handle[p]
        BY <1>1, <2>2 DEF IInv, Types, WritesItsOwn
      <3> QED BY <1>2, <3>1, <3>2 DEF IInv, SoFar
    <2> QED BY <2>1, <2>2
  <1>7. SlotsAreWhole'
    <2>1. \A i \in slotDisk \ {NoInode} : i \in Inodes /\ i # handle[p]
      BY <1>1 DEF IInv, Types
    <2> QED BY <1>2, <2>1 DEF IInv, SlotsAreWhole
  <1> QED BY <1>3, <1>4, <1>5, <1>6, <1>7 DEF IInv

LEMMA CreateKeeps == ASSUME IInv, NEW p \in Processes, Create(p) PROVE IInv'
  <1> USE MaxSavesAssumption DEF Create, At, Goto, NoInode, Inodes, TempPath
  <1> DEFINE inode == IF temp[p] = NoInode THEN saves + 1 ELSE temp[p]
  <1>1. /\ saves' = saves + 1 /\ handle' = [handle EXCEPT ![p] = inode]
        /\ temp' = [temp EXCEPT ![p] = inode] /\ bytes' = [bytes EXCEPT ![inode] = "none"]
        /\ step' = [step EXCEPT ![p] = "writing"] /\ step[p] = "idle"
    OBVIOUS
  <1>2. /\ inode \in Inodes /\ inode \in 0..saves' /\ inode \notin slotDisk
        /\ saves \in Nat /\ saves' \in 0..MaxSaves
        /\ \A q \in Processes : temp[q] = inode => q = p
    BY DEF IInv, Types, Unshared
  <1> HIDE DEF inode
  <1>3. Types'
    <2>1. 0..saves \subseteq 0..saves'  BY <1>1, <1>2
    <2> QED BY <1>1, <1>2, <2>1 DEF IInv, Types, Contents
  <1>4. WritesItsOwn'  BY <1>1, <1>2 DEF IInv, Types, WritesItsOwn
  <1>5. Unshared'  BY <1>1, <1>2 DEF IInv, Types, Unshared
  <1>6. SoFar'
    <2> SUFFICES ASSUME NEW q \in Processes, step'[q] \in {"written", "synced"}
                 PROVE  /\ bytes'[handle'[q]] = "whole"
                        /\ step'[q] = "synced" => onDisk'[handle'[q]] = "whole"
      BY DEF SoFar
    <2>1. q # p /\ step[q] = step'[q] /\ handle'[q] = handle[q]  BY <1>1 DEF IInv, Types
    <2>2. handle[q] \in Inodes /\ handle[q] # inode
      BY <1>2, <2>1 DEF IInv, Types, WritesItsOwn
    <2> QED BY <1>1, <2>1, <2>2 DEF IInv, Types, SoFar
  <1>7. SlotsAreWhole'
    <2>1. \A i \in slotDisk \ {NoInode} : i \in Inodes /\ i # inode
      BY <1>2 DEF IInv, Types
    <2> QED BY <1>1, <2>1 DEF IInv, Types, SlotsAreWhole
  <1> QED BY <1>3, <1>4, <1>5, <1>6, <1>7 DEF IInv

LEMMA RenameKeeps == ASSUME IInv, NEW p \in Processes, Rename(p) PROVE IInv'
  <1> USE MaxSavesAssumption DEF Rename, At, Goto, NoInode, Inodes, TempPath
  <1>1. /\ temp[p] = handle[p] /\ handle[p] \in Inodes
        /\ bytes[handle[p]] = "whole" /\ onDisk[handle[p]] = "whole"
        /\ \A q \in Processes : temp[q] = temp[p] => q = p
    BY DEF IInv, Types, WritesItsOwn, Unshared, SoFar
  <1>2. Types'
    <2>1. temp[p] \in 0..saves /\ 0 \in 0..saves  BY DEF IInv, Types
    <2>2. temp' \in [Processes -> 0..saves]  BY <2>1 DEF IInv, Types
    <2>3. slotNow' \in slotDisk' /\ slotDisk' \subseteq 0..saves  BY <2>1 DEF IInv, Types
    <2>4. step' \in [Processes -> {"idle", "writing", "written", "synced", "renamed"}]
      BY DEF IInv, Types
    <2> QED BY <2>2, <2>3, <2>4 DEF IInv, Types
  <1>3. WritesItsOwn'  BY DEF IInv, Types, WritesItsOwn
  <1>4. Unshared'  BY <1>1 DEF IInv, Types, Unshared
  <1>5. SoFar'  BY DEF IInv, Types, SoFar
  <1>6. SlotsAreWhole'  BY <1>1 DEF IInv, SlotsAreWhole
  <1> QED BY <1>2, <1>3, <1>4, <1>5, <1>6 DEF IInv

LEMMA PowerLossKeeps == ASSUME IInv, PowerLoss PROVE IInv'
  <1> USE MaxSavesAssumption DEF PowerLoss, NoInode, Inodes
  <1>1. /\ slotNow' \in slotDisk /\ slotDisk' = {slotNow'} /\ onDisk' = bytes'
        /\ bytes' \in [Inodes -> Contents]
        /\ \A i \in Inodes : bytes'[i] \in {onDisk[i], bytes[i]}
        /\ \A p \in Processes : temp'[p] \in {NoInode, temp[p]}
        /\ temp' \in [Processes -> {NoInode} \cup Inodes]
    BY DEF Contents
  <1>2. Types'
    <2>1. temp' \in [Processes -> 0..saves]  BY <1>1 DEF IInv, Types
    <2> QED BY <1>1, <2>1 DEF IInv, Types
  <1>3. WritesItsOwn' /\ SoFar'  BY DEF WritesItsOwn, SoFar
  <1>4. Unshared'  BY <1>1 DEF IInv, Unshared
  <1>5. SlotsAreWhole'
    <2>1. \A i \in slotDisk' \ {NoInode} : i \in slotDisk /\ i \in Inodes
      BY <1>1 DEF IInv, Types
    <2> QED BY <1>1, <2>1 DEF IInv, SlotsAreWhole
  <1> QED BY <1>2, <1>3, <1>4, <1>5 DEF IInv

LEMMA StepKeeps == IInv /\ [Next]_vars => IInv'
  <1> SUFFICES ASSUME IInv, [Next]_vars PROVE IInv'  OBVIOUS
  <1> USE DEF At
  <1>1. ASSUME NEW p \in Processes, WriteSome(p) PROVE IInv'
    <2>1. Goto(p, "writing")  BY <1>1 DEF WriteSome, Goto, IInv, Types
    <2> QED BY <1>1, <2>1, Fills DEF WriteSome, Contents
  <1>2. ASSUME NEW p \in Processes, WriteRest(p) PROVE IInv'
    <2>1. handle[p] \in Inodes
      BY <1>2, MaxSavesAssumption DEF WriteRest, IInv, Types, WritesItsOwn, NoInode, Inodes
    <2>2. bytes'[handle[p]] = "whole"  BY <1>2, <2>1 DEF WriteRest, IInv, Types
    <2> QED BY <1>2, <2>2, Fills DEF WriteRest, Contents
  <1>3. ASSUME NEW p \in Processes, SyncFile(p) PROVE IInv'
    <2>1. handle[p] \in Inodes
      BY <1>3, MaxSavesAssumption DEF SyncFile, IInv, Types, WritesItsOwn, NoInode, Inodes
    <2>2. bytes[handle[p]] = "whole" /\ onDisk'[handle[p]] = "whole"
      BY <1>3, <2>1 DEF SyncFile, IInv, Types, SoFar
    <2> QED BY <1>3, <2>2, Fills DEF SyncFile, Contents
  <1>4. ASSUME NEW p \in Processes, SaveFails(p) PROVE IInv'
    BY <1>4, GivesUp DEF SaveFails, TempPath, IInv, Types
  <1>5. ASSUME NEW p \in Processes, SyncDirectory(p) \/ DirectoryNotSynced(p) PROVE IInv'
    BY <1>5, GivesUp DEF SyncDirectory, DirectoryNotSynced, SaveOk, IInv, Types
  <1>6. ASSUME NEW p \in Processes, Kill(p) PROVE IInv'
    BY <1>6, GivesUp DEF Kill, IInv, Types
  <1>7. CASE UNCHANGED vars
    BY <1>7 DEF vars, IInv, Types, WritesItsOwn, Unshared, SoFar, SlotsAreWhole
  <1> QED BY <1>1, <1>2, <1>3, <1>4, <1>5, <1>6, <1>7, CreateKeeps, RenameKeeps, PowerLossKeeps DEF Next

THEOREM Invariance == Spec => []IInv
  BY InitHolds, StepKeeps, PTL DEF Spec

-----------------------------------------------------------------------------
(* Theorems. *)

(* A reader finds no checkpoint or a whole one, whoever saves, dies or is cut   *)
(* off, and so it is of whatever a power loss could leave under the slot's name. *)
THEOREM SlotIsNeverTorn == Spec => []NeverTornAnywhere
  <1>1. IInv => NeverTorn  BY DEF IInv, Types, SlotsAreWhole, NeverTorn
  <1>2. IInv => NeverTornOnDisk  BY DEF IInv, SlotsAreWhole, NeverTornOnDisk
  <1>3. IInv => NeverTornAnywhere  BY <1>1, <1>2 DEF NeverTornAnywhere
  <1> QED BY <1>3, Invariance, PTL

(* The file under the slot's name is replaced and never written. *)
THEOREM OnlyReplaced == Spec => SlotIsReplacedWhole
  <1>1. IInv /\ IInv' => (slotNow # NoInode /\ slotNow' = slotNow => bytes'[slotNow] = bytes[slotNow])
    BY DEF IInv, Types, SlotsAreWhole
  <1>2. IInv /\ IInv' => [slotNow # NoInode /\ slotNow' = slotNow => bytes'[slotNow] = bytes[slotNow]]_vars
    BY <1>1
  <1> QED BY <1>2, Invariance, PTL DEF SlotIsReplacedWhole


-----------------------------------------------------------------------------
(* BatchRoster. *)

(* Whom each of the entries means. *)
Meanings == [k \in DOMAIN Asked |-> MeantBy(Asked[k])]

(* Entry k is the first to mean this person. *)
Mentions(k, id) == id \in Meanings[k] /\ \A l \in 1 .. k - 1 : id \notin Meanings[l]

(* How far the loop has come, and that nobody is submitted before its end. *)
Progress ==
  /\ job \in Jobs
  /\ next \in 1 .. Len(Asked) + 1
  /\ pc \in {"plan", "connect", "list"} => next = 1 /\ posted = {}
  /\ pc # "done" => exit = "none"
  /\ (pc = "run" \/ posted # {}) => next = Len(Asked) + 1 /\ problems = << >>
  /\ exit = "bad roster" => next = Len(Asked) + 1

(* Everyone meant so far is in the roster, and nobody else. *)
Gathered == Range(resolved) = UNION {Meanings[k] : k \in 1 .. next - 1}

(* In the order of first mentions. *)
InOrder ==
  /\ \A i \in DOMAIN resolved : \E k \in 1 .. next - 1 : Mentions(k, resolved[i])
  /\ \A i, j \in DOMAIN resolved : i < j =>
       \A k, l \in 1 .. next - 1 :
         Mentions(k, resolved[i]) /\ Mentions(l, resolved[j]) => k < l

(* Every entry so far that means nobody is a problem, and nothing else is. *)
Reported == Range(problems) = {k \in 1 .. next - 1 : Meanings[k] = {}}

RosterInv ==
  TypeOK /\ Progress /\ Gathered /\ InOrder /\ Reported /\ posted \subseteq Range(resolved)

(* A sequence of the set, with one more at its end. *)
LEMMA RangeAppended ==
  ASSUME NEW S, NEW s \in Seq(S), NEW x \in S
  PROVE  /\ Append(s, x) \in Seq(S) /\ Len(Append(s, x)) = Len(s) + 1 /\ Len(s) \in Nat
         /\ DOMAIN s = 1 .. Len(s) /\ DOMAIN Append(s, x) = 1 .. Len(s) + 1
         /\ \A i \in 1 .. Len(s) : Append(s, x)[i] = s[i]
         /\ Append(s, x)[Len(s) + 1] = x
         /\ Range(Append(s, x)) = Range(s) \cup {x}
<1>1. Append(s, x) \in Seq(S) /\ Len(Append(s, x)) = Len(s) + 1 /\ Len(s) \in Nat
      /\ \A i \in 1 .. Len(s) : Append(s, x)[i] = s[i]
      /\ Append(s, x)[Len(s) + 1] = x
  BY AppendProperties, LenProperties
<1>2. DOMAIN s = 1 .. Len(s) /\ DOMAIN Append(s, x) = 1 .. Len(s) + 1
  BY <1>1, LenProperties
<1> DEFINE t == Append(s, x)
<1>3. Range(t) = Range(s) \cup {x}
  <2> HIDE DEF t
  <2>1. \A i \in 1 .. Len(s) + 1 : i \in 1 .. Len(s) \/ i = Len(s) + 1  BY <1>1
  <2>2. \A i \in 1 .. Len(s) : i \in 1 .. Len(s) + 1  BY <1>1
  <2>3. Len(s) + 1 \in 1 .. Len(s) + 1  BY <1>1
  <2>4. DOMAIN t = 1 .. Len(s) + 1 /\ t[Len(s) + 1] = x /\ \A i \in 1 .. Len(s) : t[i] = s[i]
    BY <1>1, <1>2 DEF t
  <2> QED BY <1>2, <2>1, <2>2, <2>3, <2>4 DEF Range
<1> QED BY <1>1, <1>2, <1>3

LEMMA AskedType ==
  ASSUME job \in Jobs
  PROVE  Asked \in Seq(Entries) /\ DOMAIN Asked = 1 .. Len(Asked) /\ Len(Asked) \in Nat
<1>1. Asked \in Seq(Entries)
  <2>1. CASE job.batch = None  BY <2>1 DEF Asked
  <2>2. CASE job.batch # None  BY <2>2, JobsAssumption DEF Asked
  <2> QED BY <2>1, <2>2
<1> QED BY <1>1, LenProperties

(* What the loop looks for is what the entry means: the rows of its id, or the  *)
(* one row of its name.                                                        *)
LEMMA FoundIsMeant ==
  ASSUME listing \in Seq(Person), NEW entry
  PROVE  /\ Found(listing, entry) =>
              MeantBy(entry) = {Chosen(listing, entry)} /\ Chosen(listing, entry) \in Ids
         /\ ~ Found(listing, entry) => MeantBy(entry) = {}
<1> DEFINE rows == Rows(listing, entry)
<1>1. DOMAIN listing = 1 .. Len(listing) /\ Len(listing) \in Nat
      /\ \A i \in DOMAIN listing : listing[i].id \in Ids
  <2>1. DOMAIN listing = 1 .. Len(listing) /\ Len(listing) \in Nat  BY LenProperties
  <2>2. \A i \in 1 .. Len(listing) : listing[i] \in Person  BY ElementOfSeq
  <2> QED BY <2>1, <2>2 DEF Person
<1>2. rows \subseteq DOMAIN listing  BY DEF Rows
<1>3. IsFiniteSet(rows)
  <2>1. IsFiniteSet(1 .. Len(listing))  BY <1>1, FS_Interval
  <2> QED BY <1>1, <1>2, <2>1, FS_Subset
<1>4. rows # {} => Chosen(listing, entry) \in {listing[i].id : i \in rows}
  BY DEF Chosen
<1>5. CASE entry.id # None
  <2>1. MeantBy(entry) = {listing[i].id : i \in rows}  BY <1>5 DEF MeantBy, Means, Rows
  <2>2. \A i \in rows : listing[i].id = entry.id  BY <1>5 DEF Rows
  <2>3. Found(listing, entry) <=> rows # {}  BY <1>5 DEF Found
  <2>4. rows # {} => MeantBy(entry) = {entry.id} /\ Chosen(listing, entry) = entry.id
    BY <1>4, <2>1, <2>2
  <2>5. rows # {} => Chosen(listing, entry) \in Ids  BY <1>1, <1>2, <1>4
  <2> QED BY <2>1, <2>3, <2>4, <2>5
<1>6. CASE entry.id = None
  <2>1. \A i \in DOMAIN listing : i \in rows <=> Norm[listing[i].name] = Norm[entry.name]
    BY <1>6 DEF Rows
  <2>2. \A i \in DOMAIN listing : Means(entry, i) <=> rows = {i}
    BY <1>2, <1>6, <2>1 DEF Means
  <2>3. Found(listing, entry) <=> \E i : rows = {i}
    BY <1>3, <1>6, FS_Singleton, FS_EmptySet DEF Found
  <2>4. CASE \E i : rows = {i}
    <3>1. PICK i : rows = {i}  BY <2>4
    <3>2. i \in DOMAIN listing /\ {j \in DOMAIN listing : Means(entry, j)} = {i}
      BY <1>2, <2>2, <3>1
    <3>3. MeantBy(entry) = {listing[i].id}  BY <3>2 DEF MeantBy
    <3>4. Chosen(listing, entry) = listing[i].id  BY <3>1 DEF Chosen
    <3> QED BY <1>1, <2>3, <2>4, <3>2, <3>3, <3>4
  <2>5. CASE ~ \E i : rows = {i}
    <3>1. {j \in DOMAIN listing : Means(entry, j)} = {}  BY <2>2, <2>5
    <3>2. MeantBy(entry) = {}  BY <3>1 DEF MeantBy
    <3> QED BY <2>3, <2>5, <3>2
  <2> QED BY <2>4, <2>5
<1> QED BY <1>5, <1>6

LEMMA RosterStart == RosterInit => RosterInv
<1> SUFFICES ASSUME RosterInit PROVE RosterInv  OBVIOUS
<1>1. /\ listing = << >> /\ resolved = << >> /\ problems = << >> /\ next = 1 /\ handed = 0
      /\ posted = {} /\ exit = "none" /\ pc = "plan" /\ job \in Jobs /\ changes = 0
      /\ portal \in Seq(Person) /\ path \in {"cli", "daemon"}
  BY PortalsAssumption DEF RosterInit
<1>2. listing \in Seq(Person) /\ resolved \in Seq(Ids) /\ problems \in Seq(Nat)
      /\ Len(resolved) = 0 /\ DOMAIN resolved = {} /\ DOMAIN problems = {}
  BY <1>1
<1>3. TypeOK  BY <1>1, <1>2, MaxChangesAssumption DEF TypeOK
<1>4. Progress  BY <1>1, AskedType DEF Progress
<1>5. Gathered /\ InOrder /\ Reported
  BY <1>1, <1>2 DEF Gathered, InOrder, Reported, Range
<1> QED BY <1>1, <1>3, <1>4, <1>5 DEF RosterInv

(* The meanings are of the job and of the listing. *)
LEMMA SameMeanings ==
  ASSUME UNCHANGED <<job, listing>>
  PROVE  Asked' = Asked /\ Meanings' = Meanings
<1>1. Asked' = Asked  BY DEF Asked
<1>2. \A e : MeantBy(e)' = MeantBy(e)  BY DEF MeantBy, Means
<1> QED BY <1>1, <1>2 DEF Meanings

(* Nothing the loop keeps is touched. *)
LEMMA KeptAsIs ==
  ASSUME RosterInv, UNCHANGED <<job, listing, next, resolved, problems>>, TypeOK', Progress',
         posted' \subseteq Range(resolved)
  PROVE  RosterInv'
<1>1. Asked' = Asked /\ Meanings' = Meanings  BY SameMeanings
<1> QED BY <1>1 DEF RosterInv, Gathered, InOrder, Mentions, Reported

(* An entry that mentions nobody for the first time leaves the order alone. *)
LEMMA OrderKept ==
  ASSUME InOrder, resolved' = resolved, Meanings' = Meanings,
         1 .. next' - 1 = (1 .. next - 1) \cup {next},
         \A i \in DOMAIN resolved : ~ Mentions(next, resolved[i])
  PROVE  InOrder'
<1>1. \A k, id : Mentions(k, id)' <=> Mentions(k, id)  BY DEF Mentions
<1>2. \A i \in DOMAIN resolved : \E k \in 1 .. next' - 1 : Mentions(k, resolved[i])
  BY DEF InOrder
<1>3. ASSUME NEW i \in DOMAIN resolved, NEW j \in DOMAIN resolved, i < j,
             NEW k \in 1 .. next' - 1, NEW l \in 1 .. next' - 1,
             Mentions(k, resolved[i]), Mentions(l, resolved[j])
      PROVE  k < l
  <2>1. k \in 1 .. next - 1 /\ l \in 1 .. next - 1  BY <1>3
  <2> QED BY <1>3, <2>1 DEF InOrder
<1> QED BY <1>1, <1>2, <1>3 DEF InOrder

(* The whole roster has been looked at. *)
LEMMA LookedAtAll ==
  ASSUME Progress, next > Len(Asked) \/ next = Len(Asked) + 1
  PROVE  next = Len(Asked) + 1 /\ 1 .. next - 1 = DOMAIN Asked
<1>1. DOMAIN Asked = 1 .. Len(Asked) /\ Len(Asked) \in Nat  BY AskedType DEF Progress
<1>2. next \in 1 .. Len(Asked) + 1  BY DEF Progress
<1> DEFINE n == Len(Asked)
<1> HIDE DEF n
<1>3. n \in Nat /\ next \in 1 .. n + 1 /\ (next > n \/ next = n + 1)  BY <1>1, <1>2 DEF n
<1>4. next = n + 1 /\ next - 1 = n  BY <1>3
<1> QED BY <1>1, <1>4 DEF n

(* One entry more, one person or one problem more. *)
LEMMA ResolveKeeps ==
  ASSUME RosterInv, Resolve
  PROVE  RosterInv'
<1> DEFINE entry == Asked[next]
<1>1. /\ TypeOK /\ Progress /\ Gathered /\ InOrder /\ Reported /\ posted \subseteq Range(resolved)
      /\ pc = "resolve" /\ next <= Len(Asked) /\ next' = next + 1
      /\ UNCHANGED <<decided, pc, portal, listing, handed, posted, exit, changes>>
  BY DEF RosterInv, Resolve
<1>2. Asked' = Asked /\ Meanings' = Meanings  BY <1>1, SameMeanings DEF decided
<1>3. /\ DOMAIN Asked = 1 .. Len(Asked) /\ Len(Asked) \in Nat
      /\ next \in 1 .. Len(Asked) /\ next \in Nat /\ job' = job /\ path' = path
  BY <1>1, AskedType DEF Progress, decided
<1>4. /\ next' \in 1 .. Len(Asked) + 1 /\ next' \in Nat
      /\ 1 .. next' - 1 = (1 .. next - 1) \cup {next} /\ next \notin 1 .. next - 1
      /\ \A k \in 1 .. next - 1 : k < next
  BY <1>1, <1>3
<1>5. Meanings[next] = MeantBy(entry)  BY <1>3 DEF Meanings
<1>6. /\ resolved \in Seq(Ids) /\ problems \in Seq(Nat) /\ listing \in Seq(Person)
      /\ handed \in 0 .. Len(resolved)
  BY <1>1 DEF TypeOK
<1>7. posted = {} /\ posted' = {}
  BY <1>1, <1>3 DEF Progress
<1>8. Progress'
  BY <1>1, <1>2, <1>3, <1>4, <1>7 DEF Progress
<1>9. CASE /\ Found(listing, entry) /\ Chosen(listing, entry) \in Range(resolved)
           /\ resolved' = resolved /\ problems' = problems
  <2>1. Meanings[next] = {Chosen(listing, entry)}
    BY <1>5, <1>6, <1>9, FoundIsMeant
  <2>2. TypeOK'  BY <1>1, <1>3, <1>4, <1>9 DEF TypeOK
  <2>3. Gathered'  BY <1>1, <1>2, <1>4, <1>9, <2>1 DEF Gathered
  <2>4. Reported'  BY <1>1, <1>2, <1>4, <1>9, <2>1 DEF Reported
  <2>5. \A id \in Range(resolved) : ~ Mentions(next, id)
    BY <1>1 DEF Gathered, Mentions
  <2>6. \A i \in DOMAIN resolved : resolved[i] \in Range(resolved)  BY DEF Range
  <2>7. InOrder'  BY <1>1, <1>2, <1>4, <1>9, <2>5, <2>6, OrderKept
  <2> QED BY <1>7, <1>8, <2>2, <2>3, <2>4, <2>7 DEF RosterInv
<1>10. CASE /\ Found(listing, entry) /\ Chosen(listing, entry) \notin Range(resolved)
            /\ resolved' = Append(resolved, Chosen(listing, entry)) /\ problems' = problems
  <2> DEFINE new == Chosen(listing, entry)
  <2>1. Meanings[next] = {new} /\ new \in Ids
    BY <1>5, <1>6, <1>10, FoundIsMeant
  <2> HIDE DEF new
  <2>2. /\ resolved' \in Seq(Ids) /\ Len(resolved') = Len(resolved) + 1 /\ Len(resolved) \in Nat
        /\ DOMAIN resolved = 1 .. Len(resolved) /\ DOMAIN resolved' = 1 .. Len(resolved) + 1
        /\ \A i \in 1 .. Len(resolved) : resolved'[i] = resolved[i]
        /\ resolved'[Len(resolved) + 1] = new
        /\ Range(resolved') = Range(resolved) \cup {new}
    BY <1>6, <1>10, <2>1, RangeAppended DEF new
  <2>t. handed \in 0 .. Len(resolved) + 1  BY <1>6, <2>2
  <2>3. TypeOK'  BY <1>1, <1>3, <1>4, <1>7, <1>10, <2>2, <2>t DEF TypeOK
  <2>g. {Meanings[k] : k \in 1 .. next' - 1} = {Meanings[k] : k \in 1 .. next - 1} \cup {Meanings[next]}
    BY <1>4
  <2> DEFINE before == {Meanings[k] : k \in 1 .. next - 1}
             after == {Meanings[k] : k \in 1 .. next' - 1}
  <2>h. {Meanings[k] : k \in 1 .. next - 1}' = after  BY <1>2
  <2>i. Range(resolved) = UNION before  BY <1>1 DEF Gathered
  <2>u. UNION after = (UNION before) \cup {new}
    <3>1. after = before \cup {{new}}  BY <2>1, <2>g
    <3> HIDE DEF before, after
    <3>2. \A x : x \in UNION after <=> x \in UNION before \/ x = new
      <4>1. \A x : x \in UNION after <=> \E m \in after : x \in m  OBVIOUS
      <4>2. \A m : m \in after <=> m \in before \/ m = {new}  BY <3>1
      <4> QED BY <4>1, <4>2
    <3> QED BY <3>2
  <2>4. Gathered'
    <3> HIDE DEF before, after
    <3>1. Range(resolved') = UNION after  BY <2>2, <2>i, <2>u
    <3> QED BY <2>h, <3>1 DEF Gathered
  <2>5. Reported'  BY <1>1, <1>2, <1>4, <1>10, <2>1 DEF Reported
  <2>6. \A id \in Range(resolved) : ~ Mentions(next, id)
    BY <1>1 DEF Gathered, Mentions
  <2>7. \A k \in 1 .. next - 1 : ~ Mentions(k, new)
    BY <1>1, <1>10 DEF Gathered, Mentions, new
  <2>8. Mentions(next, new)
    BY <1>1, <1>10, <2>1 DEF Gathered, Mentions, new
  <2>9. \A i \in 1 .. Len(resolved) : resolved[i] \in Range(resolved)  BY <2>2 DEF Range
  <2>10. \A k, id : Mentions(k, id)' <=> Mentions(k, id)  BY <1>2 DEF Mentions
  <2>11. \A i \in 1 .. Len(resolved) + 1 : i \in 1 .. Len(resolved) \/ i = Len(resolved) + 1
    BY <2>2
  <2>12. \A i \in DOMAIN resolved' : \E k \in 1 .. next' - 1 : Mentions(k, resolved'[i])
    BY <1>1, <1>4, <2>2, <2>8, <2>11 DEF InOrder
  <2>13. ASSUME NEW i \in DOMAIN resolved', NEW j \in DOMAIN resolved', i < j,
                NEW k \in 1 .. next' - 1, NEW l \in 1 .. next' - 1,
                Mentions(k, resolved'[i]), Mentions(l, resolved'[j])
         PROVE  k < l
    <3>1. i \in 1 .. Len(resolved) /\ resolved'[i] = resolved[i]  BY <2>2, <2>11, <2>13
    <3>2. k \in 1 .. next - 1  BY <1>4, <2>6, <2>9, <2>13, <3>1
    <3>3. CASE j \in 1 .. Len(resolved)
      <4>1. l \in 1 .. next - 1 /\ resolved'[j] = resolved[j]
        BY <1>4, <2>2, <2>6, <2>9, <2>13, <3>3
      <4> QED BY <1>1, <2>2, <2>13, <3>1, <3>2, <3>3, <4>1 DEF InOrder
    <3>4. CASE j = Len(resolved) + 1
      <4>1. l = next  BY <1>4, <2>2, <2>7, <2>13, <3>4
      <4> QED BY <1>4, <3>2, <4>1
    <3> QED BY <2>2, <2>11, <3>3, <3>4
  <2>14. InOrder'  BY <2>10, <2>12, <2>13 DEF InOrder
  <2> QED BY <1>7, <1>8, <2>3, <2>4, <2>5, <2>14 DEF RosterInv
<1>11. CASE /\ ~ Found(listing, entry)
            /\ problems' = Append(problems, next) /\ resolved' = resolved
  <2>1. Meanings[next] = {}  BY <1>5, <1>6, <1>11, FoundIsMeant
  <2>2. problems' \in Seq(Nat) /\ Range(problems') = Range(problems) \cup {next}
    BY <1>3, <1>6, <1>11, RangeAppended
  <2>3. TypeOK'  BY <1>1, <1>3, <1>4, <1>11, <2>2 DEF TypeOK
  <2>4. Gathered'  BY <1>1, <1>2, <1>4, <1>11, <2>1 DEF Gathered
  <2>5. Reported'  BY <1>1, <1>2, <1>4, <2>1, <2>2 DEF Reported
  <2>6. \A id : ~ Mentions(next, id)  BY <2>1 DEF Mentions
  <2>7. InOrder'  BY <1>1, <1>2, <1>4, <1>11, <2>6, OrderKept
  <2> QED BY <1>7, <1>8, <2>3, <2>4, <2>5, <2>7 DEF RosterInv
<1> QED BY <1>9, <1>10, <1>11 DEF Resolve

(* The worker, asked for an id, finds that id or nobody. *)
LEMMA WorkerFindsTheId ==
  ASSUME NEW list, NEW id
  PROVE  WorkerFinds(list, Request(id)) \subseteq {id}
<1>1. CASE id = None \/ id = Blank
  <2>1. Blank # None  BY BlankAssumption, NoneAssumption
  <2>2. [id |-> id, name |-> None].id = id /\ [id |-> id, name |-> None].name = None  OBVIOUS
  <2>3. LET asked == IF id = Blank THEN [[id |-> id, name |-> None] EXCEPT !.id = None]
                     ELSE [id |-> id, name |-> None]
        IN  asked.id = None /\ asked.name = None
    BY <1>1, <2>1
  <2> QED BY <1>1, <2>1, <2>2, <2>3 DEF WorkerFinds, Request
<1>2. CASE id # None /\ id # Blank
  <2> DEFINE r == Request(id)
  <2>1. r.id = id  BY DEF Request
  <2> HIDE DEF r
  <2>2. \A i \in Rows(list, r) : list[i].id = id  BY <1>2, <2>1 DEF Rows
  <2>3. Found(list, r) => Chosen(list, r) = id
    BY <2>2 DEF Found, Chosen
  <2>4. WorkerFinds(list, r) = IF Found(list, r) THEN {Chosen(list, r)} ELSE {}
    BY <1>2, <2>1 DEF WorkerFinds
  <2> QED BY <2>3, <2>4 DEF r
<1> QED BY <1>1, <1>2

LEMMA SubmitKeeps ==
  ASSUME RosterInv, Submit
  PROVE  RosterInv'
<1>1. /\ TypeOK /\ Progress /\ pc = "run" /\ handed < Len(resolved) /\ handed' = handed + 1
      /\ posted' = posted \cup WorkerFinds(portal, Request(resolved[handed + 1]))
      /\ UNCHANGED <<decided, pc, portal, listing, next, resolved, problems, exit, changes>>
      /\ posted \subseteq Range(resolved)
  BY DEF RosterInv, Submit
<1>2. /\ handed \in Nat /\ Len(resolved) \in Nat /\ DOMAIN resolved = 1 .. Len(resolved)
      /\ \A i \in DOMAIN resolved : resolved[i] \in Ids
  <2>1. resolved \in Seq(Ids) /\ handed \in 0 .. Len(resolved)  BY <1>1 DEF TypeOK
  <2> QED BY <2>1, LenProperties, ElementOfSeq
<1>3. handed + 1 \in DOMAIN resolved  BY <1>1, <1>2
<1>4. posted' \subseteq Range(resolved) /\ Range(resolved) \subseteq Ids
  BY <1>1, <1>2, <1>3, WorkerFindsTheId DEF Range
<1>t. handed' \in 0 .. Len(resolved)  BY <1>1, <1>2
<1>5. TypeOK'  BY <1>1, <1>4, <1>t DEF TypeOK, decided
<1>6. Asked' = Asked  BY <1>1, SameMeanings DEF decided
<1>7. Progress'  BY <1>1, <1>6 DEF Progress, decided
<1> QED BY <1>1, <1>4, <1>5, <1>7, KeptAsIs DEF decided

(* The portal changes, and nothing of the run does. *)
LEMMA EditKeeps ==
  ASSUME RosterInv, Registers \/ Leaves \/ Renamed
  PROVE  RosterInv'
<1>1. \E list : Edit(list)  BY DEF Registers, Leaves, Renamed
<1>2. /\ pc # "done" /\ changes < MaxChanges /\ changes' = changes + 1
      /\ UNCHANGED <<decided, pc, work, posted, exit>>
  BY <1>1 DEF Edit
<1>p. portal \in Seq(Person)  BY DEF RosterInv, TypeOK
<1>d. DOMAIN portal = 1 .. Len(portal) /\ Len(portal) \in Nat
      /\ \A i \in 1 .. Len(portal) : portal[i] \in Person
  BY <1>p, LenProperties, ElementOfSeq
<1>3. portal' \in Seq(Person)
  <2>1. CASE Registers
    <3>1. PICK id \in Ids, name \in Written : portal' = Append(portal, [id |-> id, name |-> name])
      BY <2>1 DEF Registers, Edit
    <3>2. [id |-> id, name |-> name] \in Person  BY DEF Person
    <3> QED BY <1>p, <3>1, <3>2, AppendProperties
  <2>2. CASE Leaves
    <3>1. PICK i \in DOMAIN portal :
            portal' = SubSeq(portal, 1, i - 1) \o SubSeq(portal, i + 1, Len(portal))
      BY <2>2 DEF Leaves, Edit
    <3>2. i \in Int /\ i - 1 \in Int /\ i + 1 \in Int /\ Len(portal) \in Int
          /\ (\A j \in 1 .. i - 1 : portal[j] \in Person)
          /\ \A j \in i + 1 .. Len(portal) : portal[j] \in Person
      BY <1>d
    <3>3. SubSeq(portal, 1, i - 1) \in Seq(Person)  BY <3>2, SubSeqProperties
    <3>4. SubSeq(portal, i + 1, Len(portal)) \in Seq(Person)  BY <3>2, SubSeqProperties
    <3> QED BY <3>1, <3>3, <3>4, ConcatProperties
  <2>3. CASE Renamed
    <3>1. PICK i \in DOMAIN portal, name \in Written : portal' = [portal EXCEPT ![i].name = name]
      BY <2>3 DEF Renamed, Edit
    <3>2. [portal[i] EXCEPT !.name = name] \in Person  BY <1>d DEF Person
    <3>3. portal' = [portal EXCEPT ![i] = [portal[i] EXCEPT !.name = name]]  BY <3>1
    <3> QED BY <1>p, <3>1, <3>2, <3>3, ExceptSeq
  <2> QED BY <2>1, <2>2, <2>3
<1>t. changes' \in 0 .. MaxChanges
  <2>1. changes \in 0 .. MaxChanges  BY DEF RosterInv, TypeOK
  <2> QED BY <1>2, <2>1, MaxChangesAssumption
<1>4. TypeOK'  BY <1>2, <1>3, <1>t DEF RosterInv, TypeOK, decided, work
<1>5. Asked' = Asked  BY <1>2, SameMeanings DEF decided, work
<1>6. Progress'  BY <1>2, <1>5 DEF RosterInv, Progress, decided, work
<1> QED BY <1>2, <1>4, <1>6, KeptAsIs DEF RosterInv, decided, work

(* The way from the job to the loop and from the loop to the end. *)
LEMMA PlaceKeeps ==
  ASSUME RosterInv, PlanSingle \/ PlanRefused \/ PlanBatch \/ Connect \/ Resolved \/ RunEnds
  PROVE  RosterInv'
<1>1. UNCHANGED <<path, job, portal, listing, next, resolved, problems, handed, posted, changes>>
  BY DEF PlanSingle, PlanRefused, PlanBatch, Connect, Resolved, RunEnds, End, Goes, decided, work
<1>2. Asked' = Asked  BY <1>1, SameMeanings
<1>3. TypeOK /\ Progress /\ posted \subseteq Range(resolved) /\ problems \in Seq(Nat)
      /\ Len(Asked) \in Nat
  BY AskedType DEF RosterInv, TypeOK, Progress
<1>4. TypeOK'
  BY <1>1, <1>3 DEF TypeOK, PlanSingle, PlanRefused, PlanBatch, Connect, Resolved, RunEnds, End, Goes
<1>5. Progress'
  <2>1. CASE PlanSingle \/ PlanRefused \/ PlanBatch \/ Connect \/ RunEnds
    BY <1>1, <1>2, <1>3, <2>1
       DEF Progress, PlanSingle, PlanRefused, PlanBatch, Connect, RunEnds, End, Goes
  <2>2. CASE Resolved
    <3>1. next = Len(Asked) + 1  BY <1>3, <2>2, LookedAtAll DEF Resolved
    <3> QED BY <1>1, <1>2, <1>3, <2>2, <3>1 DEF Progress, Resolved, End, Goes
  <2> QED BY <2>1, <2>2
<1> QED BY <1>1, <1>3, <1>4, <1>5, KeptAsIs

LEMMA RosterStep == RosterInv /\ [RosterNext]_rosterVars => RosterInv'
<1> SUFFICES ASSUME RosterInv, [RosterNext]_rosterVars PROVE RosterInv'  OBVIOUS
<1>1. CASE ListTrainees
  <2>0. TypeOK /\ Progress /\ Gathered /\ InOrder /\ Reported  BY DEF RosterInv
  <2>1. CASE End("no list")
    <3>1. /\ UNCHANGED <<path, job, portal, listing, next, resolved, problems, handed, posted, changes>>
          /\ pc' = "done" /\ exit' = "no list"
      BY <2>1 DEF End, decided, work
    <3>2. Asked' = Asked  BY <3>1, SameMeanings
    <3>3. TypeOK'  BY <2>0, <3>1 DEF TypeOK
    <3>4. Progress'  BY <1>1, <2>0, <3>1, <3>2 DEF Progress, ListTrainees
    <3> QED BY <3>1, <3>3, <3>4, KeptAsIs DEF RosterInv
  <2>2. CASE /\ listing' = portal /\ pc' = "resolve"
             /\ UNCHANGED <<decided, portal, next, resolved, problems, handed, posted, exit, changes>>
    <3>1. pc = "list" /\ next = 1 /\ posted = {} /\ next' = 1 /\ posted' = {} /\ job' = job
          /\ resolved' = resolved /\ problems' = problems
      BY <1>1, <2>0, <2>2 DEF ListTrainees, Progress, decided
    <3>2. Range(resolved) = {} /\ Range(problems) = {}  BY <2>0, <3>1 DEF Gathered, Reported
    <3>3. DOMAIN resolved = {}  BY <3>2 DEF Range
    <3>4. TypeOK'  BY <2>0, <2>2 DEF TypeOK, decided
    <3>5. Progress'
      <4>1. Asked' = Asked  BY <3>1 DEF Asked
      <4> QED BY <2>0, <2>2, <3>1, <4>1, AskedType DEF Progress
    <3>6. Gathered' /\ InOrder' /\ Reported'
      BY <3>1, <3>2, <3>3 DEF Gathered, InOrder, Reported
    <3> QED BY <3>1, <3>4, <3>5, <3>6 DEF RosterInv
  <2> QED BY <1>1, <2>1, <2>2 DEF ListTrainees
<1>2. CASE Resolve  BY <1>2, ResolveKeeps
<1>3. CASE Submit  BY <1>3, SubmitKeeps
<1>4. CASE Registers \/ Leaves \/ Renamed  BY <1>4, EditKeeps
<1>5. CASE PlanSingle \/ PlanRefused \/ PlanBatch \/ Connect \/ Resolved \/ RunEnds
  BY <1>5, PlaceKeeps
<1>6. CASE UNCHANGED rosterVars
  <2>1. UNCHANGED <<path, job, pc, portal, listing, next, resolved, problems, handed, posted, exit, changes>>
    BY <1>6 DEF rosterVars, decided, work
  <2>2. Asked' = Asked  BY <2>1, SameMeanings
  <2>3. TypeOK' /\ Progress'  BY <2>1, <2>2 DEF RosterInv, TypeOK, Progress
  <2> QED BY <2>1, <2>3, KeptAsIs DEF RosterInv
<1> QED BY <1>1, <1>2, <1>3, <1>4, <1>5, <1>6 DEF RosterNext, Finished

(* The inductive invariant of the loop that makes a roster of a job. *)
THEOREM RosterInductive == RosterSpec => []RosterInv
<1> QED BY RosterStart, RosterStep, PTL DEF RosterSpec

LEMMA AllGathered ==
  ASSUME Gathered, 1 .. next - 1 = DOMAIN Asked
  PROVE  Range(resolved) = Meant
<1>1. \A k \in DOMAIN Asked : Meanings[k] = MeantBy(Asked[k])  BY DEF Meanings
<1>2. Range(resolved) = UNION {Meanings[k] : k \in DOMAIN Asked}  BY DEF Gathered
<1>3. {Meanings[k] : k \in DOMAIN Asked} = {MeantBy(e) : e \in Range(Asked)}
  BY <1>1 DEF Range
<1> QED BY <1>2, <1>3 DEF Meant

(* A roster is everyone the entries mean, once, in the order of their first     *)
(* mention; or every entry that means nobody is reported.                      *)
LEMMA InvResolves == RosterInv => ResolvedOrReported
<1> SUFFICES ASSUME RosterInv PROVE ResolvedOrReported  OBVIOUS
<1>1. Progress /\ Gathered /\ InOrder /\ Reported  BY DEF RosterInv
<1>2. DOMAIN Asked = 1 .. Len(Asked) /\ Len(Asked) \in Nat /\ next \in 1 .. Len(Asked) + 1
  BY <1>1, AskedType DEF Progress
<1>3. \A k \in DOMAIN Asked : Meanings[k] = MeantBy(Asked[k])  BY DEF Meanings
<1>4. CASE pc = "run"
  <2>1. 1 .. next - 1 = DOMAIN Asked  BY <1>1, <1>4, LookedAtAll DEF Progress
  <2>2. Range(resolved) = Meant  BY <1>1, <2>1, AllGathered
  <2>3. ASSUME NEW k \in DOMAIN Asked, NEW id, Mentions(k, id) PROVE FirstMention(id) = k
    <3> DEFINE IsFirst(l) == id \in MeantBy(Asked[l]) /\ \A m \in 1 .. l - 1 : id \notin MeantBy(Asked[m])
    <3>1. IsFirst(k)  BY <1>2, <1>3, <2>3 DEF Mentions
    <3>2. \A l \in DOMAIN Asked : IsFirst(l) => l = k
      BY <1>2, <3>1
    <3>3. FirstMention(id) = CHOOSE l \in DOMAIN Asked : IsFirst(l)  BY DEF FirstMention
    <3> HIDE DEF IsFirst
    <3> QED BY <3>1, <3>2, <3>3
  <2>4. ASSUME NEW i \in DOMAIN resolved, NEW j \in DOMAIN resolved, i < j
        PROVE  FirstMention(resolved[i]) < FirstMention(resolved[j])
    <3>1. PICK k \in 1 .. next - 1 : Mentions(k, resolved[i])  BY <1>1 DEF InOrder
    <3>2. PICK l \in 1 .. next - 1 : Mentions(l, resolved[j])  BY <1>1 DEF InOrder
    <3>3. k < l  BY <1>1, <2>4, <3>1, <3>2 DEF InOrder
    <3>4. FirstMention(resolved[i]) = k /\ FirstMention(resolved[j]) = l
      BY <2>1, <2>3, <3>1, <3>2
    <3> QED BY <3>3, <3>4
  <2> QED BY <1>1, <1>4, <2>2, <2>4 DEF Progress, ResolvedOrReported, EachPersonOnce, ReportedWhole
<1>5. CASE exit = "bad roster"
  <2>1. 1 .. next - 1 = DOMAIN Asked /\ pc # "run"  BY <1>1, <1>5, LookedAtAll DEF Progress
  <2> QED BY <1>1, <1>3, <2>1
     DEF Reported, ResolvedOrReported, EachPersonOnce, ReportedWhole
<1>6. CASE pc # "run" /\ exit # "bad roster"
  BY <1>6 DEF ResolvedOrReported, EachPersonOnce, ReportedWhole
<1> QED BY <1>4, <1>5, <1>6

(* A roster becomes the list of the people its entries mean, each once and in   *)
(* the order of first mention, or a whole list of complaints, for every job,   *)
(* portal and spelling.                                                        *)
THEOREM EveryRosterResolves == RosterSpec => []ResolvedOrReported
<1> QED BY RosterInductive, InvResolves, PTL

LEMMA InvWhole == RosterInv => OnlyWholeRosters
<1> SUFFICES ASSUME RosterInv PROVE OnlyWholeRosters  OBVIOUS
<1>1. Progress /\ Gathered /\ Reported /\ posted \subseteq Range(resolved)  BY DEF RosterInv
<1>2. DOMAIN Asked = 1 .. Len(Asked) /\ Len(Asked) \in Nat
  BY <1>1, AskedType DEF Progress
<1>3. \A k \in DOMAIN Asked : Meanings[k] = MeantBy(Asked[k])  BY DEF Meanings
<1>4. CASE posted = {}  BY <1>4 DEF OnlyWholeRosters, AllOrNobody, OnlyThoseMeant
<1>5. CASE posted # {}
  <2>1. 1 .. next - 1 = DOMAIN Asked /\ problems = << >>  BY <1>1, <1>5, LookedAtAll DEF Progress
  <2>2. Range(problems) = {}  BY <2>1 DEF Range
  <2>3. AllOrNobody  BY <1>1, <1>3, <2>1, <2>2 DEF Reported, AllOrNobody
  <2>4. Range(resolved) = Meant  BY <1>1, <2>1, AllGathered
  <2> QED BY <1>1, <2>3, <2>4 DEF OnlyWholeRosters, OnlyThoseMeant
<1> QED BY <1>4, <1>5

(* One entry that means nobody and nobody is submitted; and whoever registers,  *)
(* leaves or is renamed meanwhile, only those the entries meant are.           *)
THEOREM WholeRostersOnly == RosterSpec => []OnlyWholeRosters
<1> QED BY RosterInductive, InvWhole, PTL
=============================================================================
