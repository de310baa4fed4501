-------------------------- MODULE CheckpointStore --------------------------
(***************************************************************************)
(* How a checkpoint reaches the disk (rust/src/store.rs, `save`): a temporary *)
(* file of the process's own, written and synced, renamed over the slot, and  *)
(* the directory synced as far as that goes.  Processes share the slot, are   *)
(* killed at any step, and the machine may lose power.                        *)
(*                                                                          *)
(* A file is an inode.  Inodes hold one version of the checkpoint each; what  *)
(* a version says is BatchEngine's matter, here only whether all of it is     *)
(* there.  The file system is external: a rename is atomic, a file's bytes    *)
(* survive a power loss once synced, a name once its directory is.            *)
(***************************************************************************)
EXTENDS Naturals

CONSTANTS Processes,       \* pids that save into one slot
          MaxSaves         \* bound: saves begun

ASSUME MaxSavesAssumption == MaxSaves \in Nat

Inodes == 1 .. MaxSaves

NoInode == 0

VARIABLES
  saves,     \* saves begun; save n fills inode n, unless it finds one to truncate
  step,      \* process -> where its save is
  handle,    \* process -> the inode it writes
  temp,      \* temporary name -> the inode it names
  slotNow,   \* the inode the checkpoint's name resolves to
  slotDisk,  \* the inodes it may resolve to after a power loss
  bytes,     \* inode -> "none", "part" or "whole": what a read returns
  onDisk     \* inode -> the same, after a power loss

vars == <<saves, step, handle, temp, slotNow, slotDisk, bytes, onDisk>>

(* Mutation: one temporary name for everybody. *)
FixedTempPath(p) == CHOOSE q \in Processes : TRUE

(* `<name>.<pid>.tmp`. *)
TempPath(p) == p

Init ==
  /\ saves = 0
  /\ step = [p \in Processes |-> "idle"]
  /\ handle = [p \in Processes |-> NoInode]
  /\ temp = [p \in Processes |-> NoInode]
  /\ slotNow = NoInode /\ slotDisk = {NoInode}
  /\ bytes = [i \in Inodes |-> "none"] /\ onDisk = [i \in Inodes |-> "none"]

-----------------------------------------------------------------------------
At(p, s) == step[p] = s

Goto(p, s) == step' = [step EXCEPT ![p] = s]

(* File::create truncates whatever its name already names. *)
Create(p) ==
  /\ At(p, "idle") /\ saves < MaxSaves
  /\ saves' = saves + 1
  /\ LET old == temp[TempPath(p)]
         inode == IF old = NoInode THEN saves + 1 ELSE old
     IN  /\ handle' = [handle EXCEPT ![p] = inode]
         /\ temp' = [temp EXCEPT ![TempPath(p)] = inode]
         /\ bytes' = [bytes EXCEPT ![inode] = "none"]
  /\ Goto(p, "writing")
  /\ UNCHANGED <<slotNow, slotDisk, onDisk>>

(* write_all, in more than one write. *)
WriteSome(p) ==
  /\ At(p, "writing") /\ bytes[handle[p]] = "none"
  /\ bytes' = [bytes EXCEPT ![handle[p]] = "part"]
  /\ UNCHANGED <<saves, step, handle, temp, slotNow, slotDisk, onDisk>>

WriteRest(p) ==
  /\ At(p, "writing")
  /\ bytes' = [bytes EXCEPT ![handle[p]] = "whole"]
  /\ Goto(p, "written")
  /\ UNCHANGED <<saves, handle, temp, slotNow, slotDisk, onDisk>>

(* Mutation: the bytes are left to the operating system. *)
SyncLater(p) ==
  /\ At(p, "written")
  /\ Goto(p, "synced")
  /\ UNCHANGED <<saves, handle, temp, slotNow, slotDisk, bytes, onDisk>>

SyncFile(p) ==
  /\ At(p, "written")
  /\ onDisk' = [onDisk EXCEPT ![handle[p]] = bytes[handle[p]]]
  /\ Goto(p, "synced")
  /\ UNCHANGED <<saves, handle, temp, slotNow, slotDisk, bytes>>

(* Any of the above, or the rename, fails: the temporary file is removed. *)
SaveFails(p) ==
  /\ step[p] \in {"writing", "written", "synced"}
  /\ temp' = [temp EXCEPT ![TempPath(p)] = NoInode]
  /\ handle' = [handle EXCEPT ![p] = NoInode]
  /\ Goto(p, "idle")
  /\ UNCHANGED <<saves, slotNow, slotDisk, bytes, onDisk>>

Rename(p) ==
  /\ At(p, "synced") /\ temp[TempPath(p)] # NoInode
  /\ slotNow' = temp[TempPath(p)]
  /\ slotDisk' = slotDisk \cup {temp[TempPath(p)]}
  /\ temp' = [temp EXCEPT ![TempPath(p)] = NoInode]
  /\ Goto(p, "renamed")
  /\ UNCHANGED <<saves, handle, bytes, onDisk>>

SaveOk(p) ==
  /\ handle' = [handle EXCEPT ![p] = NoInode]
  /\ Goto(p, "idle")
  /\ UNCHANGED <<saves, temp, slotNow, bytes, onDisk>>

SyncDirectory(p) ==
  /\ At(p, "renamed")
  /\ slotDisk' = {slotNow}
  /\ SaveOk(p)

(* Reported on stderr if it was the sync, silent if it was the open. *)
DirectoryNotSynced(p) ==
  /\ At(p, "renamed")
  /\ SaveOk(p)
  /\ UNCHANGED slotDisk

-----------------------------------------------------------------------------
Kill(p) ==
  /\ ~ At(p, "idle")
  /\ Goto(p, "idle")
  /\ handle' = [handle EXCEPT ![p] = NoInode]
  /\ UNCHANGED <<saves, temp, slotNow, slotDisk, bytes, onDisk>>

(* Nothing unsynced is certain to be there, and nothing is certain to be gone. *)
PowerLoss ==
  /\ saves > 0
  /\ slotNow' \in slotDisk
  /\ slotDisk' = {slotNow'}
  /\ bytes' \in {b \in [Inodes -> {"none", "part", "whole"}] :
                   \A i \in Inodes : b[i] \in {onDisk[i], bytes[i]}}
  /\ onDisk' = bytes'
  /\ step' = [p \in Processes |-> "idle"]
  /\ handle' = [p \in Processes |-> NoInode]
  /\ temp' \in {f \in [Processes -> {NoInode} \cup Inodes] :
                  \A p \in Processes : f[p] \in {NoInode, temp[p]}}
  /\ UNCHANGED saves

Next ==
  \/ \E p \in Processes :
       \/ Create(p) \/ WriteSome(p) \/ WriteRest(p) \/ SyncFile(p) \/ SaveFails(p)
       \/ Rename(p) \/ SyncDirectory(p) \/ DirectoryNotSynced(p) \/ Kill(p)
  \/ PowerLoss

Spec == Init /\ [][Next]_vars

-----------------------------------------------------------------------------
(* A reader finds no checkpoint or a complete one, whoever was killed while    *)
(* saving and whatever the power took ("never a torn one").                   *)
NeverTorn == slotNow # NoInode => bytes[slotNow] = "whole"

(* The same of every file a power loss could put in the slot's place.          *)
NeverTornOnDisk == \A i \in slotDisk \ {NoInode} : onDisk[i] = "whole"

(* No name of the slot, present or possible, is that of a torn file. *)
NeverTornAnywhere == NeverTorn /\ NeverTornOnDisk

(* Nothing is ever written into the file that the slot names: it is only ever  *)
(* replaced.                                                                   *)
SlotIsReplacedWhole ==
  [][slotNow # NoInode /\ slotNow' = slotNow => bytes'[slotNow] = bytes[slotNow]]_vars

=============================================================================
