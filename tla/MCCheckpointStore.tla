------------------------- MODULE MCCheckpointStore -------------------------
(***************************************************************************)
(* Small instances of CheckpointStore: two processes of equal standing, or   *)
(* the one that the file's order of versions makes sense for.                *)
(***************************************************************************)
EXTENDS CheckpointStore

CONSTANTS p1, p2

=============================================================================
