--------------------------- MODULE MCDaemonLaunch ---------------------------
(***************************************************************************)
(* A small instance of DaemonLaunch: three starts on one port, one on another *)
(* and one that is misconfigured.                                            *)
(***************************************************************************)
EXTENDS DaemonLaunch, TLC

CONSTANTS s1, s2, s3, s4, s5

MCPort == (s1 :> 1) @@ (s2 :> 1) @@ (s3 :> 1) @@ (s4 :> 2) @@ (s5 :> 0)

MCAnOrigin == [s \in Starts |-> TRUE]

Alike == Permutations({s1, s2, s3})

=============================================================================
