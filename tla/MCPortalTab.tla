---------------------------- MODULE MCPortalTab ----------------------------
(***************************************************************************)
(* A small instance of PortalTab.                                            *)
(***************************************************************************)
EXTENDS PortalTab

CONSTANTS t1, t2

(* A trainee named twice, with the portal's first one last, and a name nobody has. *)
MCRequests == {<<t2, t1, t2>>, <<t1, NoTrainee>>}

=============================================================================
