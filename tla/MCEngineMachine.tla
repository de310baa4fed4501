-------------------------- MODULE MCEngineMachine --------------------------
(***************************************************************************)
(* A small instance of EngineMachine, and with it of BatchEngine.            *)
(***************************************************************************)
EXTENDS EngineMachine, TLC

CONSTANTS t1, t2, t3

(* A roster in order, and one that names a trainee twice. *)
MCJobs == {<<t1, t2, t3>>, <<t2, t1, t2>>}

(* One response per way settle_submit and should_abort can go. *)
MCReplies ==
  {OkReply("confirmed"), OkReply("rejected"), OkReply("indeterminate"),
   ErrorReply("ELEMENT_NOT_FOUND", TRUE), ErrorReply("VALIDATION_FAILED", TRUE),
   ErrorReply("SESSION_EXPIRED", TRUE), ErrorReply("NETWORK", FALSE), ReadyReply}

=============================================================================
