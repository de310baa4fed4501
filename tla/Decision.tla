------------------------------ MODULE Decision ------------------------------
(***************************************************************************)
(* How a submit_training response becomes a verdict (decision.rs).  Two      *)
(* functions read the same response: SettleSubmit for a batch row and        *)
(* DecideSubmit for the one-trainee run.  Messages are left out; an error    *)
(* code stands for itself because the verdict is a function of it.           *)
(***************************************************************************)
EXTENDS Naturals

RecoverableCodes == {"ELEMENT_NOT_FOUND", "TIMEOUT", "NETWORK", "PORTAL_UNAVAILABLE"}

AbortingCodes == {"SESSION_EXPIRED", "PORTAL_STRUCTURE_CHANGED"}

OtherCodes ==
  {"PORTAL_NOT_MAPPED", "VALIDATION_FAILED", "MISSING_DATA", "TRAINEE_NOT_FOUND",
   "BAD_REQUEST", "UNKNOWN_OP", "DUPLICATE_RECORD", "SUBMISSION_FAILED",
   "CONFIRMATION_UNKNOWN"}

Codes == RecoverableCodes \cup AbortingCodes \cup OtherCodes

OkOutcomes == {"confirmed", "duplicate", "rejected", "indeterminate", "unrecognized"}

(* An ok line has an outcome, an error line a code and the worker's claim   *)
(* about whether anything can have reached the portal, a ready line neither. *)
OkReply(o) == [status |-> "ok", outcome |-> o, code |-> "none", provesNothing |-> FALSE]
ErrorReply(c, p) == [status |-> "error", outcome |-> "none", code |-> c, provesNothing |-> p]
ReadyReply == [status |-> "ready", outcome |-> "none", code |-> "none", provesNothing |-> FALSE]

Responses ==
  {OkReply(o) : o \in OkOutcomes}
    \cup {ErrorReply(c, p) : c \in Codes, p \in BOOLEAN}
    \cup {ReadyReply}

IsRecoverable(code) == code \in RecoverableCodes

AbortsBatch(code) == code \in AbortingCodes

(* Mutation: a recoverable code is retried whatever the worker claims. *)
SettleByCode(resp) ==
  CASE resp.status = "ready" -> "indeterminate"
    [] resp.status = "ok" /\ resp.outcome = "confirmed" -> "success"
    [] resp.status = "ok" /\ resp.outcome \in {"duplicate", "rejected"} -> "failed"
    [] resp.status = "ok" /\ resp.outcome \in {"indeterminate", "unrecognized"} -> "indeterminate"
    [] resp.status = "error" /\ IsRecoverable(resp.code) -> "retry"
    [] OTHER -> "failed"

SettleSubmit(resp) ==
  CASE resp.status = "ready" -> "indeterminate"
    [] resp.status = "ok" /\ resp.outcome = "confirmed" -> "success"
    [] resp.status = "ok" /\ resp.outcome \in {"duplicate", "rejected"} -> "failed"
    [] resp.status = "ok" /\ resp.outcome \in {"indeterminate", "unrecognized"} -> "indeterminate"
    [] resp.status = "error" /\ ~ resp.provesNothing -> "indeterminate"
    [] /\ resp.status = "error" /\ resp.provesNothing
       /\ ~ AbortsBatch(resp.code) /\ IsRecoverable(resp.code) -> "retry"
    [] OTHER -> "failed"

DecideSubmit(resp) ==
  CASE resp.status = "ok" /\ resp.outcome \in {"confirmed", "duplicate"} -> "accept"
    [] resp.status = "ok" /\ resp.outcome = "rejected" -> "reject"
    [] resp.status = "ok" /\ resp.outcome \in {"indeterminate", "unrecognized"} -> "halt"
    [] resp.status = "ready" -> "halt"
    [] resp.status = "error" /\ (AbortsBatch(resp.code) \/ ~ resp.provesNothing) -> "halt"
    [] OTHER -> IF IsRecoverable(resp.code) THEN "retry" ELSE "reject"

(* should_abort on the row a final response becomes: the row's code is the   *)
(* response's own for an error, and never an aborting one for an ok line.    *)
ShouldAbort(resp) ==
  LET settled == SettleSubmit(resp)
  IN  settled = "indeterminate" \/ (settled = "failed" /\ AbortsBatch(resp.code))

=============================================================================
