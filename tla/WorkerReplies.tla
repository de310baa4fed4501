--------------------------- MODULE WorkerReplies ---------------------------
(***************************************************************************)
(* What the Python worker says about a submit_training it tried: the errors  *)
(* it can raise before the POST, the classification of the portal's answer    *)
(* to the POST, and the claim that nothing was submitted.  Constant-level.    *)
(***************************************************************************)
EXTENDS Decision

ProvesNothing ==
  {"ELEMENT_NOT_FOUND", "PORTAL_NOT_MAPPED", "PORTAL_STRUCTURE_CHANGED", "SESSION_EXPIRED",
   "VALIDATION_FAILED", "MISSING_DATA", "TRAINEE_NOT_FOUND", "BAD_REQUEST", "UNKNOWN_OP"}

(* Mutation: the claim is read off the code alone. *)
ErrorByCode(code, attempted) == ErrorReply(code, code \in ProvesNothing)

(* Mutation: a transport failure is taken for one that sent nothing. *)
ErrorNetworkIsSafe(code, attempted) ==
  ErrorReply(code, ~ attempted /\ code \in ProvesNothing \cup {"NETWORK"})

ErrorResponse(code, attempted) == ErrorReply(code, ~ attempted /\ code \in ProvesNothing)

(* Raised while resolving the trainee, loading the form or building the payload. *)
BeforePost ==
  {ErrorResponse(code, FALSE) :
     code \in {"NETWORK", "SESSION_EXPIRED", "TRAINEE_NOT_FOUND", "MISSING_DATA",
               "PORTAL_STRUCTURE_CHANGED", "ELEMENT_NOT_FOUND", "VALIDATION_FAILED",
               "BAD_REQUEST"}}

(* The POST itself failed: no answer, and no telling whether it got through. *)
PostFailed == ErrorResponse("NETWORK", FALSE)

(* Any other exception, before the POST or after it, under one code. *)
Unforeseen == ErrorResponse("SUBMISSION_FAILED", FALSE)

(* What of an answer submission_outcome looks at. *)
Answers ==
  [login : BOOLEAN,                      \* the login page, by content or URL
   status : {"2xx", "3xx", "4xx"},       \* 4xx stands for every status from 400 on
   success : {"true", "false", "none"},  \* the JSON flag
   validation : BOOLEAN,                 \* a validation message in the page
   readable : BOOLEAN]                   \* the body could be read

RefusedByPortal(answer) ==
  answer.success = "false" \/ answer.validation \/ answer.status = "4xx"

(* Mutation: the classes are tried in another order. *)
OutcomeRefusalFirst(answer) ==
  IF RefusedByPortal(answer) \/ answer.status = "3xx" THEN OkReply("rejected")
  ELSE IF answer.success = "true" THEN OkReply("confirmed") ELSE OkReply("indeterminate")

SubmissionOutcome(answer) ==
  CASE answer.login -> ErrorResponse("SESSION_EXPIRED", TRUE)
    [] ~ answer.login /\ answer.status = "3xx" -> OkReply("indeterminate")
    [] ~ answer.login /\ answer.status # "3xx" /\ RefusedByPortal(answer) -> OkReply("rejected")
    [] /\ ~ answer.login /\ answer.status = "2xx" /\ ~ RefusedByPortal(answer)
       /\ answer.success = "true" -> OkReply("confirmed")
    [] OTHER -> OkReply("indeterminate")

AfterPost(answer) ==
  IF answer.readable THEN SubmissionOutcome(answer) ELSE ErrorResponse("CONFIRMATION_UNKNOWN", TRUE)

=============================================================================
