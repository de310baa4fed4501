-------------------------- MODULE SingleRunProofs --------------------------
(***************************************************************************)
(* Theorems of SingleRun, for any number of attempts.  One request is out at  *)
(* a time: in the worker's stdin, in its hands, or answered by a line nobody  *)
(* has read; and a request that may still POST means that nothing has been    *)
(* posted.  A retry needs a line that proves nothing was submitted, and such  *)
(* a line is only ever true.                                                 *)
(***************************************************************************)
EXTENDS SingleRun, TLAPS

Ops == {"session", "options", "submit"}

Before == {"connect", "ready"} \cup Ops

Types ==
  /\ step \in Before \cup {"closing", "exited", "killed"}
  /\ asked \in Ops \cup {"none", "ready"} /\ unusable \in BOOLEAN
  /\ attempt \in Nat /\ code \in {-1, 0, 1, 3, 4}
  /\ stdin \in {<< >>, <<"session">>, <<"options">>, <<"submit">>}
  /\ worker \in {"none", "starting", "idle", "posted", "dead"} \cup Ops
  /\ posts \in {0, 1} /\ wire \in {0, 1} /\ landed \in {0, 1} /\ wire + landed <= posts
  /\ answer \subseteq Answers

(* The coordinator waits for the op of its step, and only while it can hear. *)
Waits ==
  /\ asked # "none" /\ step # "killed" => ~ unusable /\ asked = step
  /\ unusable => stdout = << >>
  /\ step = "connect" => worker = "none" /\ stdin = << >> /\ ~ unusable
  /\ step = "ready" => asked = "ready"
  /\ step = "killed" => unusable
  /\ worker = "none" => unusable \/ step = "connect"

(* One request at a time. *)
OneAtATime ==
  /\ stdin # << >> => stdout = << >> /\ worker \in {"idle", "dead"}
  /\ worker \notin {"idle", "dead"} => stdout = << >>
  /\ asked = "none" => stdout = << >>
  /\ ~ unusable =>
       /\ asked = "none" => stdin = << >> /\ worker \in {"none", "idle", "dead"}
       /\ stdin # << >> => stdin = <<asked>>
       /\ worker \in Ops => worker = asked
       /\ worker = "posted" => asked = "submit"
       /\ worker = "starting" => asked = "ready"

Said == Responses \cup {OkReply("none")}

(* What a line about op says is so. *)
Truthful(op, resp) ==
  /\ resp \in Said
  /\ op = "ready" => resp = ReadyReply
  /\ op \in Ops => resp.status \in {"ok", "error"}
  /\ resp.provesNothing => posts = 0
  /\ op = "submit" /\ resp.status = "ok" =>
       /\ posts = 1 /\ resp.outcome \in {"confirmed", "rejected", "indeterminate"}
       /\ resp.outcome = "confirmed" => wire = 0 /\ landed = 1
       /\ resp.outcome = "rejected" => wire = 0 /\ (landed = 0 \/ CommitsOnError)

LinesAreTrue ==
  stdout = << >> \/ \E resp \in Said : stdout = <<Line(asked, resp)>> /\ Truthful(asked, resp)

(* Whoever may still POST is the first to. *)
Budget ==
  /\ worker = "submit" \/ stdin = <<"submit">> => posts = 0
  /\ worker = "posted" => posts = 1
  /\ step \in Before /\ asked # "submit" =>
       posts = 0 /\ worker # "submit" /\ stdin # <<"submit">>

(* The answer the worker waits for is the portal's last word on its POST. *)
AnswerIsHonest ==
  worker = "posted" /\ answer # {} => wire = 0 /\ \A a \in answer : Honest(a, landed = 1)

Settled ==
  step \in {"closing", "exited"} /\ code # 3 =>
    /\ wire = 0 /\ worker # "submit" /\ stdin # <<"submit">>
    /\ code = 0 => landed = 1
    /\ code # 0 => landed = 0 \/ CommitsOnError

IInv ==
  Types /\ Waits /\ OneAtATime /\ LinesAreTrue /\ Budget /\ AnswerIsHonest /\ Settled

-----------------------------------------------------------------------------
(* Sequences of at most one element. *)

LEMMA AppendToNothing == \A e : Append(<< >>, e) = <<e>>
  OBVIOUS

LEMMA OneElement ==
  /\ \A e : Head(<<e>>) = e /\ Tail(<<e>>) = << >> /\ <<e>> # << >>
  /\ \A e, f : <<e>> = <<f>> => e = f
  <1>1. \A e : Head(<<e>>) = e /\ Tail(<<e>>) = << >> /\ <<e>> # << >>  OBVIOUS
  <1>2. \A e, f : <<e>> = <<f>> => e = f
    <2> TAKE e, f
    <2> HAVE <<e>> = <<f>>
    <2>1. <<e>>[1] = <<f>>[1]  OBVIOUS
    <2> QED BY <2>1
  <1> QED BY <1>1, <1>2

LEMMA LineParts ==
  \A op1, op2, r1, r2 : Line(op1, r1) = Line(op2, r2) => op1 = op2 /\ r1 = r2
  <1> TAKE op1, op2, r1, r2
  <1> HAVE Line(op1, r1) = Line(op2, r2)
  <1>1. Line(op1, r1).op = Line(op2, r2).op /\ Line(op1, r1).resp = Line(op2, r2).resp  OBVIOUS
  <1> QED BY <1>1 DEF Line

-----------------------------------------------------------------------------
(* A line that is received was true, and leaves nothing on its way. *)
LEMMA Heard ==
  ASSUME IInv, NEW resp, Receives(resp)
  PROVE  /\ Truthful(asked, resp) /\ asked # "none" /\ asked' = "none" /\ ~ unusable
         /\ stdin = << >> /\ stdout' = << >> /\ worker \in {"idle", "dead"}
         /\ UNCHANGED <<unusable, stdin>>
  <1>1. PICK r \in Said : stdout = <<Line(asked, r)>> /\ Truthful(asked, r)
    BY DEF Receives, IInv, LinesAreTrue
  <1>2. Head(stdout) = Line(asked, r) /\ Tail(stdout) = << >> /\ stdout # << >>
    BY <1>1, OneElement
  <1>3. r = resp  BY <1>2, LineParts DEF Receives
  <1> QED BY <1>1, <1>2, <1>3 DEF Receives, IInv, Waits, OneAtATime

(* Whoever stops waiting hears nothing more, and what it asked for may yet happen. *)
LEMMA Unheard ==
  ASSUME IInv, GetsNothing
  PROVE  asked # "none" /\ asked' = "none" /\ unusable' /\ stdout' = << >> /\ stdin' = stdin
  BY DEF GetsNothing, Invalidate

(* The worker writes its line, if somebody may still read it. *)
LEMMA SaysKeeps ==
  ASSUME IInv, NEW op, NEW resp, Says(Line(op, resp)), worker \notin {"none", "idle", "dead"},
         ~ unusable => op = asked /\ Truthful(asked, resp),
         UNCHANGED <<run, stdin, wire, posts, landed>>, answer' \subseteq answer
  PROVE  IInv'
  <1> USE DEF run
  <1>1. stdin = << >> /\ stdout = << >> /\ worker' = "idle"  BY DEF Says, IInv, OneAtATime
  <1>2. ~ unusable => stdout' = <<Line(asked, resp)>> /\ asked # "none"
    <2>1. ~ unusable => asked # "none"  BY DEF IInv, OneAtATime, Types
    <2> QED BY <1>1, <2>1, AppendToNothing DEF Says
  <1>3. unusable => stdout' = << >>  BY <1>1 DEF Says
  <1>4. Types'  BY <1>1 DEF IInv, Types
  <1>5. Waits'
    <2>1. step # "connect"  BY DEF IInv, Waits
    <2> QED BY <1>1, <1>3, <2>1 DEF IInv, Waits
  <1>6. OneAtATime'  BY <1>1, <1>2, <1>3 DEF IInv, OneAtATime, Ops
  <1>7. LinesAreTrue'
    <2>1. CASE unusable  BY <1>3, <2>1 DEF LinesAreTrue
    <2>2. CASE ~ unusable
      <3>1. Truthful(asked, resp)'  BY <2>2 DEF Truthful
      <3>2. resp \in Said  BY <2>2 DEF Truthful
      <3> QED BY <1>2, <2>2, <3>1, <3>2 DEF LinesAreTrue
    <2> QED BY <2>1, <2>2
  <1>8. Budget'  BY <1>1 DEF IInv, Budget
  <1>9. AnswerIsHonest'  BY <1>1 DEF AnswerIsHonest
  <1>10. Settled'  BY <1>1 DEF IInv, Settled
  <1> QED BY <1>4, <1>5, <1>6, <1>7, <1>8, <1>9, <1>10 DEF IInv

-----------------------------------------------------------------------------
(* The worker and the portal. *)

(* Whoever is heard is asked: what the worker has in hand is what was asked for. *)
LEMMA InHand ==
  ASSUME IInv, worker \notin {"none", "idle", "dead"}
  PROVE  /\ stdin = << >> /\ stdout = << >> /\ step # "connect"
         /\ ~ unusable /\ worker \in Ops => asked = worker
         /\ ~ unusable /\ worker = "posted" => asked = "submit"
         /\ ~ unusable /\ worker = "starting" => asked = "ready"
  BY DEF IInv, OneAtATime, Waits

LEMMA RepliesAreErrors ==
  ASSUME NEW c \in Codes, NEW p \in BOOLEAN
  PROVE  /\ ErrorReply(c, p) \in Said /\ ErrorReply(c, p).status = "error"
         /\ ErrorReply(c, p).provesNothing = p
  BY DEF Said, Responses, ErrorReply

LEMMA ErrorsSaid ==
  ASSUME NEW c \in Codes
  PROVE  /\ ErrorResponse(c, FALSE) \in Said /\ ErrorResponse(c, FALSE).status = "error"
         /\ ErrorResponse(c, TRUE) \in Said /\ ErrorResponse(c, TRUE).status = "error"
         /\ ErrorResponse(c, TRUE).provesNothing = FALSE
         /\ c \notin ProvesNothing => ErrorResponse(c, FALSE).provesNothing = FALSE
  <1>1. (~ FALSE /\ c \in ProvesNothing) \in BOOLEAN /\ (~ TRUE /\ c \in ProvesNothing) = FALSE
        /\ c \notin ProvesNothing => (~ FALSE /\ c \in ProvesNothing) = FALSE
    OBVIOUS
  <1> QED BY <1>1, RepliesAreErrors DEF ErrorResponse

LEMMA OksSaid ==
  ASSUME NEW o \in OkOutcomes \cup {"none"}
  PROVE  /\ OkReply(o) \in Said /\ OkReply(o).status = "ok" /\ OkReply(o).outcome = o
         /\ OkReply(o).provesNothing = FALSE
  <1>1. o \in OkOutcomes => OkReply(o) \in Responses  BY DEF Responses
  <1>2. OkReply(o) \in Said  BY <1>1 DEF Said
  <1> QED BY <1>2 DEF OkReply

LEMMA StartsKeeps == ASSUME IInv, Starts PROVE IInv'
  <1>1. Truthful("ready", ReadyReply)
    BY DEF Truthful, ReadyReply, Said, Responses, Ops
  <1> QED BY <1>1, InHand, SaysKeeps DEF Starts, portal

LEMMA LooksKeeps == ASSUME IInv, Looks PROVE IInv'
  <1> USE DEF Looks, portal
  <1>1. worker \in Ops \ {"submit"} /\ worker \notin {"none", "idle", "dead"}  BY DEF Ops
  <1>2. ~ unusable => asked = worker /\ posts = 0
    BY <1>1, InHand DEF Ops, IInv, Budget, Types, Waits, Before
  <1>3. CASE Says(Line(worker, OkReply("none")))
    <2>1. Truthful(worker, OkReply("none"))  BY <1>1, OksSaid DEF Truthful, Ops
    <2> QED BY <1>1, <1>2, <1>3, <2>1, SaysKeeps
  <1>4. ASSUME NEW c \in {"NETWORK", "SESSION_EXPIRED", "MISSING_DATA", "ELEMENT_NOT_FOUND"},
               Says(Line(worker, ErrorResponse(c, FALSE)))
        PROVE  IInv'
    <2>1. c \in Codes  BY DEF Codes, RecoverableCodes, AbortingCodes, OtherCodes
    <2>2. posts = 0 => Truthful(worker, ErrorResponse(c, FALSE))  BY <1>1, <2>1, ErrorsSaid DEF Truthful, Ops
    <2> QED BY <1>1, <1>2, <1>4, <2>2, SaysKeeps
  <1> QED BY <1>3, <1>4

(* Before its POST, the worker may claim that nothing was submitted. *)
LEMMA CannotPostKeeps == ASSUME IInv, CannotPost PROVE IInv'
  <1> USE DEF CannotPost, portal
  <1>1. PICK c \in Codes : Says(Line("submit", ErrorResponse(c, FALSE)))
    BY DEF BeforePost, Unforeseen, Codes, RecoverableCodes, AbortingCodes, OtherCodes
  <1>2. posts = 0  BY DEF IInv, Budget
  <1>3. Truthful("submit", ErrorResponse(c, FALSE))  BY <1>2, ErrorsSaid DEF Truthful, Ops
  <1>4. ~ unusable => asked = "submit"  BY InHand DEF Ops
  <1> QED BY <1>1, <1>3, <1>4, SaysKeeps

(* After it, an error claims nothing. *)
LEMMA GivesUpKeeps == ASSUME IInv, GivesUpOnPost PROVE IInv'
  <1> USE DEF GivesUpOnPost, portal
  <1>1. PICK c \in {"NETWORK", "SUBMISSION_FAILED"} : Says(Line("submit", ErrorResponse(c, FALSE)))
    BY DEF PostFailed, Unforeseen
  <1>2. c \in Codes /\ c \notin ProvesNothing
    BY DEF Codes, RecoverableCodes, AbortingCodes, OtherCodes, ProvesNothing
  <1>3. Truthful("submit", ErrorResponse(c, FALSE))  BY <1>2, ErrorsSaid DEF Truthful, Ops
  <1>4. ~ unusable => asked = "submit"  BY InHand DEF Ops
  <1> QED BY <1>1, <1>3, <1>4, SaysKeeps

(* What an honest answer is classified as is so. *)
LEMMA OutcomeIsTrue ==
  ASSUME NEW a \in Answers, Honest(a, landed = 1), posts = 1, wire = 0, landed \in {0, 1}
  PROVE  Truthful("submit", AfterPost(a))
  <1> USE DEF Ops
  <1>1. "SESSION_EXPIRED" \in Codes /\ "CONFIRMATION_UNKNOWN" \in Codes
    BY DEF Codes, RecoverableCodes, AbortingCodes, OtherCodes
  <1>2. Truthful("submit", ErrorResponse("SESSION_EXPIRED", TRUE))
        /\ Truthful("submit", ErrorResponse("CONFIRMATION_UNKNOWN", TRUE))
    BY <1>1, ErrorsSaid DEF Truthful
  <1>3. Truthful("submit", OkReply("indeterminate"))  BY OksSaid DEF Truthful, OkOutcomes
  <1>4. a.success = "true" => Truthful("submit", OkReply("confirmed"))
    BY OksSaid DEF Truthful, OkOutcomes, Honest
  <1>5. RefusedByPortal(a) => Truthful("submit", OkReply("rejected"))
    BY OksSaid, CommitsOnErrorAssumption DEF Truthful, OkOutcomes, Honest, RefusedByPortal
  <1>6. CASE ~ a.readable  BY <1>2, <1>6 DEF AfterPost
  <1>7. CASE a.readable
    <2>1. AfterPost(a) = SubmissionOutcome(a)  BY <1>7 DEF AfterPost
    <2> HIDE DEF Ops
    <2>2. CASE a.login  BY <1>2, <2>1, <2>2 DEF SubmissionOutcome
    <2>3. CASE ~ a.login /\ a.status = "3xx"  BY <1>3, <2>1, <2>3 DEF SubmissionOutcome
    <2>4. CASE ~ a.login /\ a.status # "3xx" /\ RefusedByPortal(a)
      BY <1>5, <2>1, <2>4 DEF SubmissionOutcome
    <2>5. CASE ~ a.login /\ a.status = "2xx" /\ ~ RefusedByPortal(a) /\ a.success = "true"
      BY <1>4, <2>1, <2>5 DEF SubmissionOutcome
    <2>6. CASE /\ ~ a.login /\ a.status # "3xx" /\ ~ RefusedByPortal(a)
               /\ ~ (a.status = "2xx" /\ a.success = "true")
      BY <1>3, <2>1, <2>6 DEF SubmissionOutcome
    <2> QED BY <2>2, <2>3, <2>4, <2>5, <2>6
  <1> QED BY <1>6, <1>7

LEMMA ClassifiesKeeps == ASSUME IInv, Classifies PROVE IInv'
  <1> USE DEF Classifies
  <1>1. PICK a \in answer : Says(Line("submit", AfterPost(a)))  OBVIOUS
  <1>2. /\ posts = 1 /\ wire = 0 /\ landed \in {0, 1} /\ a \in Answers
        /\ Honest(a, landed = 1)
    BY <1>1 DEF IInv, Budget, AnswerIsHonest, Types
  <1>3. Truthful("submit", AfterPost(a))  BY <1>2, OutcomeIsTrue
  <1>4. ~ unusable => asked = "submit"  BY InHand DEF Ops
  <1> QED BY <1>1, <1>3, <1>4, SaysKeeps

(* The request goes from the pipe into the worker's hands. *)
LEMMA ReadsKeeps == ASSUME IInv, Reads PROVE IInv'
  <1> USE DEF Reads, run, portal
  <1>1. PICK op \in Ops : stdin = <<op>>  BY DEF IInv, Types, Ops
  <1>2. worker' = op /\ stdin' = << >> /\ stdout = << >> /\ stdout' = << >>
    BY <1>1, OneElement DEF IInv, OneAtATime
  <1>3. ~ unusable => asked = op
    BY <1>1, OneElement DEF IInv, OneAtATime
  <1>4. op = "submit" => posts = 0 /\ (step \in Before => asked = "submit")
    BY <1>1 DEF IInv, Budget
  <1>5. Types'  BY <1>2 DEF IInv, Types
  <1>6. Waits'  BY <1>2 DEF IInv, Waits, Ops
  <1>7. OneAtATime'  BY <1>2, <1>3 DEF OneAtATime, Ops
  <1>8. LinesAreTrue'  BY <1>2 DEF LinesAreTrue
  <1>9. Budget'
    <2>1. worker' # "posted"  BY <1>2 DEF Ops
    <2>2. stdin' # <<"submit">>  BY <1>2, OneElement
    <2> QED BY <1>2, <1>4, <2>1, <2>2 DEF IInv, Budget
  <1>10. AnswerIsHonest'  BY <1>2 DEF AnswerIsHonest, Ops
  <1>11. Settled'
    <2>1. stdin' # <<"submit">>  BY <1>2, OneElement
    <2> QED BY <1>1, <1>2, <2>1 DEF IInv, Settled
  <1> QED BY <1>5, <1>6, <1>7, <1>8, <1>9, <1>10, <1>11 DEF IInv

(* The one POST of the run. *)
LEMMA PostsKeeps == ASSUME IInv, Posts PROVE IInv'
  <1> USE DEF Posts, run, pipes
  <1>1. posts = 0 /\ wire = 0 /\ landed = 0  BY DEF IInv, Budget, Types
  <1>2. stdin = << >> /\ stdout = << >> /\ (~ unusable => asked = "submit")
    BY InHand DEF Ops
  <1>3. stdin # <<"submit">>  BY <1>2, OneElement
  <1>4. Types'  BY <1>1 DEF IInv, Types
  <1>5. Waits'  BY DEF IInv, Waits
  <1>6. OneAtATime'  BY <1>2 DEF OneAtATime, Ops
  <1>7. LinesAreTrue'  BY <1>2 DEF LinesAreTrue
  <1>8. Budget'  BY <1>1, <1>3 DEF IInv, Budget
  <1>9. AnswerIsHonest'  BY DEF AnswerIsHonest
  <1>10. Settled'  BY DEF IInv, Settled
  <1> QED BY <1>4, <1>5, <1>6, <1>7, <1>8, <1>9, <1>10 DEF IInv

(* The portal acts on it once, and says what it did. *)
LEMMA PortalKeeps == ASSUME IInv, PortalActs PROVE IInv'
  <1> USE DEF PortalActs, run, pipes
  <1>1. PICK stored \in BOOLEAN, a \in Answers :
          /\ Honest(a, stored) /\ landed' = IF stored THEN landed + 1 ELSE landed
          /\ answer' = IF worker = "posted" THEN {a} ELSE answer
    OBVIOUS
  <1>2. wire = 1 /\ posts = 1 /\ landed = 0 /\ wire' = 0  BY DEF IInv, Types
  <1>3. stored = (landed' = 1)  BY <1>1, <1>2
  <1>4. Types'  BY <1>1, <1>2 DEF IInv, Types
  <1>5. Waits'  BY DEF IInv, Waits
  <1>6. OneAtATime'  BY DEF IInv, OneAtATime
  <1>7. LinesAreTrue'
    <2> SUFFICES ASSUME NEW resp \in Said, stdout = <<Line(asked, resp)>>, Truthful(asked, resp)
                 PROVE  Truthful(asked, resp)'
      BY DEF IInv, LinesAreTrue
    <2>1. ~ (asked = "submit" /\ resp.status = "ok" /\ resp.outcome \in {"confirmed", "rejected"})
      BY <1>2 DEF Truthful
    <2> QED BY <1>2, <2>1 DEF Truthful
  <1>8. Budget'  BY DEF IInv, Budget
  <1>9. AnswerIsHonest'
    <2> SUFFICES ASSUME worker = "posted" PROVE wire' = 0 /\ \A b \in answer' : Honest(b, landed' = 1)
      BY DEF AnswerIsHonest, Honest
    <2>1. answer' = {a}  BY <1>1
    <2>2. Honest(a, landed' = 1)  BY <1>1, <1>3
    <2> QED BY <1>2, <2>1, <2>2
  <1>10. Settled'  BY <1>2 DEF IInv, Settled
  <1> QED BY <1>4, <1>5, <1>6, <1>7, <1>8, <1>9, <1>10 DEF IInv

LEMMA DiesKeeps == ASSUME IInv, WorkerDies PROVE IInv'
  <1> USE DEF WorkerDies, run, pipes, portal
  <1>1. Types'  BY DEF IInv, Types
  <1>2. Waits'  BY DEF IInv, Waits
  <1>3. OneAtATime'  BY DEF IInv, OneAtATime, Ops
  <1>4. LinesAreTrue'
    <2>1. UNCHANGED <<stdout, asked, posts, wire, landed>>  OBVIOUS
    <2> QED BY <2>1 DEF IInv, LinesAreTrue, Truthful
  <1>5. Budget'  BY DEF IInv, Budget
  <1>6. AnswerIsHonest'  BY DEF AnswerIsHonest
  <1>7. Settled'  BY DEF IInv, Settled
  <1> QED BY <1>1, <1>2, <1>3, <1>4, <1>5, <1>6, <1>7 DEF IInv

LEMMA StutterKeeps == ASSUME IInv, UNCHANGED vars PROVE IInv'
  <1> USE DEF vars, run, pipes, portal
  <1>1. Types' /\ Waits' /\ OneAtATime' /\ Budget'  BY DEF IInv, Types, Waits, OneAtATime, Budget
  <1>2. LinesAreTrue'  BY DEF IInv, LinesAreTrue, Truthful
  <1>3. AnswerIsHonest' /\ Settled'  BY DEF IInv, AnswerIsHonest, Honest, Settled
  <1> QED BY <1>1, <1>2, <1>3 DEF IInv

LEMMA WorkerKeeps == ASSUME IInv, WorkerProcess PROVE IInv'
  BY StartsKeeps, ReadsKeeps, LooksKeeps, CannotPostKeeps, PostsKeeps, GivesUpKeeps,
     ClassifiesKeeps, DiesKeeps DEF WorkerProcess

-----------------------------------------------------------------------------
(* The coordinator. *)

(* It has asked for nothing, or waits no longer. *)
LEMMA StopsWaiting ==
  ASSUME IInv, step # "connect", asked' = "none", stdout' = << >>, UNCHANGED <<stdin, worker, portal>>,
         unusable' \in BOOLEAN, unusable => unusable',
         ~ unusable' => stdin = << >> /\ worker \in {"idle", "dead"},
         attempt' \in Nat, code' \in {-1, 0, 1, 3, 4}, step' \in Ops \cup {"closing"},
         step' \in Ops => posts = 0 /\ worker # "submit" /\ stdin # <<"submit">>,
         Settled'
  PROVE  IInv'
  <1> USE DEF portal
  <1>1. Types'  BY DEF IInv, Types, Before, Ops
  <1>2. Waits'  BY DEF IInv, Waits, Ops
  <1>3. OneAtATime'  BY DEF IInv, OneAtATime, Ops
  <1>4. LinesAreTrue'  BY DEF LinesAreTrue
  <1>5. Budget'  BY DEF IInv, Budget, Before
  <1>6. AnswerIsHonest'  BY DEF IInv, AnswerIsHonest, Honest
  <1> QED BY <1>1, <1>2, <1>3, <1>4, <1>5, <1>6 DEF IInv

(* It asks, as long as its worker is usable and nothing is posted. *)
LEMMA Asks ==
  ASSUME IInv, NEW op \in Ops, step = op, asked = "none", Write(op),
         UNCHANGED <<step, code, worker, portal>>, attempt' \in Nat
  PROVE  IInv'
  <1> USE DEF portal
  <1>1. /\ stdin = << >> /\ stdout = << >> /\ stdout' = << >> /\ asked' = op /\ ~ unusable
        /\ unusable' = unusable /\ worker \in {"idle", "dead"}
    BY DEF Write, IInv, OneAtATime, Waits, Ops
  <1>2. stdin' = <<op>>  BY <1>1, AppendToNothing DEF Write
  <1>3. posts = 0  BY DEF IInv, Budget, Before, Ops
  <1>4. <<op>> = <<"submit">> => op = "submit"  BY OneElement
  <1>5. Types'  BY <1>1, <1>2 DEF IInv, Types, Ops
  <1>6. Waits'  BY <1>1 DEF IInv, Waits, Ops
  <1>7. OneAtATime'  BY <1>1, <1>2 DEF OneAtATime, Ops
  <1>8. LinesAreTrue'  BY <1>1 DEF LinesAreTrue
  <1>9. Budget'  BY <1>1, <1>2, <1>3, <1>4 DEF IInv, Budget
  <1>10. AnswerIsHonest'  BY DEF IInv, AnswerIsHonest, Honest
  <1>11. Settled'  BY DEF Settled, Ops
  <1> QED BY <1>5, <1>6, <1>7, <1>8, <1>9, <1>10, <1>11 DEF IInv

LEMMA ConnectKeeps == ASSUME IInv, Connect PROVE IInv'
  <1> USE DEF Connect, pipes, portal
  <1>1. /\ stdin = << >> /\ stdout = << >> /\ worker = "none" /\ asked = "none"
        /\ posts = 0 /\ wire = 0 /\ landed = 0
    BY DEF IInv, Waits, OneAtATime, Types, Budget, Before, Ops
  <1>2. stdin # <<"submit">>  BY <1>1, OneElement
  <1>3. CASE Ends(1) /\ unusable' = TRUE /\ UNCHANGED <<worker, asked>>
    <2> USE <1>3 DEF Ends
    <2>1. Types'  BY DEF IInv, Types
    <2>2. Waits'  BY <1>1 DEF Waits
    <2>3. OneAtATime'  BY <1>1 DEF OneAtATime
    <2>4. LinesAreTrue'  BY <1>1 DEF LinesAreTrue
    <2>5. Budget'  BY <1>1, <1>2 DEF Budget
    <2>6. AnswerIsHonest'  BY <1>1 DEF AnswerIsHonest
    <2>7. Settled'  BY <1>1, <1>2 DEF Settled
    <2> QED BY <2>1, <2>2, <2>3, <2>4, <2>5, <2>6, <2>7 DEF IInv
  <1>4. CASE worker' = "starting" /\ step' = "ready" /\ asked' = "ready" /\ UNCHANGED <<code, unusable>>
    <2> USE <1>4
    <2>0. ~ unusable  BY DEF IInv, Waits
    <2>1. Types'  BY DEF IInv, Types, Before
    <2>2. Waits'  BY <1>1, <2>0 DEF Waits
    <2>3. OneAtATime'  BY <1>1, <2>0 DEF OneAtATime, Ops
    <2>4. LinesAreTrue'  BY <1>1 DEF LinesAreTrue
    <2>5. Budget'  BY <1>1, <1>2 DEF Budget
    <2>6. AnswerIsHonest'  BY DEF AnswerIsHonest
    <2>7. Settled'  BY DEF Settled
    <2> QED BY <2>1, <2>2, <2>3, <2>4, <2>5, <2>6, <2>7 DEF IInv
  <1> QED BY <1>3, <1>4

(* Before the submission nothing is posted, whatever becomes of a wait. *)
LEMMA NothingPosted ==
  ASSUME IInv, step \in {"ready", "session", "options"}
  PROVE  posts = 0 /\ wire = 0 /\ landed = 0 /\ worker # "submit" /\ stdin # <<"submit">>
  BY DEF IInv, Waits, Budget, Types, Before, Ops

LEMMA EarlyKeeps ==
  ASSUME IInv, step \in {"ready", "session", "options"}, UNCHANGED <<attempt, worker, portal>>,
         GetsNothing \/ \E resp : Receives(resp),
         \/ step' \in Ops /\ UNCHANGED code
         \/ Ends(1)
  PROVE  IInv'
  <1>1. posts = 0 /\ wire = 0 /\ landed = 0 /\ worker # "submit" /\ stdin # <<"submit">>
    BY NothingPosted
  <1>2. /\ asked' = "none" /\ stdout' = << >> /\ stdin' = stdin /\ unusable' \in BOOLEAN
        /\ unusable => unusable'
        /\ ~ unusable' => stdin = << >> /\ worker \in {"idle", "dead"}
    BY Heard, Unheard DEF IInv, Types
  <1>3. code' \in {-1, 0, 1, 3, 4} /\ step' \in Ops \cup {"closing"} /\ attempt' \in Nat
    BY DEF Ends, IInv, Types
  <1>4. Settled'  BY <1>1, <1>2 DEF Settled, Ends, Ops, portal
  <1> QED BY <1>1, <1>2, <1>3, <1>4, StopsWaiting

(* It could not even ask. *)
LEMMA CannotAsk ==
  ASSUME IInv, NEW op \in Ops, step = op, asked = "none", CannotWrite,
         UNCHANGED <<worker, portal>>, attempt' \in Nat,
         \/ step' \in Ops /\ UNCHANGED code
         \/ Ends(1) /\ op # "submit"
         \/ Ends(3)
  PROVE  IInv'
  <1>1. posts = 0 /\ wire = 0 /\ landed = 0 /\ worker # "submit" /\ stdin # <<"submit">>
    BY DEF IInv, Budget, Before, Ops, Types
  <1>2. asked' = "none" /\ stdout' = << >> /\ unusable' = TRUE /\ stdin' = stdin
    BY DEF CannotWrite, Invalidate
  <1>3. code' \in {-1, 0, 1, 3, 4} /\ step' \in Ops \cup {"closing"} /\ step # "connect"
    BY DEF Ends, IInv, Types, Ops
  <1>4. Settled'  BY <1>1, <1>2 DEF Settled, Ends, Ops, portal
  <1> QED BY <1>1, <1>2, <1>3, <1>4, StopsWaiting

LEMMA AskKeeps == ASSUME IInv, NEW op \in {"session", "options"}, Ask(op) PROVE IInv'
  <1> USE DEF Ask
  <1>1. op \in Ops /\ attempt' \in Nat  BY DEF Ops, IInv, Types
  <1>2. CASE Write(op) /\ UNCHANGED <<step, code>>  BY <1>1, <1>2, Asks
  <1>3. CASE /\ CannotWrite
             /\ IF op = "session" THEN Ends(1) ELSE step' = "submit" /\ UNCHANGED code
    <2>1. \/ step' \in Ops /\ UNCHANGED code
          \/ Ends(1) /\ op # "submit"
      BY <1>3 DEF Ops
    <2> QED BY <1>1, <1>3, <2>1, CannotAsk
  <1> QED BY <1>2, <1>3

LEMMA SubmitKeeps == ASSUME IInv, Submit PROVE IInv'
  <1> USE DEF Submit
  <1>1. "submit" \in Ops /\ attempt' \in Nat  BY DEF Ops, IInv, Types
  <1>2. CASE Write("submit") /\ UNCHANGED <<step, code>>  BY <1>1, <1>2, Asks
  <1>3. CASE CannotWrite /\ Ends(3)  BY <1>1, <1>3, CannotAsk
  <1> QED BY <1>2, <1>3

(* What a verdict is founded on. *)
LEMMA Verdicts ==
  ASSUME NEW resp \in Said, resp.status \in {"ok", "error"}
  PROVE  /\ DecideSubmit(resp) \in {"accept", "reject", "halt", "retry"}
         /\ DecideSubmit(resp) = "accept" =>
              resp.status = "ok" /\ resp.outcome \in {"confirmed", "duplicate"}
         /\ DecideSubmit(resp) = "reject" =>
              \/ resp.status = "ok" /\ resp.outcome \in {"rejected", "none"}
              \/ resp.status = "error" /\ resp.provesNothing
         /\ DecideSubmit(resp) = "retry" => resp.status = "error" /\ resp.provesNothing
  <1>1. CASE resp.status = "ok"
    <2>1. resp.outcome \in OkOutcomes \cup {"none"}
      BY <1>1 DEF Said, Responses, OkReply, ErrorReply, ReadyReply
    <2>2. CASE resp.outcome \in {"confirmed", "duplicate"}
      BY <1>1, <2>2 DEF DecideSubmit
    <2>3. CASE resp.outcome = "rejected"  BY <1>1, <2>3 DEF DecideSubmit
    <2>4. CASE resp.outcome \in {"indeterminate", "unrecognized"}
      BY <1>1, <2>4 DEF DecideSubmit
    <2>5. CASE resp.outcome = "none"
      <3>1. ~ IsRecoverable(resp.code)
        BY <1>1, <2>5 DEF IsRecoverable, RecoverableCodes, Said, Responses, OkReply, ErrorReply, ReadyReply, OkOutcomes
      <3> QED BY <1>1, <2>5, <3>1 DEF DecideSubmit
    <2> QED BY <2>1, <2>2, <2>3, <2>4, <2>5 DEF OkOutcomes
  <1>2. CASE resp.status = "error"
    <2>1. CASE AbortsBatch(resp.code) \/ ~ resp.provesNothing  BY <1>2, <2>1 DEF DecideSubmit
    <2>2. CASE ~ (AbortsBatch(resp.code) \/ ~ resp.provesNothing)
      BY <1>2, <2>2 DEF DecideSubmit
    <2> QED BY <2>1, <2>2
  <1> QED BY <1>1, <1>2

(* A retry follows a line that proves nothing was submitted, so nothing was.     *)
LEMMA AnsweredKeeps == ASSUME IInv, NEW resp \in Responses, SubmitAnswered(resp) PROVE IInv'
  <1> USE DEF SubmitAnswered
  <1> DEFINE verdict == DecideSubmit(resp)
  <1>1. /\ Truthful("submit", resp) /\ asked' = "none" /\ ~ unusable
        /\ stdin = << >> /\ stdout' = << >> /\ worker \in {"idle", "dead"}
        /\ UNCHANGED <<unusable, stdin>>
    <2>1. asked = "submit"  BY Heard DEF IInv, Waits
    <2> QED BY <2>1, Heard
  <1>2. stdin # <<"submit">>  BY <1>1, OneElement
  <1>3. resp \in Said /\ resp.status \in {"ok", "error"}  BY <1>1 DEF Truthful, Ops
  <1>4. code' \in {-1, 0, 1, 3, 4} /\ step' \in {"submit", "closing"} /\ attempt' \in Nat
    BY DEF Ends, IInv, Types
  <1>5. step' = "submit" => verdict = "retry"  BY DEF Ends
  <1>6. step' = "closing" =>
          \/ verdict = "accept" /\ code' = 0
          \/ verdict \in {"reject", "retry"} /\ code' = 4
          \/ code' = 3
    BY DEF Ends
  <1>7. verdict = "retry" => posts = 0  BY <1>1, <1>3, Verdicts DEF Truthful
  <1>8. verdict = "accept" => wire = 0 /\ landed = 1
    BY <1>1, <1>3, Verdicts DEF Truthful
  <1>9. verdict \in {"reject", "retry"} => wire = 0 /\ (landed = 0 \/ CommitsOnError)
    BY <1>1, <1>3, Verdicts DEF Truthful, IInv, Types
  <1> HIDE DEF verdict
  <1>10. Settled'  BY <1>1, <1>2, <1>4, <1>6, <1>8, <1>9 DEF Settled, portal
  <1>11. step' \in Ops \cup {"closing"}  BY <1>4 DEF Ops
  <1>12. step' \in Ops => posts = 0  BY <1>4, <1>5, <1>7 DEF Ops
  <1>13. unusable' \in BOOLEAN /\ step # "connect" /\ UNCHANGED <<worker, portal>>
    BY <1>1 DEF IInv, Types
  <1> QED BY <1>1, <1>2, <1>4, <1>10, <1>11, <1>12, <1>13, StopsWaiting

LEMMA UnansweredKeeps == ASSUME IInv, SubmitUnanswered PROVE IInv'
  <1> USE DEF SubmitUnanswered, Ends
  <1>1. asked' = "none" /\ stdout' = << >> /\ stdin' = stdin /\ unusable'  BY Unheard
  <1>2. unusable' \in BOOLEAN  BY DEF GetsNothing, Invalidate
  <1>3. attempt' \in Nat  BY DEF IInv, Types
  <1>4. Settled'  BY DEF Settled
  <1> QED BY <1>1, <1>2, <1>3, <1>4, StopsWaiting DEF Ops

LEMMA ShutdownKeeps == ASSUME IInv, Shutdown PROVE IInv'
  <1> USE DEF Shutdown, Invalidate, portal
  <1>1. asked = "none" /\ stdout' = << >> /\ unusable' = TRUE
    BY DEF IInv, Types, Waits, Ops
  <1>2. Types'  BY DEF IInv, Types
  <1>3. Waits'  BY <1>1 DEF IInv, Waits
  <1>4. OneAtATime'  BY <1>1 DEF IInv, OneAtATime
  <1>5. LinesAreTrue'  BY <1>1 DEF LinesAreTrue
  <1>6. Budget'  BY DEF IInv, Budget, Before, Ops
  <1>7. AnswerIsHonest'  BY DEF IInv, AnswerIsHonest, Honest
  <1>8. Settled'  BY DEF IInv, Settled
  <1> QED BY <1>2, <1>3, <1>4, <1>5, <1>6, <1>7, <1>8 DEF IInv

LEMMA KilledKeeps == ASSUME IInv, Killed PROVE IInv'
  <1> USE DEF Killed, Invalidate, portal
  <1>1. stdout' = << >> /\ unusable' = TRUE  OBVIOUS
  <1>2. Types'  BY DEF IInv, Types
  <1>3. Waits'  BY <1>1 DEF IInv, Waits
  <1>4. OneAtATime'  BY <1>1 DEF IInv, OneAtATime
  <1>5. LinesAreTrue'  BY <1>1 DEF LinesAreTrue
  <1>6. Budget'  BY DEF IInv, Budget, Before, Ops
  <1>7. AnswerIsHonest'  BY DEF IInv, AnswerIsHonest, Honest
  <1>8. Settled'  BY DEF Settled
  <1> QED BY <1>2, <1>3, <1>4, <1>5, <1>6, <1>7, <1>8 DEF IInv

LEMMA CoordinatorKeeps == ASSUME IInv, Coordinator PROVE IInv'
  <1>1. CASE Ready  BY <1>1, EarlyKeeps DEF Ready, Ops
  <1>2. CASE SessionAnswered  BY <1>2, EarlyKeeps DEF SessionAnswered, Ops
  <1>3. CASE OptionsAnswered  BY <1>3, EarlyKeeps DEF OptionsAnswered, Ops
  <1> QED BY <1>1, <1>2, <1>3, ConnectKeeps, AskKeeps, SubmitKeeps, UnansweredKeeps, ShutdownKeeps,
             AnsweredKeeps DEF Coordinator

-----------------------------------------------------------------------------
LEMMA InitHolds == Init => IInv
  <1> SUFFICES ASSUME Init PROVE IInv  OBVIOUS
  <1> USE DEF Init
  <1>1. << >> # <<"submit">>  BY OneElement
  <1>2. Types
    <2>1. code \in {-1, 0, 1, 3, 4} /\ attempt \in Nat /\ answer \subseteq Answers  OBVIOUS
    <2>2. stdin \in {<< >>, <<"session">>, <<"options">>, <<"submit">>}  OBVIOUS
    <2>3. posts \in {0, 1} /\ wire \in {0, 1} /\ landed \in {0, 1} /\ wire + landed <= posts
      OBVIOUS
    <2>4. step \in Before /\ worker = "none" /\ asked = "none" /\ unusable \in BOOLEAN
      BY DEF Before
    <2> HIDE DEF Init
    <2> QED BY <2>1, <2>2, <2>3, <2>4 DEF Types
  <1>3. Waits /\ OneAtATime /\ LinesAreTrue  BY DEF Waits, OneAtATime, LinesAreTrue, Ops
  <1>4. Budget /\ AnswerIsHonest /\ Settled  BY <1>1 DEF Budget, AnswerIsHonest, Settled
  <1> QED BY <1>2, <1>3, <1>4 DEF IInv

THEOREM Invariance == Spec => []IInv
  <1>1. IInv /\ [Next]_vars => IInv'
    BY CoordinatorKeeps, KilledKeeps, WorkerKeeps, PortalKeeps, StutterKeeps DEF Next, Over
  <1> QED BY <1>1, InitHolds, PTL DEF Spec

-----------------------------------------------------------------------------
(* Theorems. *)

(* However often a submission is retried and whatever is lost, late or killed,  *)
(* one run POSTs at most once.                                                  *)
THEOREM OnePost == Spec => []AtMostOnePost
  <1>1. IInv => AtMostOnePost  BY DEF IInv, Types, AtMostOnePost
  <1> QED BY <1>1, Invariance, PTL

(* A line that claims nothing was submitted is only ever true, and one that     *)
(* reports an outcome follows the POST.                                         *)
THEOREM TrueClaims == Spec => []ClaimsAreTrue
  <1>1. IInv => ClaimsAreTrue
    <2> SUFFICES ASSUME IInv, NEW i \in DOMAIN stdout
                 PROVE  /\ stdout[i].resp.provesNothing => posts = 0 /\ ~ Outstanding
                        /\ stdout[i].op = "submit" /\ stdout[i].resp.status = "ok" => posts > 0
      BY DEF ClaimsAreTrue
    <2>1. stdout # << >>  OBVIOUS
    <2>2. PICK resp \in Said : stdout = <<Line(asked, resp)>> /\ Truthful(asked, resp)
      BY <2>1 DEF IInv, LinesAreTrue
    <2>3. stdout[i] = Line(asked, resp)  BY <2>2
    <2>4. stdout[i].op = asked /\ stdout[i].resp = resp  BY <2>3 DEF Line
    <2>5. stdin = << >> /\ worker \in {"idle", "dead"}  BY <2>1 DEF IInv, OneAtATime
    <2>6. posts = 0 => ~ Outstanding  BY <2>5 DEF Outstanding, IInv, Types
    <2> QED BY <2>2, <2>4, <2>6 DEF Truthful
  <1> QED BY <1>1, Invariance, PTL

(* Where the portal stores no record behind an error status, every exit code    *)
(* but 3 settles the submission.                                                *)
THEOREM ExitSettles == ASSUME ~ CommitsOnError PROVE Spec => []SettledIsSettled
  <1>1. IInv => SettledIsSettled
    <2> SUFFICES ASSUME IInv, step = "exited", code # 3
                 PROVE  ~ Outstanding /\ landed = IF code = 0 THEN 1 ELSE 0
      BY DEF SettledIsSettled
    <2>1. wire = 0 /\ worker # "submit" /\ stdin # <<"submit">>  BY DEF IInv, Settled
    <2>2. \A i \in DOMAIN stdin : stdin[i] # "submit"  BY <2>1 DEF IInv, Types
    <2>3. ~ Outstanding  BY <2>1, <2>2 DEF Outstanding
    <2> QED BY <2>3 DEF IInv, Settled
  <1> QED BY <1>1, Invariance, PTL

=============================================================================
