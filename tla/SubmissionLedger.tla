-------------------------- MODULE SubmissionLedger --------------------------
(***************************************************************************)
(* What a batch promises the operator about the portal, without any of its   *)
(* machinery: a durable record that names trainees, requests in a worker's   *)
(* hand, and POSTs.  A trainee is handed over only when the record names it  *)
(* and it was never exposed before; the record never lets go of an exposed   *)
(* trainee; a new account is opened only when no request is outstanding.     *)
(* BatchEngine implements this with `named` read off the checkpoint file.    *)
(***************************************************************************)
EXTENDS Naturals

CONSTANT Trainees

VARIABLES named, inHand, posted

ledger == <<named, inHand, posted>>

Exposed == inHand \cup {t \in Trainees : posted[t] > 0}

Init ==
  /\ named = {}
  /\ inHand = {}
  /\ posted = [t \in Trainees |-> 0]

(* The record is rewritten, possibly as a request is answered. *)
Rewrite ==
  /\ inHand' \subseteq inHand
  /\ named' \subseteq Trainees
  /\ Exposed' \subseteq named'
  /\ posted' = posted

HandOver(t) ==
  /\ t \in named /\ t \notin Exposed
  /\ inHand' = inHand \cup {t}
  /\ UNCHANGED <<named, posted>>

Post(t) ==
  /\ t \in inHand
  /\ inHand' = inHand \ {t}
  /\ posted' = [posted EXCEPT ![t] = @ + 1]
  /\ UNCHANGED named

(* A closed-out batch is run again. *)
Reopen ==
  /\ inHand = {}
  /\ posted' = [t \in Trainees |-> 0]
  /\ UNCHANGED <<named, inHand>>

Next ==
  \/ Rewrite \/ Reopen
  \/ \E t \in Trainees : HandOver(t) \/ Post(t)

Spec == Init /\ [][Next]_ledger

=============================================================================
