-------------------------- MODULE MCRefusalAdvice --------------------------
(***************************************************************************)
(* A small instance of RefusalAdvice.  The files are those of recovery.rs's  *)
(* own tests, over three trainees: what this build leaves when it is killed,  *)
(* stopped or runs to its end, what one that kept no in_flight key left, with *)
(* nobody, one or two waiting behind its suspect, and files whose counts are  *)
(* short of their total.                                                     *)
(***************************************************************************)
EXTENDS RefusalAdvice, TLC

CONSTANTS t1, t2, t3

MCJobs == {<<t1>>}

MCReplies ==
  {OkReply("confirmed"), ErrorReply("ELEMENT_NOT_FOUND", TRUE), ErrorReply("VALIDATION_FAILED", TRUE)}

File(status, rows, skp, pend, flying, missing) ==
  [status |-> status, results |-> rows, skipped |-> skp, pending |-> pend,
   inFlight |-> flying, tracks |-> TRUE,
   total |-> Len(rows) + Len(skp) + Len(pend) + (IF flying = NoTrainee THEN 0 ELSE 1) + missing]

Landed == << [who |-> t1, outcome |-> "success"] >>
Doubt == << [who |-> t2, outcome |-> "indeterminate"] >>

Old(cp) == [cp EXCEPT !.tracks = FALSE]

MCFiles ==
  {NoFile,
   File("running", Landed, << >>, <<t3>>, t2, 0),           \* killed mid-submit
   File("running", Landed, << >>, << >>, t2, 0),            \* the same, on the last one
   File("running", Landed, << >>, <<t2, t3>>, NoTrainee, 0),
   File("running", Landed, << >>, << >>, NoTrainee, 0),     \* killed before the finish
   File("aborted", Landed \o Doubt, <<t3>>, << >>, NoTrainee, 0),
   File("aborted", Doubt, << >>, << >>, NoTrainee, 0),
   File("finished", Landed \o Doubt, << >>, << >>, NoTrainee, 0),
   File("interrupted", Landed, << >>, <<t2>>, NoTrainee, 1), \* one short
   File("interrupted", Landed, << >>, << >>, NoTrainee, 2),
   Old(File("running", Landed, << >>, <<t2>>, NoTrainee, 0)),
   Old(File("running", << >>, << >>, <<t2>>, NoTrainee, 0)),
   Old(File("running", Landed, << >>, <<t2, t3>>, NoTrainee, 0)),
   Old(File("running", << >>, << >>, <<t1, t2, t3>>, NoTrainee, 0)),
   Old(File("interrupted", Landed, <<t3>>, << >>, NoTrainee, 0))}

=============================================================================
