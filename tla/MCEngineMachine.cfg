SPECIFICATION MFairSpec
CONSTANTS
  t1 = t1
  t2 = t2
  t3 = t3
  NoTrainee = NoTrainee
  Trainees = {t1, t2, t3}
  Jobs <- MCJobs
  Replies <- MCReplies
  MaxAttempts = 2
  MaxStarts = 4
  Controlled = TRUE
INVARIANTS
  AtMostOnce
  FileIsTrue
  MachineFollows
PROPERTIES
  UnconfirmedSurvives
  StopIsKept
  RefusalDoesNotExpire
  CleanExitMeansAllConfirmed
  ImplementsLedger
  RunsEnd
