SPECIFICATION ASpec
CONSTANTS
  t1 = t1
  t2 = t2
  t3 = t3
  NoTrainee = NoTrainee
  Trainees = {t1, t2, t3}
  Files <- MCFiles
  Jobs <- MCJobs
  Replies <- MCReplies
  MaxAttempts = 2
  MaxStarts = 3
  Controlled = TRUE
INVARIANTS PastIsKept CompleteOwesNobody
PROPERTIES PromiseKept
