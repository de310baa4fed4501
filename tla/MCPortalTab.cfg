SPECIFICATION FairSpec
CONSTANTS
  t1 = t1
  t2 = t2
  NoTrainee = NoTrainee
  Trainees = {t1, t2}
  Requests <- MCRequests
  First = t1
  MaxAttempts = 2
  MaxStarts = 1
  MaxReloads = 1
  MaxLate = 1
INVARIANTS
  NoDuplicates
  AccountsForAll
PROPERTIES
  DoubtOrStopIsTheEnd
  RunEndsOrSleeps
