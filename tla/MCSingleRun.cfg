SPECIFICATION FairSpec
CONSTANTS
  MaxAttempts = 2
  CommitsOnError = FALSE
INVARIANTS
  AtMostOnePost
  ClaimsAreTrue
  SettledIsSettled
PROPERTIES
  RunEnds
