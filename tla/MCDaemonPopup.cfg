SPECIFICATION PopupFairSpec
CONSTANTS
  MaxRequests = 3
  MaxReads = 2
  MaxSaves = 1
  MaxElsewhere = 1
INVARIANTS OptionsOfThisClient
PROPERTIES StaleViewsUnlockNothing ComesToShowTheDaemon
CHECK_DEADLOCK FALSE
