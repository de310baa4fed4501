SPECIFICATION RosterSpec
CONSTANTS
  i1 = i1
  i2 = i2
  i3 = i3
  john = john
  JOHN = JOHN
  jane = jane
  Blank = Blank
  None = None
  Ids = {i1, i2, i3}
  Written = {john, JOHN, jane, Blank}
  Norm <- MCNorm
  Jobs <- MCJobs
  Portals <- MCPortals
  MaxChanges = 2
INVARIANTS ResolvedOrReported OnlyWholeRosters
