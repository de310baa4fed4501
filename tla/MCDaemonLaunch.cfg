SPECIFICATION Spec
CONSTANTS
  s1 = s1
  s2 = s2
  s3 = s3
  s4 = s4
  s5 = s5
  Starts = {s1, s2, s3, s4, s5}
  Port <- MCPort
  AnOrigin <- MCAnOrigin
  Removals = 1
SYMMETRY Alike
INVARIANTS TheTokenIsKept
CHECK_DEADLOCK FALSE
