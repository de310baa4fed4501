SPECIFICATION BridgeFairSpec
CONSTANTS
  Commands = {c1, c2, c3}
  Ttl = 2
  MaxArm = 3
  ReplyWait = 1
INVARIANTS CommandsAreCovered
PROPERTIES ThePageRecovers
