CONSTANTS
  ctrl1 = ctrl1  ctrl2 = ctrl2  key1 = key1  key2 = key2
  Ctrl <- TwoCtrls
  Key = {key1, key2}
  KeyOf <- KeyOfTwo
  MayFail = {"dial", "list", "persist", "read", "write", "reload", "enroll", "crash"}
  MaxFaults = 1
  MaxChanges = 2
  MaxTokens = 2
  \* The proofs cover both kinds, and TLC too with {FALSE, TRUE}, in twice the time.
  Socket = {FALSE}
SPECIFICATION FairSpec
INVARIANT SshdCurrent
PROPERTIES NeverLockedOut HostFollowsCluster
\* A failed enrollment may have spent the last token and left no identity.
CHECK_DEADLOCK FALSE
