CONSTANTS
  c1 = c1  c2 = c2  alice = alice  bob = bob  ua = ua  ub = ub
  Conn <- Clients
  Id <- Both
  Mode = "per-identity"
  Principal = ziggy
  Derive <- DeriveBoth
  Ours = {c1}  Other = {c2}  Caller <- TwoUsers
  TTL = 1
  Margin = 0
  Burst = 1
  NoId = NoId  NoLine = NoLine  EmptyLine = EmptyLine  KeyLine = KeyLine
  CAKeyLine = CAKeyLine  LimitLine = LimitLine
SPECIFICATION FairSpec
INVARIANT IssuedToCaller
PROPERTIES OnlyDrainTimeoutCutsOff HandlersReturn SignReturns
