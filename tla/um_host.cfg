CONSTANTS
  c1 = c1  c2 = c2  c3 = c3
  alice = alice  alice_ = alice_  bob = bob
  ua = ua  ub = ub
  none = none  admins = admins  rootRule = rootRule
  Conn <- Conn3
  Identity <- TwoIds
  User = {ua, ub}
  Derive <- DeriveTwo
  Groups <- GroupLists  NoGroups = none
  Rules <- SudoRules  NoRule = none
  Perms <- TwoPerms
  NoId = NoId  NoUser = NoUser  Free = Free
  Preexisting = {}
  MayFail = {"state"}
SPECIFICATION Spec
SYMMETRY ConnSymmetry
INVARIANT HostMatchesSessions
PROPERTY LaterSessionGetsItsPerms
