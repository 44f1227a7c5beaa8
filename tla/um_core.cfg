CONSTANTS
  c1 = c1  c2 = c2  c3 = c3
  alice = alice  alice_ = alice_  bob = bob
  ua = ua  ub = ub
  none = none  admins = admins  rootRule = rootRule
  Conn <- Conn3
  Identity <- Colliding
  User = {ua}
  Derive <- DeriveColliding
  Groups <- GroupLists  NoGroups = none
  Rules <- SudoRules  NoRule = none
  Perms <- OnePerms
  NoId = NoId  NoUser = NoUser  Free = Free
  Preexisting = {}
  MayFail = {"useradd", "usermod", "visudo", "rmsudoers", "userdel", "state", "read", "crash"}
SPECIFICATION FairSpec
INVARIANTS TypeOK RefCount OneOwner LockDiscipline
PROPERTIES LeaseRefinement CleanupKeepsFailures EveryCallEnds
