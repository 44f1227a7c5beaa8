CONSTANTS
  c1 = c1  c2 = c2  c3 = c3
  alice = alice  alice_ = alice_  bob = bob
  ua = ua  ub = ub
  none = none  admins = admins  rootRule = rootRule
  Conn <- Conn2
  Identity <- JustAlice
  User = {ua}
  Derive <- DeriveAlice
  Groups <- GroupLists  NoGroups = none
  Rules <- SudoRules  NoRule = none
  Perms <- OnePerms
  NoId = NoId  NoUser = NoUser  Free = Free
  Preexisting = {}
  MayFail = {}
SPECIFICATION Spec
SYMMETRY ConnSymmetry
PROPERTY ActiveAccountKept
