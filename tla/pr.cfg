CONSTANTS
  c1 = c1  c2 = c2
  Service = {s1, s2}
  Conn <- Conn1
  Config = {p, q}
  Bad = Bad  Absent = Absent  Globals = Globals
  NoPerms = NoPerms  NoService = NoService
  Cleanup = TRUE
  MayHappen = {"bad"}
SPECIFICATION FairSpec
INVARIANT InSync
PROPERTY GoodConfigArrives
