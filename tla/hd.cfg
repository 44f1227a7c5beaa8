CONSTANTS
  c1 = c1  c2 = c2  c3 = c3
  alice = alice  alice_ = alice_  ua = ua
  Service = {s1, s2}
  Conn <- Conn2
  Identity <- Ids
  User = {ua}
  Derive <- DeriveIds
  NoId = NoId  NoService = NoService
  MayFail = {"listen", "listener", "ensure", "sshd"}
SPECIFICATION FairSpec
INVARIANTS WaitGroupCounts LeaseWhileConnected
PROPERTIES DrainIsComplete AcceptedWhileServing SignalEnds CopiersEnd
