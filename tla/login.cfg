CONSTANTS
  cmd = cmd  token = token  old = old  old_list = old_list  new_list = new_list
  f1 = f1  f2 = f2
  Writer = {cmd, token}
  Synced = {cmd, token}
  Doc <- Documents
  NoFile = NoFile  Torn = Torn
  Cmd = {cmd}
  Enroller = {token}
  Id = {old, token}
  Apis = {old_list, new_list}
  Enrolled = new_list  NoApis = NoApis
  Flow = {f1, f2}
  NoFlow = NoFlow
  FlowsOf <- TwoLogins
SPECIFICATION FairSpec
INVARIANT TokenFromOwnLogin
PROPERTIES FileRefinement IdentityKept PortIsFreed LoginEnds
