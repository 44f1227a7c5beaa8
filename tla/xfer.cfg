CONSTANTS
  tree = tree  sub = sub  leaf = leaf  other = other  otherleaf = otherleaf
  otherdot = otherdot  single = single  link = link  linked = linked  inlink = inlink
  NoNode = NoNode
  Node <- Nodes  Type <- Types  Base <- Bases  Entries <- Listing  Depth = 3
  Unsafe = {".."}
  ReadOnly = {sub}
  Job <- Jobs
  Local = "local"
  AtDst <- Destinations
  MayFail = {"connect", "stat", "mkdir", "readdir", "open", "copy", "chtimes", "close"}
SPECIFICATION TransferSpec
CHECK_DEADLOCK FALSE
INVARIANTS SuccessIsComplete FailureIsLocal
