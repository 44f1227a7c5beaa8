CONSTANTS
  fL = fL  fR = fR  fD = fD
  Forward <- Three
  Kind <- KindOf
  Conn = {k1}
  NoForward = NoForward
SPECIFICATION FairSpec
INVARIANTS ReturnsShellResult
PROPERTIES CancelReleases
\* The command ends.
CHECK_DEADLOCK FALSE
