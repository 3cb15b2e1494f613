SPECIFICATION Spec
CONSTANTS
  r1 = r1  r2 = r2  r3 = r3
  p1 = p1  p2 = p2  p3 = p3
  h1 = h1  h2 = h2
  NoReq = NoReq  NoPath = NoPath  NoHeading = NoHeading
  Reqs = {r1, r2}
  Paths = {p1, p2}
  Headings = {h1, h2}
  MaxDoc = 2
  MaxSec = 3
  Kinds = {"merge", "deleteSection"}
  Inputs <- MCInputsOne
  Pins = {"unset"}
  SecEdits <- MCSecEditsOne
  EdgeTypes = {"supersedes", "depends_on", "continues_from"}
  Mode <- MCModeReplace
  Perishable = {p1}
  ChainPaths = {}
  Failures = FALSE
  Doc0 <- MCDoc0
  Sec0 <- MCSec0
  Edge0 <- MCEdgeNone
PROPERTIES NeverEmptied
SYMMETRY MCSymmetry
