SPECIFICATION Spec
CONSTANTS
  r1 = r1  r2 = r2  r3 = r3
  p1 = p1  p2 = p2  p3 = p3
  h1 = h1  h2 = h2
  NoReq = NoReq  NoPath = NoPath  NoHeading = NoHeading
  Reqs = {r1, r2, r3}
  Paths = {p1, p2}
  Headings = {h1, h2}
  MaxDoc = 3
  MaxSec = 6
  Kinds = {"store", "put", "update", "verify", "flag", "evict", "archive", "unlink", "title", "delete", "deleteSection", "link"}
  Inputs <- MCInputsOne
  Pins = {"unset"}
  SecEdits <- MCSecEditsOne
  EdgeTypes = {"supersedes", "depends_on", "continues_from"}
  Mode <- MCModeReplace
  Perishable = {p1}
  ChainPaths = {}
  Failures = FALSE
  Doc0 <- MCDocSmall
  Sec0 <- MCSecSmall
  Edge0 <- MCEdgeNone
INVARIANTS LastMeansLast OneLivePerPath
PROPERTIES NeverEmptied
