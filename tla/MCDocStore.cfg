SPECIFICATION FairSpec
CONSTANTS
  r1 = r1  r2 = r2  r3 = r3
  p1 = p1  p2 = p2  p3 = p3
  h1 = h1  h2 = h2
  NoReq = NoReq  NoPath = NoPath  NoHeading = NoHeading
  Reqs = {r1, r2}
  Paths = {p1, p2, p3}
  Headings = {h1, h2}
  MaxDoc = 5
  MaxSec = 8
  Kinds = {"store", "put", "update", "verify", "flag", "title", "delete", "evict", "deleteSection", "merge", "link", "unlink", "archive"}
  Inputs <- MCInputs
  Pins = {"unset", "true"}
  SecEdits <- MCSecEdits
  EdgeTypes = {"supersedes", "depends_on", "continues_from"}
  Mode <- MCModeReplace
  Perishable = {p1}
  ChainPaths = {p3}
  Failures = TRUE
  Doc0 <- MCDocArchived
  Sec0 <- MCSecArchived
  Edge0 <- MCEdge0
INVARIANTS TypeOK RefIntegrity OneLivePerPath
PROPERTIES TitleNotReverted Served
