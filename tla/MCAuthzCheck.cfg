SPECIFICATION FairSpec
CONSTANTS
  memory = memory  t1 = t1  d1 = d1  u1 = u1  anyone = anyone
  Objects <- MCObjects
  Type <- MCType
  Wildcards = {anyone}
  Relations <- RelationNames
  Namespace <- DefaultNamespace
  Tuples <- MCTuples
  Stores <- MCStores
  Commits <- MCCommits
  MaxCommits = 1
  MaxDepth = 5
  Queries <- MCQueries
  Subject = u1
  Failures = TRUE
INVARIANTS TypeOK Exact
PROPERTIES Returns
