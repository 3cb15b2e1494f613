SPECIFICATION FairSpec
CONSTANTS
  td = td  tp = tp  ts = ts  tx = tx  ea = ea  eb = eb  doc = doc  none = none  sys = sys
  r1 = r1 r2 = r2 n1 = n1
  Reqs = {r1, r2}
  Replicas = {n1}
  Tenants <- MCTenants
  Default = td
  Docs = {doc}
  Home <- MCHome
  Emails = {ea, eb}
  MaxUser = 3
  MaxKey = 3
  Roles = {"member", "admin", "owner"}
  Pins <- MCPins
  Relations = {"viewer", "manager"}
  Policy <- MCPolicy
  Allowlist = {eb}
  OAuth = TRUE
  MaxBoots = 1
  MaxConns = 4
  Few = 2
  Starts <- Household
  None = none
  Sys = sys
INVARIANT KeepsReach
CHECK_DEADLOCK FALSE
