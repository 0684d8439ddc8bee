SPECIFICATION SuiteSpec
CONSTANTS
  Servers = {n1, n2}
  Users = {u1, u2}
  Probes = {p1}
  Domains = {d1}
  Dotted = {}
  NoSearch = {}
  None = None
  Limits = {2, 3}
  MaxReissues = 1
  MaxRetransmits = 2
  MaxTimeouts = 1
  DisableWhenInactive = FALSE
  NIds = 5
  Draws <- Draw
  MaxNet = 1
  Scenarios <- Cases
  Families = {{"v4"}, {"v6"}, {"v4", "v6"}}
  Requests = {r1, r2, r3}
  n1 = n1
  n2 = n2
  u1 = u1
  u2 = u2
  p1 = p1
  d1 = d1
  r1 = r1
  r2 = r2
  r3 = r3
INVARIANTS Accounting NoRequestIsForgotten DownServersAreProbed LookupsEndOnce PortOutlivesRequests
PROPERTIES KeepsPromise
CHECK_DEADLOCK FALSE
