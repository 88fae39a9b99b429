SPECIFICATION FairSpec
CONSTANTS
  Currencies = {"USD", "INR"}
  MaxUnits = 100
  Agents = {demo, other}
  DemoAgent = demo
  DemoCap <- MCDemoCap
  Caps <- MCOneCap
  Totals <- MCUnitTotal
  SessionIds = {s1, s2}
  Requests = {r1, r2}
  Mcp = Mcp
  MaxClock = 1
  MaxRegistrations = 1
  MayDrop = FALSE
INVARIANTS
  AuditChronological EveryChargeHasReceipt
PROPERTIES
  KeepsPromise EveryRequestAnswered
