SPECIFICATION Spec
CONSTANTS
  Currencies = {"USD", "INR"}
  MaxUnits = 100
  Agents = {demo, other}
  DemoAgent = demo
  DemoCap <- MCDemoCap
  Caps <- MCCaps
  Totals <- MCLiveTotals
  SessionIds = {s1, s2}
  Requests = {r1, r2}
  Mcp = Mcp
  MaxClock = 0
  MaxRegistrations = 0
  MayDrop = TRUE
INVARIANTS
  EveryChargeHasReceipt
