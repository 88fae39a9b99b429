SPECIFICATION Spec
CONSTANTS
  Currencies = {"USD", "INR"}
  MaxUnits = 100
  Agents = {demo, other}
  DemoAgent = demo
  DemoCap <- MCDemoCap
  Caps <- MCCaps
  Totals <- MCTotals
  SessionIds = {s1, s2}
  Requests = {r1, r2, r3}
  Mcp = Mcp
  MaxClock = 0
  MaxRegistrations = 1
  MayDrop = TRUE
SYMMETRY MCSymmetry
INVARIANTS
  IInv PaidIffOrdered NoLateError ChargedOnce SpentIsCharged ReceiptsMatchCharges
PROPERTIES
  ClosedForGood
