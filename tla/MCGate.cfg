SPECIFICATION Spec
CONSTANTS
  Requests = {r1, r2, r3}
  Agents = {demo, a1}
  SigningKeys = {kdemo, k1}
  Unsigned = unsigned
  DemoAgent = demo
  DemoKey = kdemo
  Clients = {ip}
  WriteLimit = 1
  ReadLimit = 2
  Window = 2
  MaxAge = 1
  MaxClock = 2
SYMMETRY MCSymmetry
INVARIANTS
  IInv LongRunRate
PROPERTIES
  ThrottledWithCause QuotaSpentByItsAgent
