SPECIFICATION FairSpec
CONSTANTS
  Currencies = {"USD", "INR"}
  MaxUnits = 2
  OrderIds = {o1, o2}
  Totals <- MCTotals
  Links = {l1, l2}
  Elsewhere = {p1}
  Requests = {r1, r2}
  NoPayment = NoPayment
  Unreported = Unreported
  MaxDeliveries = 2
INVARIANTS
  IInv PaidInFull ConfirmedByPayment
PROPERTIES
  PaidForGood PaymentsArrive
