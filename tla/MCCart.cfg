SPECIFICATION Calls
CONSTANTS
  mug = mug
  tee = tee
  tea = tea
  lost = lost
  Currencies = {"USD", "INR"}
  MaxUnits = 12
  ProductIds = {mug, tee, tea, lost}
  Price <- MCPrice
  CartCurrency = "USD"
  MaxQuantity = 3
INVARIANTS
  WellFormed TotalIsExact
PROPERTIES
  BehavesAsMap
