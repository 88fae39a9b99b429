SPECIFICATION Spec
CONSTANTS
  mug = mug
  tea = tea
  Currencies = {"USD", "INR"}
  MaxUnits = 7
  ProductIds = {mug, tea}
  Price <- MCPrice
  Bodies <- MCBodies
  MaxId = 2
  Requests = {r1, r2, r3}
SYMMETRY MCSymmetry
INVARIANTS
  IInv IdsAreUnique CartsHoldServedProducts SnapshotsWereLive AnswersWereTrue
