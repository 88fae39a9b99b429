SPECIFICATION LedgerSpec
CONSTANTS
  Currencies = {"USD", "INR"}
  MaxUnits = 3
  ConsentIds = {c1, c2}
  Devices = {mobile, pc}
  Minors <- MCMinors
SYMMETRY MCSymmetry
INVARIANTS
  LedgerInv DrawnWithinLimit
PROPERTIES
  HeadroomNeverGrows
