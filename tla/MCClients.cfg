SPECIFICATION Spec
CONSTANTS
  None = None
  hot = hot
  cold = cold
  mug = mug
  tea = tea
  Products <- MCProducts
  DefaultLimit = 3
  MaxLimit = 3
  Price <- MCPrice
  Asked = {2, 3, 5}
  Cap = 2
  Terminals = {t1, t2}
  MaxRuns = 2
  MaxRestarts = 1
  Waiting = Waiting
  Failure = Failure
  Queries <- MCQueries
  MaxMessages = 3
  ErrorAnswer = ErrorAnswer
INVARIANTS
  ReportsAreTrue OneOrderEach WalkFindsAll
PROPERTIES
  Ends
CHECK_DEADLOCK FALSE
