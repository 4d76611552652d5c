SPECIFICATION Spec
CONSTANTS
  Requests = {r1, r2}
  RpmLimit = 2
  TpmLimit = 4
  RateWindow = 1
  BudgetPeriod = 2
  Cap = 7
  Fee = 2
  TokenPrice = 1
  Cent = 3
  TokenCounts = {2}
  MaxNow = 2
  MaxErrors = 1
SYMMETRY Symmetry
INVARIANTS
  TypeOK
  BooksBalance
  FlatFeesWithinCap
  TokensNeverOverbilled
  RpmHolds
