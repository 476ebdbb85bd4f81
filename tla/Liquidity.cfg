CONSTANTS
  Pipe = {alice}
  Secret = {s1}
  Handler = {h1}
  Anchor <- OpenedTap
  Setting <- FreePrice
  MaxBalance = 3
  MaxNonce = 3
  MaxInteger = 3
  MaxPayments = 1
  Request = {r1, r2}
  Amount = {1}
  Target = 2
  BorrowCap = 2
  Cooldown = 2
  MaxTime = 4
SPECIFICATION LSpec
INVARIANTS LTypeOK TotalsConserved RefreshOvershootBounded
CONSTRAINT Explored
SYMMETRY Symmetry
