CONSTANTS
  Pipe = {alice, bob}
  Secret = {s1, s2}
  Handler = {h1}
  Anchor <- EvenState
  Setting <- TwoFees
  MaxBalance = 2
  MaxNonce = 3
  MaxInteger = 2
  MaxPayments = 2
SPECIFICATION Spec
INVARIANTS TotalsConserved SecretOpensCheckpoint
SYMMETRY Symmetry
