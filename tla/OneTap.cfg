CONSTANTS
  Pipe = {alice}
  Secret = {s1}
  Handler = {h1, h2}
  Anchor <- OneState
  Setting <- FreePrice
  MaxBalance = 3
  MaxNonce = 3
  MaxInteger = 2
  MaxPayments = 2
SPECIFICATION Spec
INVARIANTS TypeOK TotalsConserved CheckpointIsFinal
PROPERTIES OptimisticRowsCovered
SYMMETRY Symmetry
