CONSTANTS
  alice = alice
  bob = bob
  Pipe = {alice, bob}
  Secret = {s1}
  Handler = {h1, h2}
  Anchor <- OneTap
  Setting <- FreePrice
  MaxBalance = 2
  MaxNonce = 3
  MaxInteger = 3
  MaxPayments = 1
  Message = {m1}
  From <- FromAlice
  To <- ToBob
  MaxPendingPerSender = 1
  MaxPendingPerRecipient = 1
  MaxDeferredPerSender = 1
  MaxDeferredPerRecipient = 1
  MaxDeferredGlobal = 1
  MaxMint = 2
SPECIFICATION Spec
INVARIANTS RefundedOnce
SYMMETRY Symmetry
