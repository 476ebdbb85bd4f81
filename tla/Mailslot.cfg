CONSTANTS
  alice = alice
  bob = bob
  Pipe = {alice, bob}
  Secret = {s1}
  Handler = {h1, h2}
  Anchor <- OneTap
  Setting <- TwoFees
  MaxBalance = 2
  MaxNonce = 2
  MaxInteger = 2
  MaxPayments = 1
  Message = {m1}
  From <- FromAlice
  To <- ToBob
  MaxPendingPerSender = 1
  MaxPendingPerRecipient = 1
  MaxDeferredPerSender = 1
  MaxDeferredPerRecipient = 1
  MaxDeferredGlobal = 1
  MaxMint = 2
SPECIFICATION Spec
INVARIANTS TypeOK CancelledIsRefunded CommitmentsAreSigned
PROPERTIES ImplementsReservoir ImplementsMailbox
SYMMETRY Symmetry
