CONSTANTS
  alice = alice
  bob = bob
  carol = carol
  Message = {m1, m2, m3}
  Handler = {h1, h2}
  Address = {alice, bob, carol}
  From <- MCFrom
  To <- MCTo
  MaxPendingPerSender = 2
  MaxPendingPerRecipient = 2
  MaxDeferredPerSender = 1
  MaxDeferredPerRecipient = 2
  MaxDeferredGlobal = 1
  MaxMint = 1
SPECIFICATION Spec
INVARIANTS TypeOK DisclosedIsKept ClaimWritesOrdered DeferredOvershoot
