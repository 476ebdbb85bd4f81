CONSTANTS
  alice = alice
  bob = bob
  carol = carol
  Message = {m1, m2}
  Handler = {h1, h2}
  Address = {alice, bob, carol}
  From <- FromAlice
  To <- MCTo
  MaxPendingPerSender = 1
  MaxPendingPerRecipient = 1
  MaxDeferredPerSender = 2
  MaxDeferredPerRecipient = 2
  MaxDeferredGlobal = 2
  MaxMint = 2
SPECIFICATION FairSpec

PROPERTIES ImplementsLifecycle DeferredIsTemporary
