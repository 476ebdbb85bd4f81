CONSTANTS
  Wallet = {w1, w2}
  Task = {t1}
  AuthTtl = 5
  SessionTtl = 5
  CacheTtl = 4
  PromptTtl = 2

SPECIFICATION SessionFairSpec

INVARIANTS
  SessionTypeOK
  CredentialsFollowWallet

PROPERTIES
  EventuallyServed
