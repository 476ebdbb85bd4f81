CONSTANTS
  w1 = w1
  Wallet = {w1, w2}
  Task = {t1, t2}
  MaxNonce = 2
SPECIFICATION FairSpec
INVARIANTS TypeOK ReadyShowsOwnTap
PROPERTIES PendingBecomesReady
CONSTRAINT Explored
