CONSTANTS
  Client <- MCClient
  Message = {m1, u}
  Unreadable = {u}
  Task = {t1, t2}
  Limit <- MCLimit

SPECIFICATION FairSpec

INVARIANTS
  TypeOK
  ReturnedOnce

PROPERTIES
  ReadableIsSettled
  SettledIsRead

CHECK_DEADLOCK FALSE
