CONSTANTS
  Client = "web"
  Reader = {r1}
  Sender = {s1}
  Changer = {c1}
  Price = 1
  Target = 1
  Opening <- EvenTap
  Deposit <- Mature
  MaxNonce = 2
  MaxInteger = 2
SPECIFICATION FairSpec
INVARIANTS TypeOK ViewWasHeld
PROPERTIES ViewCatchesUp
CONSTRAINT Explored
