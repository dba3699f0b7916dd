SPECIFICATION Spec
CONSTANTS
  server = server
  home = home
  r1 = r1
  r2 = r2
  r3 = r3
  Node <- Daemons
  Hosted <- Servers
  Registration <- Requests
  At <- TwoAtTheServer
  NoRecord = NoRecord
  MaxTime = 3
  Faults = {"put", "save", "expire", "crash"}
INVARIANTS
  TypeOK
  EarlierClaimStands
  MineIsEarned
PROPERTY
  LookupFindsEarlierClaim
