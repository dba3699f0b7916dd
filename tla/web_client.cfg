SPECIFICATION FairSpec
CONSTANTS
  ann = ann
  ben = ben
  u1 = u1
  u2 = u2
  Person <- TwoPeople
  Username <- TwoNames
  t1 = t1
  t2 = t2
  t3 = t3
  Tab <- ThreeTabs
  Of <- AnnHasTwo
  Nobody = Nobody
  NoName = NoName
INVARIANTS
  TypeOK
  TokenOpensOwnAccount
  IdentityIsOfToken
PROPERTY
  AccountHolderGetsIn
