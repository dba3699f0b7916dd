SPECIFICATION Spec
CONSTANTS
  alice = alice
  bob = bob
  m1 = m1
  m2 = m2
  m3 = m3
  User <- Users
  Msg <- ToKey
  From <- FromAlice
  To <- OnlyFirstLocal
  ViaHost <- NoneViaHost
  Elsewhere = Elsewhere
  Faults = {}
INVARIANT
  AcceptedMailIsPublished
