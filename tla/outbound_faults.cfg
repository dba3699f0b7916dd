SPECIFICATION FairSpec
CONSTANTS
  alice = alice
  bob = bob
  m1 = m1
  m2 = m2
  m3 = m3
  User <- OnlyAlice
  Msg <- KeyAndFederated
  From <- FromAlice
  To <- OnlyFirstLocal
  ViaHost <- ThirdViaHost
  Elsewhere = Elsewhere
  Faults = {"saveSent", "lookup", "deliver", "answerLost"}
INVARIANTS
  TypeOK
  SendingMailIsUnderWay
CHECK_DEADLOCK FALSE
PROPERTY
  FederatedMailSettles
