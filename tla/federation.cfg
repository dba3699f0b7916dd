SPECIFICATION FairSpec
CONSTANTS
  alice = alice
  bob = bob
  m1 = m1
  Sender <- JustAlice
  Account <- JustBob
  Msg <- OneMsg
  From <- FromAlice
  Addressee <- ToBob
  Readable <- OnlyFirst
  Task = {t1, t2}
  FaultsHere = {"deliver", "answerLost", "crash"}
  FaultsThere = {"record"}
  MaxRows = 2
  Elsewhere = Elsewhere
  NoUser = NoUser
  NoMsg = NoMsg
INVARIANTS
  TypeOK
  DeliveredMailIsKept
  DeliveredMailCameOnce
  DeliveredMailIsAttended
PROPERTIES
  FederatedMailSettles
  DeliveredMailIsFiled
