SPECIFICATION FairSpec
CONSTANTS
  u1 = u1
  u2 = u2
  p1 = p1
  p2 = p2
  User <- OneUser
  Packet <- TwoPackets
  To <- OneUserTo
  Readable <- OnlyFirst
  Task = {t1, t2}
  StoreFaults = {"record"}
  MaxRows = 2
  NoUser = NoUser
  NoPacket = NoPacket
INVARIANTS
  LoggedInUserIsAttended
  PromiseKept
PROPERTIES
  ContractSpec
  AttendedMailIsProcessed
