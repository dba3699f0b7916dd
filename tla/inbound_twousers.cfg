SPECIFICATION Spec
CONSTANTS
  u1 = u1
  u2 = u2
  p1 = p1
  p2 = p2
  User <- TwoUsers
  Packet <- TwoPackets
  To <- EachToOwn
  Readable <- TwoPackets
  Task = {t1}
  StoreFaults = {"fetch", "save", "mark"}
  MaxRows = 2
  NoUser = NoUser
  NoPacket = NoPacket
INVARIANT
  TypeOK
