SPECIFICATION Spec
CONSTANTS
  alice = alice
  bob = bob
  m1 = m1
  m2 = m2
  m3 = m3
  User <- Users
  Msg <- LocalAndFederated
  From <- FromAlice
  To <- FirstAndThirdLocal
  ViaHost <- ThirdViaHost
  Elsewhere = Elsewhere
  Faults = {"status", "build", "deliver", "answerLost", "push", "crash"}
INVARIANTS
  StatusIsEarned
  AcceptedMailHasItsRows
  LocalMailStaysHome
