SPECIFICATION FairSpec
CONSTANTS
  alice = alice
  bob = bob
  m1 = m1
  m2 = m2
  hello = hello
  Node <- Pair
  Mail <- TwoMails
  From <- FirstFromAlice
  To <- BothToBob
  Subject <- OneSubject
  SubjectOf <- Greeting
  NoMail = NoMail
  Faults = {"build", "push", "crash", "drop", "age"}
INVARIANT
  SenderHasTrace
PROPERTY
  PublishedMailArrives
