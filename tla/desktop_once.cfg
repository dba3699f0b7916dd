SPECIFICATION Spec
CONSTANTS
  alice = alice
  bob = bob
  m1 = m1
  m2 = m2
  hello = hello
  Node <- Pair
  Mail <- TwoMails
  From <- FirstFromAlice
  To <- FirstToBob
  Subject <- OneSubject
  SubjectOf <- Greeting
  NoMail = NoMail
  Faults = {"saveSent", "saveInbox", "has", "crash"}
INVARIANT
  TypeOK
PROPERTY
  OnceSpec
