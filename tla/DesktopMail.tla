---------------------------- MODULE DesktopMail ----------------------------
(***************************************************************************)
(* Single-user Dmail daemons (desktop mode) that mail each other over the  *)
(* DHT.                                                                    *)
(*                                                                         *)
(* A send runs in a goroutine: stamp the packet, save the sender's copy,   *)
(* push the packet under the context of the HTTP request that asked for    *)
(* it.  Every daemon polls one DHT key, that of its own address, and files *)
(* what it finds unless it has a row with the packet's message id.         *)
(*                                                                         *)
(* A mail is sent to one recipient and has one packet, so a mail stands    *)
(* for its packet and for the uuid in it.  The sender cannot decrypt its   *)
(* own packet, so the row of the sent copy gets the SUBJECT as its id; only *)
(* of a mail to oneself it is the uuid.                                    *)
(*                                                                         *)
(* The DHT is modelled from how pkg/node uses it: each daemon is also a    *)
(* DHT server and keeps, in memory, one value per recipient, the last that *)
(* was put there.                                                          *)
(***************************************************************************)
CONSTANTS
  Node,       \* the daemons
  Mail,       \* the sends that may happen, one each
  From, To,   \* From[m], To[m]: the daemons m goes from and to
  Subject,
  SubjectOf,  \* SubjectOf[m]
  NoMail,
  Faults      \* what may go wrong in this instance

ASSUME ConstantsAssumption ==
  /\ From \in [Mail -> Node]
  /\ To \in [Mail -> Node]
  /\ SubjectOf \in [Mail -> Subject]
  /\ Subject \cap Mail = {}
  /\ NoMail \notin Mail
  /\ Faults \subseteq {"build", "saveSent", "saveInbox", "has", "push", "crash", "age", "drop"}

VARIABLES
  row,       \* row[n][id]: the messages table of daemon n
  pc,        \* pc[m]: where the goroutine that sends m is
  answered,  \* sends answered 202, whose request context is cancelled
  held,      \* held[p][r]: the value peer p stores under r's routing key
  poll,      \* poll[n]: where n's poll loop is, and the packet it has
  up,        \* the daemons that run
  stale      \* mails whose packet is older than MaxPastSkew

vars == <<row, pc, answered, held, poll, up, stale>>
sending == <<pc, answered>>

Id == Subject \cup Mail
Row == [folder : {"none", "sent", "inbox", "trash"}, read : BOOLEAN, mail : Mail \cup {NoMail}]
PCs == {"new", "stamping", "saving", "pushing", "putting", "pushed", "failed", "dead"}
Poll == [at : {"idle", "got", "absent"}, mail : Mail \cup {NoMail}]

NoRow == [folder |-> "none", read |-> FALSE, mail |-> NoMail]
SentRow(m) == [folder |-> "sent", read |-> TRUE, mail |-> m]
InboxRow(m) == [folder |-> "inbox", read |-> FALSE, mail |-> m]
QuietPoll == [at |-> "idle", mail |-> NoMail]
Looking(at, m) == [at |-> at, mail |-> m]

SentId(m) == IF To[m] = From[m] THEN m ELSE SubjectOf[m]
HasMessage(n, id) == row[n][id].folder # "none"

\* SaveMessage: INSERT OR REPLACE
Save(n, id, r) == row' = [row EXCEPT ![n][id] = r]

Goto(m, label) == pc' = [pc EXCEPT ![m] = label]

\* The peers in S store m for its recipient; a stale packet fails their validator.
Put(S, m) ==
  held' = [p \in Node |->
             IF p \in S /\ m \notin stale THEN [held[p] EXCEPT ![To[m]] = m] ELSE held[p]]

Init ==
  /\ row = [n \in Node |-> [id \in Id |-> NoRow]]
  /\ pc = [m \in Mail |-> "new"]
  /\ answered = {}
  /\ held = [p \in Node |-> [r \in Node |-> NoMail]]
  /\ poll = [n \in Node |-> QuietPoll]
  /\ up = Node
  /\ stale = {}
-----------------------------------------------------------------------------
(* handleSendMessage and SendMessage *)

\* The address is good: start the goroutine.
Send(m) ==
  /\ pc[m] = "new"
  /\ From[m] \in up
  /\ Goto(m, "stamping")
  /\ UNCHANGED <<row, answered, held, poll, up, stale>>

\* 202: the handler returns and its context is cancelled.
Answer(m) ==
  /\ pc[m] \notin {"new", "dead"}
  /\ m \notin answered
  /\ answered' = answered \cup {m}
  /\ UNCHANGED <<row, pc, held, poll, up, stale>>

\* Mutant of Build: the sender's copy is not saved before the push.
BuildAndPush(m) ==
  /\ pc[m] = "stamping"
  /\ Goto(m, "pushing")
  /\ UNCHANGED <<row, answered, held, poll, up, stale>>

\* packet.Build
Build(m) ==
  /\ pc[m] = "stamping"
  /\ \/ Goto(m, "saving")
     \/ "build" \in Faults /\ Goto(m, "failed")
  /\ UNCHANGED <<row, answered, held, poll, up, stale>>

\* The sender's copy; the error of SaveMessage is ignored.
SaveSent(m) ==
  /\ pc[m] = "saving"
  /\ \/ Save(From[m], SentId(m), SentRow(m))
     \/ "saveSent" \in Faults /\ UNCHANGED row
  /\ Goto(m, "pushing")
  /\ UNCHANGED <<answered, held, poll, up, stale>>

\* Node.Push: PutValue first stores the packet in the node itself, then looks for
\* peers under the context, and gives up at once if that is cancelled.
Push(m) ==
  /\ pc[m] = "pushing"
  /\ Put({From[m]}, m)
  /\ Goto(m, IF m \in answered \/ m \in stale THEN "failed" ELSE "putting")
  /\ UNCHANGED <<row, answered, poll, up, stale>>

\* The put reaches some peers.  It succeeds even if peers refuse the record, and it
\* may fail half-way, or for want of peers.
PutDone(m) ==
  /\ pc[m] = "putting"
  /\ \E S \in SUBSET (up \ {From[m]}) :
       /\ Put(S, m)
       /\ \/ (S # {} \/ "push" \in Faults) /\ Goto(m, "pushed")
          \/ (S = {} \/ m \in answered \/ "push" \in Faults) /\ Goto(m, "failed")
  /\ UNCHANGED <<row, answered, poll, up, stale>>
-----------------------------------------------------------------------------
(* pollLoop and doPoll *)

\* Mutant of PollGet: asks for a routing key that is not the node's own.
PollAnyKey(n) ==
  /\ n \in up
  /\ poll[n] = QuietPoll
  /\ \E p \in up, r \in Node :
       /\ held[p][r] # NoMail /\ held[p][r] \notin stale
       /\ poll' = [poll EXCEPT ![n] = Looking("got", held[p][r])]
  /\ UNCHANGED <<row, sending, held, up, stale>>

\* Node.Poll finds a fresh packet at some running peer, itself included.
PollGet(n) ==
  /\ n \in up
  /\ poll[n] = QuietPoll
  /\ \E p \in up :
       /\ held[p][n] # NoMail /\ held[p][n] \notin stale
       /\ poll' = [poll EXCEPT ![n] = Looking("got", held[p][n])]
  /\ UNCHANGED <<row, sending, held, up, stale>>

\* Mutant of PollCheck: takes any mail with the same subject for a duplicate.
PollCheckSubject(n) ==
  /\ poll[n].at = "got"
  /\ poll' = [poll EXCEPT ![n] =
       IF \E id \in Id : /\ HasMessage(n, id)
                         /\ SubjectOf[row[n][id].mail] = SubjectOf[poll[n].mail]
       THEN QuietPoll ELSE Looking("absent", poll[n].mail)]
  /\ UNCHANGED <<row, sending, held, up, stale>>

\* Mutant of PollCheck: no duplicate check.
PollCheckNothing(n) ==
  /\ poll[n].at = "got"
  /\ poll' = [poll EXCEPT ![n] = Looking("absent", poll[n].mail)]
  /\ UNCHANGED <<row, sending, held, up, stale>>

\* HasMessage: done if there is such a row or the query fails.
PollCheck(n) ==
  /\ poll[n].at = "got"
  /\ \/ poll' = [poll EXCEPT ![n] = IF HasMessage(n, poll[n].mail)
                                    THEN QuietPoll ELSE Looking("absent", poll[n].mail)]
     \/ "has" \in Faults /\ poll' = [poll EXCEPT ![n] = QuietPoll]
  /\ UNCHANGED <<row, sending, held, up, stale>>

\* SaveMessage; a failure is left to the next round.
PollFile(n) ==
  /\ poll[n].at = "absent"
  /\ \/ Save(n, poll[n].mail, InboxRow(poll[n].mail))
     \/ "saveInbox" \in Faults /\ UNCHANGED row
  /\ poll' = [poll EXCEPT ![n] = QuietPoll]
  /\ UNCHANGED <<sending, held, up, stale>>
-----------------------------------------------------------------------------
(* The user, the network, the clock and the machine *)

\* handleMarkRead
MarkRead(n, id) ==
  /\ n \in up /\ HasMessage(n, id)
  /\ Save(n, id, [row[n][id] EXCEPT !.read = TRUE])
  /\ UNCHANGED <<sending, held, poll, up, stale>>

\* handleDeleteMessage
DeleteMessage(n, id) ==
  /\ n \in up /\ HasMessage(n, id)
  /\ Save(n, id, [row[n][id] EXCEPT !.folder = "trash"])
  /\ UNCHANGED <<sending, held, poll, up, stale>>

\* A day passes since m was stamped.
Age(m) ==
  /\ "age" \in Faults
  /\ pc[m] \notin {"new", "stamping"}
  /\ stale' = stale \cup {m}
  /\ UNCHANGED <<row, sending, held, poll, up>>

\* A peer drops a record that is too old.
Drop(p, r) ==
  /\ "drop" \in Faults
  /\ held[p][r] # NoMail
  /\ held' = [held EXCEPT ![p][r] = NoMail]
  /\ UNCHANGED <<row, sending, poll, up, stale>>

\* The lookup of a poll gives what it found to a peer that has another value or none.
Repair(p, q, r) ==
  /\ {p, q, r} \subseteq up
  /\ held[p][r] \notin {NoMail, held[q][r]} \cup stale
  /\ held' = [held EXCEPT ![q][r] = held[p][r]]
  /\ UNCHANGED <<row, sending, poll, up, stale>>

\* A daemon dies: its goroutines, its poll and its DHT records are gone.
Crash(n) ==
  /\ "crash" \in Faults
  /\ n \in up
  /\ up' = up \ {n}
  /\ pc' = [m \in Mail |-> IF From[m] = n /\ pc[m] \notin {"new", "pushed"} THEN "dead" ELSE pc[m]]
  /\ held' = [held EXCEPT ![n] = [r \in Node |-> NoMail]]
  /\ poll' = [poll EXCEPT ![n] = QuietPoll]
  /\ UNCHANGED <<row, answered, stale>>

Restart(n) ==
  /\ n \notin up
  /\ up' = up \cup {n}
  /\ UNCHANGED <<row, sending, held, poll, stale>>

Goroutine(m) == Build(m) \/ SaveSent(m) \/ Push(m) \/ PutDone(m)
Round(n) == PollGet(n) \/ PollCheck(n) \/ PollFile(n)

Next ==
  \/ \E m \in Mail : Send(m) \/ Answer(m) \/ Goroutine(m) \/ Age(m)
  \/ \E n \in Node : \/ Round(n) \/ Crash(n) \/ Restart(n)
                     \/ \E id \in Id : MarkRead(n, id) \/ DeleteMessage(n, id)
                     \/ \E r \in Node : \/ Drop(n, r)
                                        \/ \E q \in Node : Repair(n, q, r)

Spec == Init /\ [][Next]_vars

\* Goroutines run, and a daemon that runs polls again and again.
FairSpec ==
  /\ Spec
  /\ \A m \in Mail : WF_vars(Goroutine(m))
  /\ \A n \in Node : WF_vars(Round(n))
-----------------------------------------------------------------------------
(* Properties *)

\* Every variable keeps its type; peers hold a packet only under its own recipient's
\* key, and a daemon only handles packets addressed to it.
TypeOK ==
  /\ row \in [Node -> [Id -> Row]]
  /\ pc \in [Mail -> PCs]
  /\ answered \subseteq Mail
  /\ held \in [Node -> [Node -> Mail \cup {NoMail}]]
  /\ poll \in [Node -> Poll]
  /\ up \subseteq Node
  /\ stale \subseteq Mail
  /\ \A p, r \in Node : held[p][r] # NoMail => To[held[p][r]] = r
  /\ \A n \in Node : poll[n].at # "idle" => poll[n].mail # NoMail /\ To[poll[n].mail] = n

\* At-most-once delivery between two daemons, whatever is delayed, repeated or lost
\* by the network and whoever crashes.
Between == {m \in Mail : To[m] # From[m]}
Copy(r) == [folder |-> r.folder, read |-> r.read]
Once == INSTANCE OnceContract WITH
  Mail <- Between,
  accepted <- {m \in Between : pc[m] # "new"},
  mailbox <- [m \in Between |-> Copy(row[To[m]][m])]
OnceSpec == Once!Spec

\* No mail is ever out in the network, or in its recipient's inbox, without a row
\* under its sent id at its sender, even if the sender crashed on the way.
SenderHasTrace ==
  \A m \in Mail :
    (\/ \E p \in Node : held[p][To[m]] = m
     \/ HasMessage(To[m], m)) => HasMessage(From[m], SentId(m))

\* A published mail is filed, unless at some moment its recipient is down, no running
\* peer has it or one has another mail for the same recipient, or it is too old.
Reachable(m) ==
  /\ To[m] \in up
  /\ m \notin stale
  /\ \E p \in up : held[p][To[m]] = m
  /\ \A p \in up : held[p][To[m]] \in {m, NoMail} \cup stale
PublishedMailArrives ==
  \A m \in Mail : pc[m] = "pushed" ~> (HasMessage(To[m], m) \/ ~Reachable(m))
=============================================================================
