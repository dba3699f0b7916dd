----------------------------- MODULE InboundMail -----------------------------
(***************************************************************************)
(* How mail reaches the users of a multi-tenant Dmail server.              *)
(*                                                                         *)
(* Packets come in by two doors: another server POSTs them to              *)
(* /federation/deliver, or the poll loop finds them in the recipient's     *)
(* DHT slot.  Private keys are at rest under the user's password, so both  *)
(* doors only append the raw packet to the pending_packets table.          *)
(* ProcessPendingPackets turns pending packets into messages; it needs the *)
(* session, the in-memory copy of the key that login and signup cache, and *)
(* it runs in a goroutine started by login and by the federation handler,  *)
(* any number of them at once for one user.                                *)
(*                                                                         *)
(* A task is one request goroutine, and after it the ProcessPendingPackets *)
(* goroutine that request starts: both never run at the same time in a way *)
(* that matters, as the handler only writes its answer after the `go`.     *)
(***************************************************************************)
EXTENDS Integers, Sequences, FiniteSets

CONSTANTS
  User,          \* accounts that may be created
  Packet,        \* packets that pass PoW and signature verification
  To,            \* To[p]: the user whose key p names as recipient
  Readable,      \* packets the recipient's key decrypts
  Task,          \* goroutines that may be alive at once
  StoreFaults,   \* the store calls that may fail in this instance
  MaxRows,       \* bound on the rows of pending_packets
  NoUser, NoPacket

ASSUME ConstantsAssumption ==
  /\ To \in [Packet -> User]
  /\ Readable \subseteq Packet
  /\ NoUser \notin User
  /\ NoPacket \notin Packet
  /\ StoreFaults \subseteq {"record", "fetch", "save", "mark"}
  /\ MaxRows \in Nat

VARIABLES
  registered,  \* users table: accounts that exist
  pending,     \* pending_packets table, in insertion order; a row's id is its index
  mailbox,     \* messages table: the recipient's row for each packet, keyed userID:uuid
  session,     \* SessionCache: which handler put the user's live entry, or "none"
  dht,         \* the DHT's value slot of each user
  task,        \* the running goroutines
  poller,      \* the poll loop: users left in this round, and the value it holds
  acked        \* history: packets whose /federation/deliver answered 200

vars == <<registered, pending, mailbox, session, dht, task, poller, acked>>
tables == <<registered, pending, mailbox>>

Vias == {"federation", "dht"}
Sources == {"none", "signup", "login"}
PCs == {"idle", "created", "recorded", "spawned", "fetch", "loop", "mark"}

PendingRow == [pkt : Packet, via : Vias, processed : BOOLEAN]
MessageRow == [folder : {"none", "inbox", "trash"}, read : BOOLEAN]
TaskState == [pc : PCs, user : User \cup {NoUser}, pkt : Packet \cup {NoPacket},
              batch : SUBSET Nat]

NoRow == [folder |-> "none", read |-> FALSE]
FreshRow == [folder |-> "inbox", read |-> FALSE]
Filed(p) == mailbox[p].folder # "none"

At(pc, u, batch) == [pc |-> pc, user |-> u, pkt |-> NoPacket, batch |-> batch]
Idle == At("idle", NoUser, {})
Become(t, state) == task' = [task EXCEPT ![t] = state]

QuietPoller == [todo |-> {}, got |-> NoPacket]

Rows == DOMAIN pending
Unprocessed(i) == ~pending[i].processed
Owner(i) == To[pending[i].pkt]

\* Mutant of PendingOf: the query forgets user_id.
PendingOfAnybody(u) == {i \in Rows : Unprocessed(i)}

\* GetPendingPackets: the ids it returns.  ORDER BY received_at is id order, so the
\* loop is always at the oldest row of what is left of its snapshot.
PendingOf(u) == {i \in Rows : Owner(i) = u /\ Unprocessed(i)}
Oldest(batch) == {i \in batch : \A j \in batch : i <= j}

\* A row cannot be recorded while the table and the poll in progress fill the bound.
Room == Len(pending) + (IF poller.got = NoPacket THEN 0 ELSE 1) < MaxRows

\* SavePendingPacket
Record(p, via) ==
  pending' = Append(pending, [pkt |-> p, via |-> via, processed |-> FALSE])

\* SaveMessageForUser: INSERT OR REPLACE resets folder and is_read.  The caller
\* ignores its error.
Save(p) ==
  \/ mailbox' = [mailbox EXCEPT ![p] = FreshRow]
  \/ /\ "save" \in StoreFaults
     /\ UNCHANGED mailbox

\* MarkPacketProcessed, whose error every caller ignores
Mark(i) ==
  \/ pending' = [pending EXCEPT ![i].processed = TRUE]
  \/ /\ "mark" \in StoreFaults
     /\ UNCHANGED pending

Init ==
  /\ registered = {}
  /\ pending = <<>>
  /\ mailbox = [p \in Packet |-> NoRow]
  /\ session = [u \in User |-> "none"]
  /\ dht = [u \in User |-> NoPacket]
  /\ task = [t \in Task |-> Idle]
  /\ poller = QuietPoller
  /\ acked = {}
-----------------------------------------------------------------------------
(* Accounts and sessions *)

\* handleSignup up to CreateUser.
Signup(t, u) ==
  /\ task[t].pc = "idle"
  /\ u \notin registered
  /\ registered' = registered \cup {u}
  /\ Become(t, At("created", u, {}))
  /\ UNCHANGED <<pending, mailbox, session, dht, poller, acked>>

\* handleSignup from GenerateJWT on: the session is cached, nothing is processed.
SignupPut(t) ==
  /\ task[t].pc = "created"
  /\ session' = [session EXCEPT ![task[t].user] = "signup"]
  /\ Become(t, Idle)
  /\ UNCHANGED <<tables, dht, poller, acked>>

\* handleLogin with the right password: cache the session, then
\* `go ProcessPendingPackets`.
Login(t, u) ==
  /\ task[t].pc = "idle"
  /\ u \in registered
  /\ session' = [session EXCEPT ![u] = "login"]
  /\ Become(t, At("spawned", u, {}))
  /\ UNCHANGED <<tables, dht, poller, acked>>

\* The entry outlives its TTL: Get answers nil from then on, evicted or not.
SessionExpire(u) ==
  /\ session[u] # "none"
  /\ session' = [session EXCEPT ![u] = "none"]
  /\ UNCHANGED <<tables, dht, task, poller, acked>>
-----------------------------------------------------------------------------
(* handleFederationDeliver *)

\* Mutant of Deliver: goes on although SavePendingPacket failed.
DeliverUnchecked(t, p) ==
  /\ task[t].pc = "idle"
  /\ To[p] \in registered
  /\ Room
  /\ \/ Record(p, "federation")
     \/ "record" \in StoreFaults /\ UNCHANGED pending
  /\ Become(t, [pc |-> "recorded", user |-> To[p], pkt |-> p, batch |-> {}])
  /\ UNCHANGED <<registered, mailbox, session, dht, poller, acked>>

\* The recipient exists and SavePendingPacket succeeds.  Every earlier exit,
\* and a failed save, answers an error and changes nothing.
Deliver(t, p) ==
  /\ task[t].pc = "idle"
  /\ To[p] \in registered
  /\ Room
  /\ Record(p, "federation")
  /\ Become(t, [pc |-> "recorded", user |-> To[p], pkt |-> p, batch |-> {}])
  /\ UNCHANGED <<registered, mailbox, session, dht, poller, acked>>

\* Mutant of DeliverCheck: starts no second goroutine for the same user.
DeliverCheckOnce(t) ==
  /\ task[t].pc = "recorded"
  /\ acked' = acked \cup {task[t].pkt}
  /\ Become(t, IF /\ session[task[t].user] # "none"
                  /\ \A s \in Task \ {t} : task[s].user # task[t].user
               THEN At("spawned", task[t].user, {})
               ELSE Idle)
  /\ UNCHANGED <<tables, session, dht, poller>>

\* If the user has a live session start ProcessPendingPackets; answer 200.
DeliverCheck(t) ==
  /\ task[t].pc = "recorded"
  /\ acked' = acked \cup {task[t].pkt}
  /\ Become(t, IF session[task[t].user] # "none"
               THEN At("spawned", task[t].user, {})
               ELSE Idle)
  /\ UNCHANGED <<tables, session, dht, poller>>
-----------------------------------------------------------------------------
(* ProcessPendingPackets *)

\* Sessions.Get: without a session the goroutine ends; with one it keeps the key,
\* so a later expiry does not stop it.
GetSession(t) ==
  /\ task[t].pc = "spawned"
  /\ Become(t, IF session[task[t].user] = "none"
               THEN Idle
               ELSE At("fetch", task[t].user, {}))
  /\ UNCHANGED <<tables, session, dht, poller, acked>>

\* GetPendingPackets: a snapshot of the rows, or an error that ends the goroutine.
Fetch(t) ==
  /\ task[t].pc = "fetch"
  /\ \/ Become(t, At("loop", task[t].user, PendingOf(task[t].user)))
     \/ /\ "fetch" \in StoreFaults
        /\ Become(t, Idle)
  /\ UNCHANGED <<tables, session, dht, poller, acked>>

\* The next packet decrypts: save the message in the recipient's inbox ...
SaveMessage(t) ==
  /\ task[t].pc = "loop"
  /\ \E i \in Oldest(task[t].batch) :
       /\ pending[i].pkt \in Readable
       /\ Save(pending[i].pkt)
  /\ Become(t, At("mark", task[t].user, task[t].batch))
  /\ UNCHANGED <<registered, pending, session, dht, poller, acked>>

\* ... and is then marked.
MarkSaved(t) ==
  /\ task[t].pc = "mark"
  /\ \E i \in Oldest(task[t].batch) :
       /\ Mark(i)
       /\ Become(t, At("loop", task[t].user, task[t].batch \ {i}))
  /\ UNCHANGED <<registered, mailbox, session, dht, poller, acked>>

\* Mutant of MarkUnreadable: any packet may be given up.
MarkAnything(t) ==
  /\ task[t].pc = "loop"
  /\ \E i \in Oldest(task[t].batch) :
       /\ Mark(i)
       /\ Become(t, At("loop", task[t].user, task[t].batch \ {i}))
  /\ UNCHANGED <<registered, mailbox, session, dht, poller, acked>>

\* Mutant of MarkUnreadable: `return` where the code has `continue`.
MarkUnreadableAndStop(t) ==
  /\ task[t].pc = "loop"
  /\ \E i \in Oldest(task[t].batch) :
       /\ pending[i].pkt \notin Readable
       /\ Mark(i)
  /\ Become(t, Idle)
  /\ UNCHANGED <<registered, mailbox, session, dht, poller, acked>>

\* The next packet does not decrypt: mark it and continue.
MarkUnreadable(t) ==
  /\ task[t].pc = "loop"
  /\ \E i \in Oldest(task[t].batch) :
       /\ pending[i].pkt \notin Readable
       /\ Mark(i)
       /\ Become(t, At("loop", task[t].user, task[t].batch \ {i}))
  /\ UNCHANGED <<registered, mailbox, session, dht, poller, acked>>

\* The snapshot is used up.
Finish(t) ==
  /\ task[t].pc = "loop"
  /\ task[t].batch = {}
  /\ Become(t, Idle)
  /\ UNCHANGED <<tables, session, dht, poller, acked>>
-----------------------------------------------------------------------------
(* doPollAll, run by the single pollLoop goroutine *)

\* GetAllUserPubKeys
PollStart ==
  /\ poller = QuietPoller
  /\ poller' = [QuietPoller EXCEPT !.todo = registered]
  /\ UNCHANGED <<tables, session, dht, task, acked>>

\* DHT.GetValue of the next user: the slot's value, or not found or timed out.
PollGet(u) ==
  /\ poller.got = NoPacket
  /\ u \in poller.todo
  /\ \/ /\ dht[u] # NoPacket
        /\ Room
        /\ poller' = [todo |-> poller.todo \ {u}, got |-> dht[u]]
     \/ poller' = [poller EXCEPT !.todo = @ \ {u}]
  /\ UNCHANGED <<tables, session, dht, task, acked>>

\* SavePendingPacket, on every round anew, its error ignored like that of ListUsers.
PollRecord ==
  /\ poller.got # NoPacket
  /\ \/ Record(poller.got, "dht")
     \/ /\ "record" \in StoreFaults
        /\ UNCHANGED pending
  /\ poller' = [poller EXCEPT !.got = NoPacket]
  /\ UNCHANGED <<registered, mailbox, session, dht, task, acked>>
-----------------------------------------------------------------------------
(* The user, the network and the machine *)

\* handleMTMarkRead (the sender has no row with a uuid to update)
MarkRead(p) ==
  /\ Filed(p)
  /\ mailbox' = [mailbox EXCEPT ![p].read = TRUE]
  /\ UNCHANGED <<registered, pending, session, dht, task, poller, acked>>

\* handleMTDeleteMessage
DeleteMessage(p) ==
  /\ Filed(p)
  /\ mailbox' = [mailbox EXCEPT ![p].folder = "trash"]
  /\ UNCHANGED <<registered, pending, session, dht, task, poller, acked>>

\* Some node pushes p to the slot of its recipient: Select keeps the newest push.
RemotePush(p) ==
  /\ dht[To[p]] # p
  /\ dht' = [dht EXCEPT ![To[p]] = p]
  /\ UNCHANGED <<tables, session, task, poller, acked>>

\* The value ages out of the DHT.
DhtExpire(u) ==
  /\ dht[u] # NoPacket
  /\ dht' = [dht EXCEPT ![u] = NoPacket]
  /\ UNCHANGED <<tables, session, task, poller, acked>>

\* The process dies and restarts: SQLite survives, memory does not.
Crash ==
  /\ session' = [u \in User |-> "none"]
  /\ task' = [t \in Task |-> Idle]
  /\ poller' = QuietPoller
  /\ UNCHANGED <<tables, dht, acked>>

Run(t) ==
  \/ SignupPut(t) \/ DeliverCheck(t) \/ GetSession(t) \/ Fetch(t)
  \/ SaveMessage(t) \/ MarkSaved(t) \/ MarkUnreadable(t) \/ Finish(t)

Next ==
  \/ \E t \in Task : \/ \E u \in User : Signup(t, u) \/ Login(t, u)
                     \/ \E p \in Packet : Deliver(t, p)
                     \/ Run(t)
  \/ \E u \in User : SessionExpire(u) \/ PollGet(u) \/ DhtExpire(u)
  \/ PollStart \/ PollRecord
  \/ \E p \in Packet : MarkRead(p) \/ DeleteMessage(p) \/ RemotePush(p)
  \/ Crash

Spec == Init /\ [][Next]_vars

\* A goroutine that can run does run; nothing forces users, peers or the clock.
FairSpec == Spec /\ \A t \in Task : WF_vars(Run(t))
-----------------------------------------------------------------------------
(* Properties *)

\* Every variable keeps its type; a goroutine past GetPendingPackets holds rows
\* of its own user only, and one that has saved still holds the row it must mark.
TypeOK ==
  /\ registered \subseteq User
  /\ pending \in Seq(PendingRow)
  /\ mailbox \in [Packet -> MessageRow]
  /\ session \in [User -> Sources]
  /\ dht \in [User -> Packet \cup {NoPacket}]
  /\ task \in [Task -> TaskState]
  /\ poller \in [todo : SUBSET User, got : Packet \cup {NoPacket}]
  /\ acked \subseteq Packet
  /\ \A t \in Task :
       /\ task[t].pc # "idle" => task[t].user \in User
       /\ task[t].pc = "recorded" => task[t].pkt \in Packet
       /\ task[t].batch \subseteq {i \in Rows : Owner(i) = task[t].user}
       /\ task[t].pc = "mark" => task[t].batch # {}

\* Goroutine t is bound to look at row i if nothing stops it.
Attends(t, i) ==
  \/ task[t].pc \in {"recorded", "spawned", "fetch"} /\ task[t].user = Owner(i)
  \/ task[t].pc \in {"loop", "mark"} /\ i \in task[t].batch

\* No lost wake-up: handleFederationDeliver records and then looks for a session,
\* handleLogin puts the session and then looks for records, so a packet delivered
\* by another server is never left waiting for a user who has logged in unless
\* some goroutine is still going to see it.
LoggedInUserIsAttended ==
  \A i \in Rows :
    (/\ Unprocessed(i)
     /\ pending[i].via = "federation"
     /\ session[Owner(i)] = "login") => \E t \in Task : Attends(t, i)

\* A packet another server was told is delivered is never lost, across crashes
\* and concurrent goroutines: it waits as an unprocessed row or the recipient has
\* a copy, unless the key does not open it.
PromiseKept ==
  \A p \in acked \cap Readable :
    Filed(p) \/ \E i \in Rows : pending[i].pkt = p /\ Unprocessed(i)

\* The server implements the at-least-once filing contract of MailContract.
Known == {pending[i].pkt : i \in Rows}
Owed == {pending[i].pkt : i \in {j \in Rows : Unprocessed(j)}}
Contract == INSTANCE MailContract WITH known <- Known, promised <- acked, owed <- Owed
ContractSpec == Contract!Spec

\* A packet delivered for a logged-in user leaves the pending table, however many
\* packets that do not decrypt stand before it, unless the session is lost first.
AttendedMailIsProcessed ==
  \A i \in 1..MaxRows :
    (i \in Rows /\ pending[i].via = "federation" /\ session[Owner(i)] = "login")
      ~> (i \in Rows /\ (~Unprocessed(i) \/ session[Owner(i)] # "login"))
=============================================================================
