-------------------------- MODULE InboundMailProofs --------------------------
(***************************************************************************)
(* Proofs about InboundMail, for every value of its constants.             *)
(***************************************************************************)
EXTENDS InboundMail, SequenceTheorems, TLAPS

\* SavePendingPacket appends one unprocessed row and leaves the others alone.
LEMMA RecordAppends ==
  ASSUME pending \in Seq(PendingRow), NEW p \in Packet, NEW via \in Vias, Record(p, via)
  PROVE  /\ pending' \in Seq(PendingRow)
         /\ Rows' = Rows \cup {Len(pending) + 1}
         /\ \A i \in Rows : pending'[i] = pending[i]
         /\ pending'[Len(pending) + 1] = [pkt |-> p, via |-> via, processed |-> FALSE]
<1> DEFINE r == [pkt |-> p, via |-> via, processed |-> FALSE]
<1>1. r \in PendingRow /\ pending' = Append(pending, r)
  BY DEF PendingRow, Record
<1>2. QED
  BY <1>1 DEF Rows

\* MarkPacketProcessed touches the processed flag of one row, or nothing at all.
LEMMA MarkFlagsOneRow ==
  ASSUME pending \in Seq(PendingRow), NEW i \in Rows, Mark(i)
  PROVE  /\ pending' \in Seq(PendingRow)
         /\ Rows' = Rows
         /\ \A j \in Rows : /\ pending'[j].pkt = pending[j].pkt
                            /\ pending'[j].via = pending[j].via
                            /\ pending[j].processed => pending'[j].processed
                            /\ j # i => pending'[j] = pending[j]
         /\ "mark" \notin StoreFaults => pending'[i].processed
<1> DEFINE e == [pending[i] EXCEPT !.processed = TRUE]
<1>1. CASE pending' = [pending EXCEPT ![i].processed = TRUE]
  <2>1. i \in 1 .. Len(pending) /\ pending[i] \in PendingRow
    BY ElementOfSeq DEF Rows
  <2>2. e \in PendingRow /\ e.pkt = pending[i].pkt /\ e.via = pending[i].via /\ e.processed
    BY <2>1 DEF PendingRow
  <2>3. pending' = [pending EXCEPT ![i] = e]
    BY <1>1
  <2> HIDE DEF e
  <2>4. /\ pending' \in Seq(PendingRow)
        /\ Len(pending') = Len(pending)
        /\ \A j \in 1 .. Len(pending) : pending'[j] = IF j = i THEN e ELSE pending[j]
    BY <2>1, <2>2, <2>3, ExceptSeq
  <2>5. Rows' = Rows
    BY <2>4 DEF Rows
  <2>6. QED
    BY <2>2, <2>4, <2>5 DEF Rows
<1>2. CASE "mark" \in StoreFaults /\ UNCHANGED pending
  BY <1>2 DEF Rows
<1>3. QED
  BY <1>1, <1>2 DEF Mark

\* A record of two fields keeps its type when one of them gets another value of its type.
LEMMA FieldUpdate ==
  ASSUME NEW A, NEW B, NEW r \in [folder : A, read : B], NEW a \in A, NEW b \in B
  PROVE  /\ [r EXCEPT !.folder = a] \in [folder : A, read : B]
         /\ [r EXCEPT !.read = b] \in [folder : A, read : B]
OBVIOUS

\* UpdateMessageRead and MoveToFolder keep a row a row.
LEMMA RowUpdateKeepsType ==
  ASSUME NEW r \in MessageRow
  PROVE  /\ [r EXCEPT !.folder = "trash"] \in MessageRow
         /\ [r EXCEPT !.read = TRUE] \in MessageRow
<1>1. "trash" \in {"none", "inbox", "trash"} /\ TRUE \in BOOLEAN
  OBVIOUS
<1>2. QED
  BY <1>1, FieldUpdate, Zenon DEF MessageRow
-----------------------------------------------------------------------------
(* Typing *)

\* Every reachable state is well typed, and a goroutine only holds rows of the
\* user it was started for.
THEOREM Typing == Spec => []TypeOK
<1>1. Init => TypeOK
  BY DEF Init, TypeOK, NoRow, At, Idle, QuietPoller, PCs, Sources, MessageRow, TaskState
<1>2. TypeOK /\ [Next]_vars => TypeOK'
  <2> SUFFICES ASSUME TypeOK, [Next]_vars PROVE TypeOK'
    OBVIOUS
  <2> USE DEF TypeOK, PCs, TaskState, At, Idle, Become, tables
  <2>0. pending \in Seq(PendingRow)
    OBVIOUS
  <2>1. ASSUME NEW t \in Task, NEW u \in User, Signup(t, u) PROVE TypeOK'
    BY <2>1 DEF Signup, Idle, Rows, Owner
  <2>2. ASSUME NEW t \in Task, NEW u \in User, Login(t, u) PROVE TypeOK'
    BY <2>2 DEF Login, Idle, Rows, Owner, Sources
  <2>3. ASSUME NEW t \in Task, NEW p \in Packet, Deliver(t, p) PROVE TypeOK'
    <3>1. To[p] \in User /\ "federation" \in Vias
      BY ConstantsAssumption DEF Vias
    <3>2. /\ pending' \in Seq(PendingRow)
          /\ Rows' = Rows \cup {Len(pending) + 1}
          /\ \A i \in Rows : pending'[i] = pending[i]
      BY <2>0, <2>3, <3>1, RecordAppends DEF Deliver
    <3>3. task' \in [Task -> TaskState]
      BY <2>3, <3>1 DEF Deliver
    <3>4. ASSUME NEW s \in Task
          PROVE  /\ task'[s].pc # "idle" => task'[s].user \in User
                 /\ task'[s].pc = "recorded" => task'[s].pkt \in Packet
                 /\ task'[s].batch \subseteq {i \in Rows : Owner(i) = task'[s].user}
                 /\ task'[s].pc = "mark" => task'[s].batch # {}
      BY <2>3, <3>1 DEF Deliver
    <3>5. QED
      BY <2>3, <3>2, <3>3, <3>4 DEF Deliver, Owner, PendingRow
  <2>4. ASSUME NEW t \in Task, Run(t) PROVE TypeOK'
    <3>1. CASE SignupPut(t)
      BY <3>1 DEF SignupPut, Idle, Rows, Owner, Sources
    <3>2. CASE DeliverCheck(t)
      BY <3>2 DEF DeliverCheck, Idle, Rows, Owner
    <3>3. CASE GetSession(t)
      BY <3>3 DEF GetSession, Idle, Rows, Owner
    <3>4. CASE Fetch(t)
      <4>1. PendingOf(task[t].user) \subseteq Nat
        BY <2>0 DEF PendingOf, Rows
      <4>2. PendingOf(task[t].user) \subseteq {i \in Rows : Owner(i) = task[t].user}
        BY DEF PendingOf
      <4>3. QED
        BY <3>4, <4>1, <4>2 DEF Fetch, Rows, Owner
    <3>5. CASE SaveMessage(t)
      <4>1. PICK i \in Oldest(task[t].batch) :
              \/ mailbox' = [mailbox EXCEPT ![pending[i].pkt] = FreshRow]
              \/ UNCHANGED mailbox
        BY <3>5 DEF SaveMessage, Save
      <4>2. mailbox' \in [Packet -> MessageRow]
        <5>1. FreshRow \in MessageRow
          BY DEF FreshRow, MessageRow
        <5>2. QED
          BY <4>1, <5>1
      <4>3. task[t].batch # {}
        BY <4>1 DEF Oldest
      <4>4. QED
        BY <3>5, <4>2, <4>3 DEF SaveMessage, Rows, Owner
    <3>6. CASE MarkSaved(t)
      <4>1. PICK i \in Oldest(task[t].batch) :
              /\ Mark(i)
              /\ Become(t, At("loop", task[t].user, task[t].batch \ {i}))
        BY <3>6 DEF MarkSaved
      <4>2. i \in Rows
        BY <4>1 DEF Oldest
      <4>3. /\ pending' \in Seq(PendingRow)
            /\ Rows' = Rows
            /\ \A j \in Rows : Owner(j)' = Owner(j)
        BY <2>0, <4>1, <4>2, MarkFlagsOneRow DEF Owner
      <4>4. QED
        BY <3>6, <4>1, <4>3 DEF MarkSaved
    <3>7. CASE MarkUnreadable(t)
      <4>1. PICK i \in Oldest(task[t].batch) :
              /\ Mark(i)
              /\ Become(t, At("loop", task[t].user, task[t].batch \ {i}))
        BY <3>7 DEF MarkUnreadable
      <4>2. i \in Rows
        BY <4>1 DEF Oldest
      <4>3. /\ pending' \in Seq(PendingRow)
            /\ Rows' = Rows
            /\ \A j \in Rows : Owner(j)' = Owner(j)
        BY <2>0, <4>1, <4>2, MarkFlagsOneRow DEF Owner
      <4>4. QED
        BY <3>7, <4>1, <4>3 DEF MarkUnreadable
    <3>8. CASE Finish(t)
      BY <3>8 DEF Finish, Idle, Rows, Owner
    <3>9. QED
      BY <2>4, <3>1, <3>2, <3>3, <3>4, <3>5, <3>6, <3>7, <3>8 DEF Run
  <2>5. ASSUME NEW u \in User, SessionExpire(u) PROVE TypeOK'
    BY <2>5 DEF SessionExpire, Sources, Rows, Owner
  <2>6. ASSUME NEW u \in User, PollGet(u) PROVE TypeOK'
    BY <2>6 DEF PollGet, Rows, Owner
  <2>7. ASSUME NEW u \in User, DhtExpire(u) PROVE TypeOK'
    BY <2>7 DEF DhtExpire, Rows, Owner
  <2>8. CASE PollStart
    BY <2>8 DEF PollStart, QuietPoller, Rows, Owner
  <2>9. CASE PollRecord
    <3>1. CASE UNCHANGED pending
      BY <2>9, <3>1 DEF PollRecord, Rows, Owner
    <3>2. CASE Record(poller.got, "dht")
      <4>1. poller.got \in Packet /\ "dht" \in Vias
        BY <2>9 DEF PollRecord, Vias
      <4>2. /\ pending' \in Seq(PendingRow)
            /\ Rows' = Rows \cup {Len(pending) + 1}
            /\ \A i \in Rows : Owner(i)' = Owner(i)
        BY <2>0, <3>2, <4>1, RecordAppends DEF Owner
      <4>3. QED
        BY <2>9, <4>2 DEF PollRecord, PendingRow
    <3>3. QED
      BY <2>9, <3>1, <3>2 DEF PollRecord
  <2>10. ASSUME NEW p \in Packet, MarkRead(p) \/ DeleteMessage(p) PROVE TypeOK'
    <3> DEFINE read == [mailbox[p] EXCEPT !.read = TRUE]
               trashed == [mailbox[p] EXCEPT !.folder = "trash"]
    <3>1. read \in MessageRow /\ trashed \in MessageRow
      <4>1. mailbox[p] \in MessageRow
        OBVIOUS
      <4>2. QED
        BY <4>1, RowUpdateKeepsType, Zenon
    <3>2. mailbox' = [mailbox EXCEPT ![p] = read] \/ mailbox' = [mailbox EXCEPT ![p] = trashed]
      BY <2>10, Zenon DEF MarkRead, DeleteMessage
    <3> HIDE DEF read, trashed
    <3>3. mailbox' \in [Packet -> MessageRow]
      BY <3>1, <3>2
    <3>4. QED
      BY <2>10, <3>3 DEF MarkRead, DeleteMessage, Rows, Owner
  <2>11. ASSUME NEW p \in Packet, RemotePush(p) PROVE TypeOK'
    BY <2>11 DEF RemotePush, Rows, Owner
  <2>12. CASE Crash
    BY <2>12 DEF Crash, Idle, QuietPoller, Rows, Owner, Sources
  <2>13. CASE UNCHANGED vars
    BY <2>13 DEF vars, Rows, Owner
  <2>14. QED
    BY <2>1, <2>2, <2>3, <2>4, <2>5, <2>6, <2>7, <2>8, <2>9, <2>10, <2>11,
       <2>12, <2>13 DEF Next
<1>3. QED
  BY <1>1, <1>2, PTL DEF Spec
-----------------------------------------------------------------------------
(* No lost wake-up *)

\* If GetPendingPackets and MarkPacketProcessed do not fail, a packet delivered by
\* another server for a user who has logged in is always either processed or still
\* to be seen by a running goroutine: the order "record, then look for a session"
\* of handleFederationDeliver against "put the session, then look for records" of
\* handleLogin loses no wake-up, for any number of goroutines, users and packets.
THEOREM NoLostWakeup ==
  ASSUME "fetch" \notin StoreFaults, "mark" \notin StoreFaults
  PROVE  Spec => []LoggedInUserIsAttended
<1> DEFINE Waits(i) == /\ Unprocessed(i)
                       /\ pending[i].via = "federation"
                       /\ session[Owner(i)] = "login"
<1>1. Init => LoggedInUserIsAttended
  BY DEF Init, LoggedInUserIsAttended, Rows
<1>2. TypeOK /\ LoggedInUserIsAttended /\ [Next]_vars => LoggedInUserIsAttended'
  <2> SUFFICES ASSUME TypeOK, LoggedInUserIsAttended, [Next]_vars,
                      NEW i \in Rows', Waits(i)'
               PROVE  \E t \in Task : Attends(t, i)'
    BY DEF LoggedInUserIsAttended
  <2> USE DEF At, Idle, Become, tables
  <2>0. /\ pending \in Seq(PendingRow)
        /\ task \in [Task -> TaskState]
        /\ session \in [User -> Sources]
        /\ \A j \in Rows : pending[j] \in PendingRow
    BY ElementOfSeq DEF TypeOK, Rows
  \* The goroutine that attended to i before the step.
  <2>a. ASSUME i \in Rows, Waits(i)
        PROVE  \E t \in Task : Attends(t, i)
    BY <2>a DEF LoggedInUserIsAttended
  <2>1. ASSUME NEW t \in Task, NEW u \in User, Signup(t, u)
        PROVE  \E s \in Task : Attends(s, i)'
    BY <2>0, <2>1, <2>a DEF Signup, Attends, Rows, Owner, Unprocessed
  <2>2. ASSUME NEW t \in Task, NEW u \in User, Login(t, u)
        PROVE  \E s \in Task : Attends(s, i)'
    BY <2>0, <2>2, <2>a DEF Login, Attends, Rows, Owner, Unprocessed
  <2>3. ASSUME NEW t \in Task, NEW p \in Packet, Deliver(t, p)
        PROVE  \E s \in Task : Attends(s, i)'
    <3>1. /\ Rows' = Rows \cup {Len(pending) + 1}
          /\ \A j \in Rows : pending'[j] = pending[j]
          /\ pending'[Len(pending) + 1] = [pkt |-> p, via |-> "federation", processed |-> FALSE]
      <4>1. "federation" \in Vias
        BY DEF Vias
      <4>2. QED
        BY <2>0, <2>3, <4>1, RecordAppends DEF Deliver
    <3>2. CASE i \in Rows
      BY <2>0, <2>3, <2>a, <3>1, <3>2 DEF Deliver, Attends, Owner, Unprocessed
    <3>3. CASE i = Len(pending) + 1
      <4>1. Attends(t, i)'
        BY <2>0, <2>3, <3>1, <3>3 DEF Deliver, Attends, Owner
      <4>2. QED
        BY <4>1
    <3>4. QED
      BY <3>1, <3>2, <3>3
  <2>4. ASSUME NEW t \in Task, Run(t)
        PROVE  \E s \in Task : Attends(s, i)'
    <3>1. CASE SignupPut(t)
      BY <2>0, <2>a, <3>1 DEF SignupPut, Attends, Rows, Owner, Unprocessed
    <3>2. CASE DeliverCheck(t)
      BY <2>0, <2>a, <3>2 DEF DeliverCheck, Attends, Rows, Owner, Unprocessed
    <3>3. CASE GetSession(t)
      BY <2>0, <2>a, <3>3 DEF GetSession, Attends, Rows, Owner, Unprocessed
    <3>4. CASE Fetch(t)
      BY <2>0, <2>a, <3>4 DEF Fetch, PendingOf, Attends, Rows, Owner, Unprocessed
    <3>5. CASE SaveMessage(t)
      BY <2>0, <2>a, <3>5 DEF SaveMessage, Attends, Rows, Owner, Unprocessed
    <3>6. CASE MarkSaved(t) \/ MarkUnreadable(t)
      <4>1. PICK k \in Oldest(task[t].batch) :
              /\ Mark(k)
              /\ Become(t, At("loop", task[t].user, task[t].batch \ {k}))
        BY <3>6 DEF MarkSaved, MarkUnreadable
      <4>2. k \in Rows
        BY <4>1 DEF Oldest, TypeOK
      <4>3. /\ Rows' = Rows
            /\ i # k
            /\ pending'[i] = pending[i]
        BY <2>0, <4>1, <4>2, MarkFlagsOneRow DEF Unprocessed
      <4>4. session' = session
        BY <3>6 DEF MarkSaved, MarkUnreadable
      <4>5. PICK s \in Task : Attends(s, i)
        BY <2>a, <4>3, <4>4 DEF Owner, Unprocessed
      <4>6. task[t].pc \in {"loop", "mark"}
        BY <3>6 DEF MarkSaved, MarkUnreadable
      <4>7. Attends(s, i)'
        BY <2>0, <4>1, <4>3, <4>5, <4>6 DEF Attends, Owner
      <4>8. QED
        BY <4>7
    <3>7. CASE Finish(t)
      BY <2>0, <2>a, <3>7 DEF Finish, Attends, Rows, Owner, Unprocessed
    <3>8. QED
      BY <2>4, <3>1, <3>2, <3>3, <3>4, <3>5, <3>6, <3>7 DEF Run
  <2>5. ASSUME NEW u \in User, SessionExpire(u)
        PROVE  \E t \in Task : Attends(t, i)'
    BY <2>0, <2>5, <2>a DEF SessionExpire, Attends, Rows, Owner, Unprocessed
  <2>6. CASE PollRecord
    <3>1. CASE UNCHANGED pending
      BY <2>6, <2>a, <3>1 DEF PollRecord, Attends, Rows, Owner, Unprocessed
    <3>2. CASE Record(poller.got, "dht")
      <4>1. poller.got \in Packet
        BY <2>6 DEF PollRecord, TypeOK
      <4>2. /\ Rows' = Rows \cup {Len(pending) + 1}
            /\ \A j \in Rows : pending'[j] = pending[j]
            /\ pending'[Len(pending) + 1] = [pkt |-> poller.got, via |-> "dht", processed |-> FALSE]
        <5>1. "dht" \in Vias
          BY DEF Vias
        <5>2. QED
          BY <2>0, <3>2, <4>1, <5>1, RecordAppends
      <4>3. i \in Rows /\ pending'[i] = pending[i]
        BY <4>2
      <4>4. QED
        BY <2>6, <2>a, <4>3 DEF PollRecord, Attends, Owner, Unprocessed
    <3>3. QED
      BY <2>6, <3>1, <3>2 DEF PollRecord
  <2>7. CASE Crash
    <3>1. Owner(i)' \in User
      BY <2>0, <2>7, ConstantsAssumption DEF Crash, Owner, Rows, PendingRow
    <3>2. QED
      BY <2>7, <3>1 DEF Crash, Owner
  <2>8. ASSUME UNCHANGED <<pending, session, task>>
        PROVE  \E t \in Task : Attends(t, i)'
    BY <2>8, <2>a DEF Attends, Rows, Owner, Unprocessed
  <2>9. QED
    BY <2>1, <2>2, <2>3, <2>4, <2>5, <2>6, <2>7, <2>8
    DEF Next, PollGet, DhtExpire, PollStart, MarkRead, DeleteMessage, RemotePush, vars
<1>3. QED
  BY <1>1, <1>2, Typing, PTL DEF Spec
-----------------------------------------------------------------------------
(* No acknowledged packet is lost *)

\* Why PromiseKept is inductive: a goroutine about to mark a row has filed its
\* packet, a processed row that could be decrypted was filed, and the recipient's
\* handler answers 200 only for a recorded packet.
FilingInv ==
  /\ \A t \in Task : task[t].pc = "mark" =>
       \A i \in Oldest(task[t].batch) : Filed(pending[i].pkt)
  /\ \A i \in Rows : ~Unprocessed(i) /\ pending[i].pkt \in Readable => Filed(pending[i].pkt)
  /\ \A t \in Task : task[t].pc = "recorded" => task[t].pkt \in Known
  /\ acked \subseteq Known

\* Rows are never removed, change owner or become unprocessed again.
LEMMA RowsStay ==
  ASSUME TypeOK, [Next]_vars
  PROVE  /\ Rows \subseteq Rows'
         /\ \A i \in Rows : /\ pending'[i].pkt = pending[i].pkt
                            /\ pending[i].processed => pending'[i].processed
<1>1. CASE UNCHANGED pending
  BY <1>1 DEF Rows
<1>2. ASSUME NEW p \in Packet, NEW via \in Vias, Record(p, via)
      PROVE  /\ Rows \subseteq Rows'
             /\ \A i \in Rows : pending'[i] = pending[i]
  BY <1>2, RecordAppends DEF TypeOK
<1>3. ASSUME NEW t \in Task, NEW i \in Oldest(task[t].batch), Mark(i)
      PROVE  /\ Rows \subseteq Rows'
             /\ \A j \in Rows : /\ pending'[j].pkt = pending[j].pkt
                                /\ pending[j].processed => pending'[j].processed
  <2>1. i \in Rows
    BY DEF Oldest, TypeOK
  <2>2. QED
    BY <1>3, <2>1, MarkFlagsOneRow DEF TypeOK
<1>4. CASE PollRecord
  BY <1>1, <1>2, <1>4 DEF PollRecord, TypeOK, Vias
<1>5. ASSUME NEW t \in Task, NEW p \in Packet, Deliver(t, p)
      PROVE  Record(p, "federation") /\ "federation" \in Vias
  BY <1>5 DEF Deliver, Vias
<1>6. ASSUME NEW t \in Task, MarkSaved(t) \/ MarkUnreadable(t)
      PROVE  \E i \in Oldest(task[t].batch) : Mark(i)
  BY <1>6 DEF MarkSaved, MarkUnreadable
<1>7. QED
  BY <1>1, <1>2, <1>3, <1>4, <1>5, <1>6
  DEF Next, Run, Signup, Login, SignupPut, DeliverCheck, GetSession, Fetch, SaveMessage,
      Finish, SessionExpire, PollGet, DhtExpire, PollStart, MarkRead, DeleteMessage,
      RemotePush, Crash, tables, vars

\* Nothing removes a message row.
LEMMA FiledStays ==
  ASSUME TypeOK, [Next]_vars, NEW p \in Packet, Filed(p)
  PROVE  Filed(p)'
<1>1. CASE UNCHANGED mailbox
  BY <1>1 DEF Filed
<1>2. ASSUME NEW q, mailbox' = [mailbox EXCEPT ![q] = FreshRow]
      PROVE  Filed(p)'
  BY <1>2 DEF Filed, FreshRow, TypeOK
<1>3. ASSUME NEW q \in Packet, MarkRead(q) \/ DeleteMessage(q)
      PROVE  Filed(p)'
  BY <1>3 DEF Filed, MarkRead, DeleteMessage, TypeOK, MessageRow
<1>4. ASSUME NEW t \in Task, SaveMessage(t)
      PROVE  Filed(p)'
  BY <1>1, <1>2, <1>4 DEF SaveMessage, Save
<1>5. QED
  BY <1>1, <1>3, <1>4
  DEF Next, Run, Signup, Login, Deliver, SignupPut, DeliverCheck, GetSession, Fetch,
      MarkSaved, MarkUnreadable, Finish, SessionExpire, PollGet, DhtExpire, PollStart,
      PollRecord, RemotePush, Crash, tables, vars

\* If SaveMessageForUser does not fail, FilingInv is preserved.
LEMMA FilingStep ==
  ASSUME "save" \notin StoreFaults, TypeOK, FilingInv, [Next]_vars
  PROVE  FilingInv'
<1> USE DEF At, Idle, Become, tables
<1>0. /\ task \in [Task -> TaskState]
      /\ \A i \in Rows : pending[i] \in PendingRow
      /\ mailbox \in [Packet -> MessageRow]
  BY ElementOfSeq DEF TypeOK, Rows
<1>1. /\ \A p \in Packet : Filed(p) => Filed(p)'
      /\ Rows \subseteq Rows'
      /\ \A i \in Rows : /\ pending'[i].pkt = pending[i].pkt
                         /\ pending[i].processed => pending'[i].processed
  BY RowsStay, FiledStays
<1>2. Known \subseteq Known'
  BY <1>1 DEF Known
<1>b. \A r \in Task : \A j \in Oldest(task[r].batch) : j \in Rows /\ pending[j].pkt \in Packet
  BY <1>0 DEF Oldest, TypeOK, PendingRow
<1>3. ASSUME NEW t \in Task, SaveMessage(t)
      PROVE  FilingInv'
  <2>1. PICK i \in Oldest(task[t].batch) :
          /\ pending[i].pkt \in Readable
          /\ mailbox' = [mailbox EXCEPT ![pending[i].pkt] = FreshRow]
    BY <1>3 DEF SaveMessage, Save
  <2>2. \A j \in Oldest(task[t].batch) : j = i
    <3>1. task[t].batch \subseteq Nat
      BY <1>0 DEF TaskState
    <3>2. QED
      BY <2>1, <3>1 DEF Oldest
  <2>3. i \in Rows /\ pending[i].pkt \in Packet
    BY <1>0, <2>1 DEF Oldest, TypeOK, PendingRow
  <2>4. Filed(pending[i].pkt)'
    BY <1>0, <1>3, <2>1, <2>3 DEF Filed, FreshRow, SaveMessage
  <2>5. \A r \in Task \ {t} : task'[r] = task[r]
    BY <1>0, <1>3 DEF SaveMessage
  <2>6. task'[t].pc = "mark" /\ task'[t].batch = task[t].batch
    BY <1>0, <1>3 DEF SaveMessage
  <2>7. UNCHANGED <<pending, acked>>
    BY <1>3 DEF SaveMessage
  <2>9. \A r \in Task : task'[r].pc = "mark" =>
          \A j \in Oldest(task'[r].batch) : Filed(pending[j].pkt)'
    BY <1>1, <1>b, <2>2, <2>4, <2>5, <2>6, <2>7 DEF FilingInv
  <2>10. QED
    BY <1>0, <1>1, <2>5, <2>6, <2>7, <2>9 DEF FilingInv, Rows, Unprocessed, Known, PendingRow, Oldest
<1>4. ASSUME NEW t \in Task, MarkSaved(t) \/ MarkUnreadable(t)
      PROVE  FilingInv'
  <2>1. PICK i \in Oldest(task[t].batch) :
          /\ Mark(i)
          /\ Become(t, At("loop", task[t].user, task[t].batch \ {i}))
          /\ task[t].pc = "mark" \/ pending[i].pkt \notin Readable
    BY <1>4 DEF MarkSaved, MarkUnreadable
  <2>2. /\ Rows' = Rows
        /\ \A j \in Rows : j # i => pending'[j] = pending[j]
    BY <1>b, <2>1, MarkFlagsOneRow DEF TypeOK
  <2>3. \A r \in Task \ {t} : task'[r] = task[r]
    BY <1>0, <2>1
  <2>4. task'[t].pc = "loop"
    BY <1>0, <2>1
  <2>5. UNCHANGED acked
    BY <1>4 DEF MarkSaved, MarkUnreadable
  <2>6. \A r \in Task : task'[r].pc = "mark" =>
          \A j \in Oldest(task'[r].batch) : Filed(pending[j].pkt)'
    BY <1>1, <1>b, <2>3, <2>4 DEF FilingInv
  <2>7. pending[i].pkt \in Readable => Filed(pending[i].pkt)
    BY <2>1 DEF FilingInv
  <2>8. \A j \in Rows' : ~Unprocessed(j)' /\ pending'[j].pkt \in Readable => Filed(pending[j].pkt)'
    BY <1>0, <1>1, <2>2, <2>7 DEF FilingInv, Unprocessed, PendingRow
  <2>9. QED
    BY <1>2, <2>3, <2>4, <2>5, <2>6, <2>8 DEF FilingInv, Oldest
<1>5. ASSUME NEW t \in Task, NEW p \in Packet, Deliver(t, p)
      PROVE  FilingInv'
  <2>1. /\ Rows' = Rows \cup {Len(pending) + 1}
        /\ \A j \in Rows : pending'[j] = pending[j]
        /\ pending'[Len(pending) + 1] = [pkt |-> p, via |-> "federation", processed |-> FALSE]
    <3>1. "federation" \in Vias
      BY DEF Vias
    <3>2. QED
      BY <1>5, <3>1, RecordAppends DEF Deliver, TypeOK
  <2>2. p \in Known'
    BY <2>1 DEF Known
  <2>3. \A r \in Task \ {t} : task'[r] = task[r]
    BY <1>0, <1>5 DEF Deliver
  <2>4. task'[t].pc = "recorded" /\ task'[t].pkt = p
    BY <1>0, <1>5 DEF Deliver
  <2>5. UNCHANGED acked
    BY <1>5 DEF Deliver
  <2>6. \A r \in Task : task'[r].pc = "mark" =>
          \A j \in Oldest(task'[r].batch) : Filed(pending[j].pkt)'
    BY <1>1, <1>b, <2>3, <2>4 DEF FilingInv
  <2>7. \A j \in Rows' : ~Unprocessed(j)' /\ pending'[j].pkt \in Readable => Filed(pending[j].pkt)'
    BY <1>0, <1>1, <2>1 DEF FilingInv, Unprocessed, PendingRow
  <2>8. QED
    BY <1>2, <2>2, <2>3, <2>4, <2>5, <2>6, <2>7 DEF FilingInv, Oldest
<1>10. CASE UNCHANGED <<pending, task, acked>>
  BY <1>0, <1>1, <1>b, <1>10 DEF FilingInv, Rows, Unprocessed, Known, PendingRow, Oldest
<1>6. CASE PollRecord
  <2>1. UNCHANGED <<task, acked>>
    BY <1>6 DEF PollRecord
  <2>2. CASE UNCHANGED pending
    BY <1>10, <2>1, <2>2
  <2>3. CASE Record(poller.got, "dht")
    <3>1. poller.got \in Packet /\ "dht" \in Vias
      BY <1>6 DEF PollRecord, TypeOK, Vias
    <3>2. /\ Rows' = Rows \cup {Len(pending) + 1}
          /\ \A j \in Rows : pending'[j] = pending[j]
          /\ pending'[Len(pending) + 1] = [pkt |-> poller.got, via |-> "dht", processed |-> FALSE]
      BY <2>3, <3>1, RecordAppends DEF TypeOK
    <3>3. \A r \in Task : task'[r].pc = "mark" =>
            \A j \in Oldest(task'[r].batch) : Filed(pending[j].pkt)'
      BY <1>1, <1>b, <2>1 DEF FilingInv
    <3>4. \A j \in Rows' : ~Unprocessed(j)' /\ pending'[j].pkt \in Readable => Filed(pending[j].pkt)'
      BY <1>0, <1>1, <3>2 DEF FilingInv, Unprocessed, PendingRow
    <3>5. QED
      BY <1>2, <2>1, <3>3, <3>4 DEF FilingInv, Oldest
  <2>4. QED
    BY <1>6, <2>2, <2>3 DEF PollRecord
\* A goroutine moves to a state where it neither marks nor answers.
<1>7. ASSUME NEW t \in Task, NEW s, s.pc \notin {"mark", "recorded"}, Become(t, s),
             UNCHANGED pending, acked' \subseteq Known
      PROVE  FilingInv'
  <2>1. \A r \in Task \ {t} : task'[r] = task[r]
    BY <1>0, <1>7
  <2>2. task'[t].pc \notin {"mark", "recorded"}
    BY <1>0, <1>7
  <2>4. \A r \in Task : task'[r].pc = "mark" =>
          \A j \in Oldest(task'[r].batch) : Filed(pending[j].pkt)'
    BY <1>1, <1>b, <1>7, <2>1, <2>2 DEF FilingInv
  <2>5. QED
    BY <1>0, <1>1, <1>7, <2>1, <2>2, <2>4 DEF FilingInv, Rows, Unprocessed, Known, PendingRow, Oldest
<1>8. ASSUME NEW t \in Task,
             \/ \E u \in User : Signup(t, u) \/ Login(t, u)
             \/ SignupPut(t) \/ DeliverCheck(t) \/ GetSession(t) \/ Fetch(t) \/ Finish(t)
      PROVE  FilingInv'
  <2>1. acked \subseteq Known /\ (task[t].pc = "recorded" => task[t].pkt \in Known)
    BY DEF FilingInv
  <2>2. \E s : s.pc \notin {"mark", "recorded"} /\ Become(t, s)
    BY <1>8 DEF Signup, Login, SignupPut, DeliverCheck, GetSession, Fetch, Finish
  <2>3. UNCHANGED pending /\ acked' \subseteq Known
    BY <1>8, <2>1 DEF Signup, Login, SignupPut, DeliverCheck, GetSession, Fetch, Finish
  <2>4. QED
    BY <1>7, <2>2, <2>3
<1>9. CASE Crash
  BY <1>0, <1>1, <1>9 DEF Crash, FilingInv, Rows, Unprocessed, Known, PendingRow
<1>11. QED
  BY <1>3, <1>4, <1>5, <1>6, <1>8, <1>9, <1>10
  DEF Next, Run, SessionExpire, PollGet, DhtExpire, PollStart, MarkRead, DeleteMessage,
      RemotePush, vars

\* FilingInv holds in every reachable state if saving a message does not fail.
LEMMA FilingInvariant ==
  ASSUME "save" \notin StoreFaults
  PROVE  Spec => []FilingInv
<1>1. Init => FilingInv
  BY DEF Init, FilingInv, Idle, At, Rows, Known
<1>2. TypeOK /\ FilingInv /\ [Next]_vars => FilingInv'
  BY FilingStep
<1>3. QED
  BY <1>1, <1>2, Typing, PTL DEF Spec

\* If SaveMessageForUser does not fail, a packet for which handleFederationDeliver
\* answered 200 stays recorded until its recipient has a copy, across every
\* interleaving of handlers and goroutines, every other store error and every crash.
THEOREM AcknowledgedMailIsKept ==
  ASSUME "save" \notin StoreFaults
  PROVE  Spec => []PromiseKept
<1>1. FilingInv => PromiseKept
  BY DEF FilingInv, PromiseKept, Known, Unprocessed
<1>2. QED
  BY <1>1, FilingInvariant, PTL

\* If SaveMessageForUser does not fail, every step of the server is a step of the
\* at-least-once contract MailContract, or changes nothing that it speaks about.
THEOREM ServerImplementsContract ==
  ASSUME "save" \notin StoreFaults
  PROVE  Spec => ContractSpec
<1>1. Init => Contract!Init
  BY DEF Init, Contract!Init, Known, Owed, Rows, NoRow, Contract!NoRow
<1>2. TypeOK /\ FilingInv /\ [Next]_vars => [Contract!Next]_(Contract!vars)
  <2> SUFFICES ASSUME TypeOK, FilingInv, [Next]_vars
               PROVE  [Contract!Next]_(Contract!vars)
    OBVIOUS
  <2> USE DEF Contract!vars
  <2>0. \A i \in Rows : pending[i] \in PendingRow
    BY ElementOfSeq DEF TypeOK, Rows
  <2>1. UNCHANGED pending => UNCHANGED <<Known, Owed>>
    BY DEF Known, Owed, Rows, Unprocessed
  <2>2. CASE UNCHANGED <<pending, mailbox, acked>>
    BY <2>1, <2>2
  \* Recording a packet.
  <2>3. ASSUME NEW p \in Packet, NEW via \in Vias, Record(p, via), UNCHANGED <<mailbox, acked>>
        PROVE  Contract!Record(p)
    <3>1. /\ Rows' = Rows \cup {Len(pending) + 1}
          /\ \A j \in Rows : pending'[j] = pending[j]
          /\ pending'[Len(pending) + 1] = [pkt |-> p, via |-> via, processed |-> FALSE]
      BY <2>3, RecordAppends DEF TypeOK
    <3>2. Known' = Known \cup {p}
      BY <3>1 DEF Known
    <3>3. Owed' = Owed \cup {p}
      BY <3>1 DEF Owed, Unprocessed
    <3>4. QED
      BY <2>3, <3>2, <3>3 DEF Contract!Record
  \* Marking the row the loop is at.
  <2>4. ASSUME NEW t \in Task, MarkSaved(t) \/ MarkUnreadable(t)
        PROVE  [Contract!Next]_(Contract!vars)
    <3>1. PICK i \in Oldest(task[t].batch) :
            Mark(i) /\ (pending[i].pkt \in Readable => Filed(pending[i].pkt))
      BY <2>4 DEF MarkSaved, MarkUnreadable, FilingInv
    <3>2. i \in Rows /\ pending[i].pkt \in Packet
      BY <2>0 DEF Oldest, TypeOK, PendingRow
    <3>3. /\ Rows' = Rows
          /\ \A j \in Rows : /\ pending'[j].pkt = pending[j].pkt
                             /\ j # i => pending'[j] = pending[j]
                             /\ pending[j].processed => pending'[j].processed
      BY <3>1, <3>2, MarkFlagsOneRow DEF TypeOK
    <3>4. Known' = Known
      BY <3>3 DEF Known
    <3>5. Owed' = Owed \/ Owed' = Owed \ {pending[i].pkt}
      <4> DEFINE Others == {pending[j].pkt : j \in {k \in Rows \ {i} : Unprocessed(k)}}
      <4>1. Owed = Others \/ Owed = Others \cup {pending[i].pkt}
        BY <3>2 DEF Owed
      <4>2. Owed' = Others \/ Owed' = Others \cup {pending[i].pkt}
        BY <3>2, <3>3 DEF Owed, Unprocessed
      <4>3. CASE Owed = Others
        <5>1. Owed' = Others
          BY <3>2, <3>3, <4>3 DEF Owed, Unprocessed
        <5>2. QED
          BY <4>3, <5>1
      <4>4. CASE Owed = Others \cup {pending[i].pkt} /\ pending[i].pkt \notin Others
        BY <4>2, <4>4
      <4>5. CASE pending[i].pkt \in Others
        BY <4>1, <4>2, <4>5
      <4>6. QED
        BY <4>1, <4>3, <4>4, <4>5
    <3>6. UNCHANGED <<mailbox, acked>>
      BY <2>4 DEF MarkSaved, MarkUnreadable
    <3>7. CASE Owed' = Owed \ {pending[i].pkt}
      <4>1. Contract!Settle(pending[i].pkt)
        BY <3>1, <3>4, <3>6, <3>7 DEF Contract!Settle, Contract!Filed, Filed
      <4>2. QED
        BY <3>2, <4>1 DEF Contract!Next
    <3>8. QED
      BY <3>4, <3>5, <3>6, <3>7
  \* Filing a message.
  <2>5. ASSUME NEW t \in Task, SaveMessage(t)
        PROVE  [Contract!Next]_(Contract!vars)
    <3>1. PICK i \in Oldest(task[t].batch) :
            /\ pending[i].pkt \in Readable
            /\ mailbox' = [mailbox EXCEPT ![pending[i].pkt] = FreshRow]
      BY <2>5 DEF SaveMessage, Save
    <3>2. i \in Rows /\ pending[i].pkt \in Packet
      BY <2>0 DEF Oldest, TypeOK, PendingRow
    <3>3. UNCHANGED <<Known, Owed, acked>>
      BY <2>1, <2>5 DEF SaveMessage
    <3>4. Contract!File(pending[i].pkt)
      BY <3>1, <3>2, <3>3 DEF Contract!File, Contract!FreshRow, FreshRow, Known
    <3>5. QED
      BY <3>2, <3>4 DEF Contract!Next
  <2>6. ASSUME NEW t \in Task, DeliverCheck(t)
        PROVE  [Contract!Next]_(Contract!vars)
    <3>1. task[t].pkt \in Known /\ task[t].pkt \in Packet
      BY <2>6 DEF DeliverCheck, FilingInv, TypeOK
    <3>2. UNCHANGED <<Known, Owed, mailbox>>
      BY <2>1, <2>6 DEF DeliverCheck, tables
    <3>3. Contract!Promise(task[t].pkt)
      BY <2>6, <3>1, <3>2 DEF DeliverCheck, Contract!Promise
    <3>4. QED
      BY <3>1, <3>3 DEF Contract!Next
  <2>7. ASSUME NEW p \in Packet, MarkRead(p) \/ DeleteMessage(p)
        PROVE  [Contract!Next]_(Contract!vars)
    <3>1. UNCHANGED <<Known, Owed, acked>>
      BY <2>1, <2>7 DEF MarkRead, DeleteMessage
    <3>2. Contract!Touch(p)
      BY <2>7, <3>1 DEF MarkRead, DeleteMessage, Contract!Touch, Contract!Filed, Filed
    <3>3. QED
      BY <3>2 DEF Contract!Next
  <2>8. ASSUME NEW t \in Task, NEW p \in Packet, Deliver(t, p)
        PROVE  Contract!Record(p)
    BY <2>3, <2>8 DEF Deliver, Vias
  <2>9. CASE PollRecord
    <3>1. poller.got \in Packet /\ "dht" \in Vias
      BY <2>9 DEF PollRecord, TypeOK, Vias
    <3>2. QED
      BY <2>2, <2>3, <2>9, <3>1 DEF PollRecord, Contract!Next
  <2>10. QED
    BY <2>2, <2>4, <2>5, <2>6, <2>7, <2>8, <2>9
    DEF Next, Run, Signup, Login, SignupPut, GetSession, Fetch, Finish, SessionExpire,
        PollGet, DhtExpire, PollStart, RemotePush, Crash, tables, vars, Contract!Next
<1>3. QED
  BY <1>1, <1>2, Typing, FilingInvariant, PTL DEF Spec, ContractSpec, Contract!Spec
=============================================================================
