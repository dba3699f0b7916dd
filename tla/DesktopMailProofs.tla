-------------------------- MODULE DesktopMailProofs --------------------------
(***************************************************************************)
(* Proofs about DesktopMail, for every value of its constants.             *)
(***************************************************************************)
EXTENDS DesktopMail, TLAPS

RowsTyped == row \in [Node -> [Id -> Row]]
HeldTyped ==
  /\ held \in [Node -> [Node -> Mail \cup {NoMail}]]
  /\ \A p, r \in Node : held[p][r] # NoMail => To[held[p][r]] = r

\* SaveMessage, and the updates of MarkRead and DeleteMessage, write one row.
LEMMA SaveWritesOneRow ==
  ASSUME RowsTyped, NEW n \in Node, NEW id \in Id, NEW r \in Row, Save(n, id, r)
  PROVE  /\ RowsTyped'
         /\ \A k \in Node, j \in Id : row'[k][j] = IF k = n /\ j = id THEN r ELSE row[k][j]
<1> DEFINE t == [row[n] EXCEPT ![id] = r]
<1>1. t \in [Id -> Row] /\ \A j \in Id : t[j] = IF j = id THEN r ELSE row[n][j]
  BY DEF RowsTyped
<1>2. row' = [row EXCEPT ![n] = t]
  BY DEF Save
<1> HIDE DEF t
<1>3. QED
  BY <1>1, <1>2 DEF RowsTyped

\* The rows the daemon writes are rows, and have ids of the table.
LEMMA RowsWritten ==
  ASSUME NEW m \in Mail
  PROVE  /\ SentRow(m) \in Row /\ InboxRow(m) \in Row
         /\ SentId(m) \in Id /\ m \in Id
         /\ From[m] \in Node /\ To[m] \in Node
BY ConstantsAssumption DEF SentRow, InboxRow, Row, SentId, Id

\* A put changes a peer's record for the recipient, into this mail, or nothing.
LEMMA PutStores ==
  ASSUME HeldTyped, NEW m \in Mail, NEW S, Put(S, m)
  PROVE  /\ HeldTyped'
         /\ \A p, r \in Node : held'[p][r] = held[p][r] \/ held'[p][r] = m
<1> DEFINE h(p) == [held[p] EXCEPT ![To[m]] = m]
<1>1. \A p \in Node : /\ h(p) \in [Node -> Mail \cup {NoMail}]
                      /\ \A r \in Node : h(p)[r] = IF r = To[m] THEN m ELSE held[p][r]
  BY DEF HeldTyped
<1>2. held' = [p \in Node |-> IF p \in S /\ m \notin stale THEN h(p) ELSE held[p]]
  BY DEF Put
<1> HIDE DEF h
<1>3. \A p \in Node : held'[p] = h(p) \/ held'[p] = held[p]
  BY <1>2
<1>4. held' \in [Node -> [Node -> Mail \cup {NoMail}]]
  BY <1>1, <1>2 DEF HeldTyped
<1>5. ASSUME NEW p \in Node, NEW r \in Node
      PROVE  held'[p][r] = held[p][r] \/ (held'[p][r] = m /\ r = To[m])
  BY <1>1, <1>3
<1>6. QED
  BY <1>4, <1>5 DEF HeldTyped

\* TypeOK contains what these lemmas need.
LEMMA TypeParts == TypeOK => RowsTyped /\ HeldTyped
BY DEF TypeOK, RowsTyped, HeldTyped
-----------------------------------------------------------------------------
(* Typing *)

\* Every reachable state is well typed: peers hold a packet only under its
\* recipient's key, and a daemon only handles packets addressed to it.
THEOREM Typing == Spec => []TypeOK
<1>1. Init => TypeOK
  BY ConstantsAssumption DEF Init, TypeOK, NoRow, QuietPoll, Row, PCs, Poll
<1>2. TypeOK /\ [Next]_vars => TypeOK'
  <2> SUFFICES ASSUME TypeOK, [Next]_vars PROVE TypeOK'
    OBVIOUS
  <2>0. RowsTyped /\ HeldTyped
    BY TypeParts
  <2>1. ASSUME NEW m \in Mail, Send(m) \/ Answer(m) \/ Build(m) \/ Age(m) PROVE TypeOK'
    BY <2>1 DEF TypeOK, Send, Answer, Build, Age, Goto, PCs, sending
  <2>2. ASSUME NEW m \in Mail, SaveSent(m) PROVE TypeOK'
    <3>1. RowsTyped'
      BY <2>0, <2>2, SaveWritesOneRow, RowsWritten DEF SaveSent, RowsTyped
    <3>2. QED
      BY <2>2, <3>1 DEF TypeOK, SaveSent, Goto, PCs, RowsTyped
  <2>3. ASSUME NEW m \in Mail, Push(m) \/ PutDone(m) PROVE TypeOK'
    <3>1. HeldTyped'
      BY <2>0, <2>3, PutStores DEF Push, PutDone
    <3>2. pc' \in [Mail -> PCs]
      BY <2>3 DEF TypeOK, Push, PutDone, Goto, PCs
    <3>3. QED
      BY <2>3, <3>1, <3>2 DEF TypeOK, Push, PutDone, HeldTyped
  <2>4. ASSUME NEW n \in Node, PollGet(n) PROVE TypeOK'
    <3>1. PICK p \in Node :
            /\ held[p][n] # NoMail
            /\ poll' = [poll EXCEPT ![n] = Looking("got", held[p][n])]
      BY <2>4 DEF TypeOK, PollGet
    <3>2. held[p][n] \in Mail /\ To[held[p][n]] = n
      BY <3>1 DEF TypeOK
    <3>3. QED
      BY <2>4, <3>1, <3>2 DEF TypeOK, PollGet, Poll, Looking, sending
  <2>5. ASSUME NEW n \in Node, PollCheck(n) PROVE TypeOK'
    <3>1. PICK q \in {QuietPoll, Looking("absent", poll[n].mail)} :
            poll' = [poll EXCEPT ![n] = q]
      BY <2>5 DEF PollCheck
    <3>2. poll[n] \in Poll /\ poll[n].mail \in Mail /\ To[poll[n].mail] = n
      BY <2>5 DEF TypeOK, PollCheck, Poll
    <3>3. q \in Poll /\ (q.at # "idle" => q.mail # NoMail /\ To[q.mail] = n)
      BY <2>5, <3>1, <3>2 DEF TypeOK, PollCheck, Poll, Looking, QuietPoll
    <3>4. QED
      BY <2>5, <3>1, <3>3 DEF TypeOK, PollCheck, sending
  <2>6. ASSUME NEW n \in Node, PollFile(n) PROVE TypeOK'
    <3>1. poll[n].mail \in Mail
      BY <2>6 DEF TypeOK, PollFile, Poll
    <3>2. RowsTyped'
      BY <2>0, <2>6, <3>1, SaveWritesOneRow, RowsWritten DEF PollFile, RowsTyped
    <3>3. QED
      BY <2>6, <3>2 DEF TypeOK, PollFile, Poll, QuietPoll, sending, RowsTyped
  <2>7. ASSUME NEW n \in Node, NEW id \in Id, MarkRead(n, id) \/ DeleteMessage(n, id)
        PROVE  TypeOK'
    <3>1. /\ [row[n][id] EXCEPT !.read = TRUE] \in Row
          /\ [row[n][id] EXCEPT !.folder = "trash"] \in Row
      <4>1. row[n][id] \in Row
        BY DEF TypeOK
      <4>2. QED
        BY <4>1 DEF Row
    <3>2. RowsTyped'
      BY <2>0, <2>7, <3>1, SaveWritesOneRow DEF MarkRead, DeleteMessage
    <3>3. QED
      BY <2>7, <3>2 DEF TypeOK, MarkRead, DeleteMessage, sending, RowsTyped
  <2>8. ASSUME NEW p \in Node, NEW r \in Node, Drop(p, r) PROVE TypeOK'
    BY <2>8 DEF TypeOK, Drop, sending
  <2>9. ASSUME NEW p \in Node, NEW q \in Node, NEW r \in Node, Repair(p, q, r) PROVE TypeOK'
    BY <2>9 DEF TypeOK, Repair, sending
  <2>10. ASSUME NEW n \in Node, Crash(n) PROVE TypeOK'
    BY <2>10 DEF TypeOK, Crash, PCs, Poll, QuietPoll
  <2>11. ASSUME NEW n \in Node, Restart(n) PROVE TypeOK'
    BY <2>11 DEF TypeOK, Restart, sending
  <2>12. CASE UNCHANGED vars
    BY <2>12 DEF TypeOK, vars
  <2>13. QED
    BY <2>1, <2>2, <2>3, <2>4, <2>5, <2>6, <2>7, <2>8, <2>9, <2>10, <2>11, <2>12
       DEF Next, Goroutine, Round
<1>3. QED
  BY <1>1, <1>2, PTL DEF Spec
-----------------------------------------------------------------------------
(* At most once *)

\* What holds the steps together: packets in the network are of sends that began, and
\* a poll loop about to save a mail from another daemon has no row with its id, since
\* only that loop writes a new row there.
OnceInv ==
  /\ \A p, r \in Node : held[p][r] # NoMail => pc[held[p][r]] # "new"
  /\ \A n \in Node : poll[n].at # "idle" => pc[poll[n].mail] # "new"
  /\ \A n \in Node : (poll[n].at = "absent" /\ poll[n].mail \in Between)
                        => ~HasMessage(n, poll[n].mail)
  /\ \A n \in Node, id \in Id : HasMessage(n, id) \/ row[n][id] = NoRow

\* A send that has begun never looks new again.
LEMMA SendsGoOn ==
  TypeOK /\ [Next]_vars => \A m \in Mail : pc[m] # "new" => pc'[m] # "new"
<1> SUFFICES ASSUME TypeOK, [Next]_vars, NEW m \in Mail, pc[m] # "new"
             PROVE  pc'[m] # "new"
  OBVIOUS
<1>0. pc \in [Mail -> PCs]
  BY DEF TypeOK
<1>1. ASSUME NEW k \in Mail, Send(k) \/ Goroutine(k) PROVE pc'[m] # "new"
  BY <1>0, <1>1 DEF Send, Goroutine, Build, SaveSent, Push, PutDone, Goto
<1>2. ASSUME NEW n \in Node, Crash(n) PROVE pc'[m] # "new"
  BY <1>0, <1>2 DEF Crash
<1>3. CASE UNCHANGED pc
  BY <1>3
<1>4. QED
  BY <1>1, <1>2, <1>3 DEF Next, Round, Answer, Age, PollGet, PollCheck, PollFile, MarkRead,
     DeleteMessage, Drop, Repair, Restart, sending, vars

\* The sent copy of a mail to somebody else never lands on the row of a received mail.
LEMMA SentIdsAreApart ==
  ASSUME NEW m \in Mail, NEW k \in Between
  PROVE  SentId(m) # k
BY ConstantsAssumption DEF SentId, Between

\* Existing rows stay, and a row of a mail from another daemon is new only if the
\* recipient's poll loop files it.
LEMMA RowsOnlyGrow ==
  ASSUME TypeOK, [Next]_vars, NEW n \in Node, NEW id \in Id
  PROVE  /\ HasMessage(n, id) => HasMessage(n, id)'
         /\ \/ row'[n][id] = row[n][id]
            \/ HasMessage(n, id) /\ (MarkRead(n, id) \/ DeleteMessage(n, id))
            \/ PollFile(n) /\ id = poll[n].mail /\ row'[n][id] = InboxRow(id)
            \/ \E m \in Mail : /\ SaveSent(m) /\ n = From[m] /\ id = SentId(m)
                              /\ row'[n][id] = SentRow(m)
<1>0. RowsTyped
  BY TypeParts
<1>1. ASSUME NEW m \in Mail, SaveSent(m), row' # row
      PROVE  \/ row'[n][id] = row[n][id]
             \/ n = From[m] /\ id = SentId(m) /\ row'[n][id] = SentRow(m)
  BY <1>0, <1>1, SaveWritesOneRow, RowsWritten DEF SaveSent
<1>2. ASSUME NEW k \in Node, PollFile(k), row' # row
      PROVE  \/ row'[n][id] = row[n][id]
             \/ k = n /\ id = poll[n].mail /\ row'[n][id] = InboxRow(id)
  <2>1. poll[k].mail \in Mail
    BY <1>2 DEF TypeOK, PollFile, Poll
  <2>2. QED
    BY <1>0, <1>2, <2>1, SaveWritesOneRow, RowsWritten DEF PollFile
<1>3. ASSUME NEW k \in Node, NEW j \in Id, MarkRead(k, j) \/ DeleteMessage(k, j)
      PROVE  /\ row'[n][id] = row[n][id] \/ (k = n /\ j = id)
             /\ HasMessage(n, id) => HasMessage(n, id)'
  <2>1. row[k][j] \in Row
    BY <1>0 DEF RowsTyped
  <2> DEFINE read == [row[k][j] EXCEPT !.read = TRUE]
             trashed == [row[k][j] EXCEPT !.folder = "trash"]
  <2>2. /\ read \in Row /\ read.folder = row[k][j].folder
        /\ trashed \in Row /\ trashed.folder = "trash"
    BY <2>1 DEF Row
  <2>3. HasMessage(k, j) /\ (Save(k, j, read) \/ Save(k, j, trashed))
    BY <1>3 DEF MarkRead, DeleteMessage
  <2> HIDE DEF read, trashed
  <2>4. CASE Save(k, j, read)
    BY <1>0, <2>2, <2>3, <2>4, SaveWritesOneRow DEF HasMessage
  <2>5. CASE Save(k, j, trashed)
    BY <1>0, <2>2, <2>3, <2>5, SaveWritesOneRow DEF HasMessage
  <2>6. QED
    BY <2>3, <2>4, <2>5
<1>4. HasMessage(n, id) => HasMessage(n, id)'
  <2>1. \A m \in Mail : SentRow(m).folder # "none" /\ InboxRow(m).folder # "none"
    BY DEF SentRow, InboxRow
  <2>2. ASSUME NEW k \in Node, PollFile(k) PROVE poll[k].mail \in Mail
    BY <2>2 DEF TypeOK, PollFile, Poll
  <2>3. QED
    BY <1>1, <1>2, <1>3, <2>1, <2>2 DEF Next, Goroutine, Round, HasMessage, Send, Build, Push,
       PutDone, Answer, Age, PollGet, PollCheck, Drop, Repair, Crash, Restart, vars
<1>5. QED
  <2>1. CASE row' = row
    BY <1>4, <2>1
  <2>2. ASSUME NEW k \in Node, NEW j \in Id, MarkRead(k, j) \/ DeleteMessage(k, j)
        PROVE  \/ row'[n][id] = row[n][id]
               \/ HasMessage(n, id) /\ (MarkRead(n, id) \/ DeleteMessage(n, id))
    BY <1>3, <2>2 DEF MarkRead, DeleteMessage
  <2>3. QED
    BY <1>1, <1>2, <1>4, <2>1, <2>2 DEF Next, Goroutine, Round, Send, Build, Push,
       PutDone, Answer, Age, PollGet, PollCheck, Drop, Repair, Crash, Restart, vars

\* OnceInv holds in every reachable state.
LEMMA OnceInvariant == Spec => []OnceInv
<1>1. Init => OnceInv
  BY ConstantsAssumption DEF Init, OnceInv, QuietPoll, NoRow, HasMessage
<1>2. TypeOK /\ TypeOK' /\ OnceInv /\ [Next]_vars => OnceInv'
  <2> SUFFICES ASSUME TypeOK, TypeOK', OnceInv, [Next]_vars PROVE OnceInv'
    OBVIOUS
  <2>1. ASSUME NEW p \in Node, NEW r \in Node, held'[p][r] # NoMail
        PROVE  pc'[held'[p][r]] # "new"
    <3>1. \/ \E q \in Node : held'[p][r] = held[q][r]
          \/ \E m \in Mail : (Push(m) \/ PutDone(m)) /\ held'[p][r] = m
      <4>1. ASSUME NEW m \in Mail, Push(m) \/ PutDone(m)
            PROVE  held'[p][r] = held[p][r] \/ held'[p][r] = m
        BY <4>1, TypeParts, PutStores DEF Push, PutDone
      <4>2. ASSUME NEW q \in Node, NEW s \in Node, Drop(q, s)
            PROVE  held'[p][r] = held[p][r] \/ held'[p][r] = NoMail
        BY <4>2 DEF Drop, TypeOK
      <4>3. ASSUME NEW q \in Node, NEW k \in Node, NEW s \in Node, Repair(q, k, s)
            PROVE  held'[p][r] = held[p][r] \/ held'[p][r] = held[q][r]
        BY <4>3 DEF Repair, TypeOK
      <4>4. ASSUME NEW n \in Node, Crash(n)
            PROVE  held'[p][r] = held[p][r] \/ held'[p][r] = NoMail
        BY <4>4 DEF Crash, TypeOK
      <4>5. CASE UNCHANGED held
        BY <4>5
      <4>6. QED
        BY <2>1, <4>1, <4>2, <4>3, <4>4, <4>5 DEF Next, Goroutine, Round, Send, Build, SaveSent,
           Answer, Age, PollGet, PollCheck, PollFile, MarkRead, DeleteMessage, Restart, vars
    <3>2. ASSUME NEW q \in Node, held'[p][r] = held[q][r] PROVE pc'[held'[p][r]] # "new"
      <4>1. held[q][r] \in Mail /\ pc[held[q][r]] # "new"
        BY <2>1, <3>2 DEF TypeOK, OnceInv
      <4>2. QED
        BY <3>2, <4>1, SendsGoOn
    <3>3. ASSUME NEW m \in Mail, Push(m) \/ PutDone(m) PROVE pc'[m] # "new"
      <4>1. pc[m] # "new"
        BY <3>3 DEF Push, PutDone
      <4>2. QED
        BY <4>1, SendsGoOn
    <3>4. QED
      BY <3>1, <3>2, <3>3
  <2>2. ASSUME NEW n \in Node, poll'[n].at # "idle"
        PROVE  /\ pc'[poll'[n].mail] # "new"
               /\ (poll'[n].at = "absent" /\ poll'[n].mail \in Between)
                    => row'[n][poll'[n].mail].folder = "none"
    <3>1. \/ poll'[n] = poll[n]
          \/ PollGet(n) /\ \E p \in Node : /\ held[p][n] # NoMail
                                          /\ poll'[n] = Looking("got", held[p][n])
          \/ PollCheck(n) /\ ~HasMessage(n, poll[n].mail) /\ poll[n].at = "got"
               /\ poll'[n] = Looking("absent", poll[n].mail)
      <4>1. ASSUME NEW k \in Node, PollGet(k)
            PROVE  \/ poll'[n] = poll[n]
                   \/ k = n /\ \E p \in Node : /\ held[p][n] # NoMail
                                             /\ poll'[n] = Looking("got", held[p][n])
        BY <4>1 DEF PollGet, TypeOK
      <4>2. ASSUME NEW k \in Node, PollCheck(k)
            PROVE  \/ poll'[n] = poll[n]
                   \/ k = n /\ ~HasMessage(n, poll[n].mail) /\ poll[n].at = "got"
                        /\ poll'[n] = Looking("absent", poll[n].mail)
        BY <2>2, <4>2 DEF PollCheck, TypeOK, QuietPoll
      <4>3. ASSUME NEW k \in Node, PollFile(k) \/ Crash(k) PROVE poll'[n] = poll[n]
        BY <2>2, <4>3 DEF PollFile, Crash, TypeOK, QuietPoll
      <4>4. CASE UNCHANGED poll
        BY <4>4
      <4>5. QED
        BY <4>1, <4>2, <4>3, <4>4 DEF Next, Goroutine, Round, Send, Build, SaveSent,
           Push, PutDone, Answer, Age, MarkRead, DeleteMessage, Drop, Repair, Restart, vars
    <3>2. CASE poll'[n] = poll[n]
      <4>1. poll[n].mail \in Mail /\ pc[poll[n].mail] # "new"
        BY <2>2, <3>2 DEF TypeOK, OnceInv, Poll
      <4>2. pc'[poll'[n].mail] # "new"
        BY <3>2, <4>1, SendsGoOn
      <4>3. ASSUME poll[n].at = "absent", poll[n].mail \in Between
            PROVE  row'[n][poll[n].mail].folder = "none"
        <5> DEFINE id == poll[n].mail
        <5>1. ~HasMessage(n, id) /\ id \in Id
          BY <4>1, <4>3 DEF OnceInv, Id
        <5>2. ~PollFile(n)
          BY <3>2, <4>3 DEF PollFile, TypeOK, QuietPoll
        <5>3. \A m \in Mail : SentId(m) # id
          BY <4>3, SentIdsAreApart
        <5> HIDE DEF id
        <5>4. row'[n][id] = row[n][id]
          BY <5>1, <5>2, <5>3, RowsOnlyGrow
        <5>5. QED
          BY <5>1, <5>4 DEF HasMessage, id
      <4>4. QED
        BY <3>2, <4>2, <4>3
    <3>3. ASSUME NEW p \in Node, held[p][n] # NoMail, poll'[n] = Looking("got", held[p][n])
          PROVE  pc'[poll'[n].mail] # "new" /\ poll'[n].at = "got"
      <4>1. held[p][n] \in Mail /\ pc[held[p][n]] # "new"
        BY <3>3 DEF TypeOK, OnceInv
      <4>2. QED
        BY <3>3, <4>1, SendsGoOn DEF Looking
    <3>4. ASSUME PollCheck(n), ~HasMessage(n, poll[n].mail), poll[n].at = "got",
                 poll'[n] = Looking("absent", poll[n].mail)
          PROVE  pc'[poll'[n].mail] # "new" /\ row'[n][poll'[n].mail].folder = "none"
      <4>1. poll[n].mail \in Mail /\ pc[poll[n].mail] # "new"
        BY <3>4 DEF TypeOK, OnceInv, Poll
      <4>2. poll'[n].mail = poll[n].mail /\ row' = row
        BY <3>4 DEF Looking, PollCheck
      <4>3. QED
        BY <3>4, <4>1, <4>2, SendsGoOn DEF HasMessage
    <3>5. QED
      BY <3>1, <3>2, <3>3, <3>4
  <2>3. ASSUME NEW n \in Node, NEW id \in Id
        PROVE  row'[n][id].folder # "none" \/ row'[n][id] = NoRow
    <3>1. HasMessage(n, id) \/ row[n][id] = NoRow
      BY DEF OnceInv
    <3>2. InboxRow(id).folder # "none" /\ \A m \in Mail : SentRow(m).folder # "none"
      BY DEF SentRow, InboxRow
    <3>3. HasMessage(n, id) => row'[n][id].folder # "none"
      BY RowsOnlyGrow DEF HasMessage
    <3>4. QED
      BY <3>1, <3>2, <3>3, RowsOnlyGrow
  <2>4. QED
    BY <2>1, <2>2, <2>3 DEF OnceInv, HasMessage
<1>3. QED
  BY <1>1, <1>2, Typing, PTL DEF Spec

\* The state OnceContract sees.
Accepted == {m \in Between : pc[m] # "new"}
Mailbox == [m \in Between |-> Copy(row[To[m]][m])]

\* Setting the read flag of a copy leaves its folder alone.
LEMMA MarkingACopy ==
  ASSUME NEW folder, NEW read, NEW flag
  PROVE  [[folder |-> folder, read |-> read] EXCEPT !.read = flag] = [folder |-> folder, read |-> flag]
OBVIOUS

\* Reading or deleting a message shows in its copy as just that.
LEMMA CopiesChange ==
  ASSUME NEW r \in Row
  PROVE  /\ [r EXCEPT !.read = TRUE] \in Row
         /\ Copy([r EXCEPT !.read = TRUE]) = [Copy(r) EXCEPT !.read = TRUE]
         /\ [r EXCEPT !.folder = "trash"] \in Row
         /\ Copy([r EXCEPT !.folder = "trash"]) = [Copy(r) EXCEPT !.folder = "trash"]
<1> DEFINE read == [r EXCEPT !.read = TRUE]
           trashed == [r EXCEPT !.folder = "trash"]
<1>1. read \in Row /\ read.read = TRUE /\ read.folder = r.folder
  BY DEF Row
<1>2. trashed \in Row /\ trashed.folder = "trash" /\ trashed.read = r.read
  BY DEF Row
<1> HIDE DEF read, trashed
<1>3. Copy(read) = [Copy(r) EXCEPT !.read = TRUE]
  <2>1. Copy(read) = [folder |-> r.folder, read |-> TRUE]
    BY <1>1, Zenon DEF Copy
  <2>2. [Copy(r) EXCEPT !.read = TRUE] = [folder |-> r.folder, read |-> TRUE]
    BY MarkingACopy, Zenon DEF Copy
  <2>3. QED
    BY <2>1, <2>2
<1>4. Copy(trashed) = [Copy(r) EXCEPT !.folder = "trash"]
  BY <1>2 DEF Copy
<1>5. QED
  BY <1>1, <1>2, <1>3, <1>4 DEF read, trashed

\* Every step of the daemons and of the network is a step of the at-most-once contract,
\* or changes nothing that it speaks about: whatever fails, a mail is filed once.
THEOREM DaemonsImplementOnceContract == Spec => OnceSpec
<1> USE DEF Accepted, Mailbox
<1>1. Init => Once!Init
  <2> SUFFICES ASSUME Init PROVE Once!Init
    OBVIOUS
  <2>1. \A m \in Between : m \in Mail /\ m \in Id /\ To[m] \in Node
    BY ConstantsAssumption DEF Between, Id
  <2>2. Copy(NoRow) = Once!NoCopy
    BY DEF Copy, NoRow, Once!NoCopy
  <2>3. \A m \in Between : Copy(row[To[m]][m]) = Once!NoCopy
    BY <2>1, <2>2 DEF Init
  <2>4. Accepted = {}
    BY <2>1 DEF Init
  <2>5. Mailbox = [m \in Between |-> Once!NoCopy]
    BY <2>3
  <2>6. QED
    BY <2>4, <2>5 DEF Once!Init
<1>2. TypeOK /\ OnceInv /\ [Next]_vars => [Once!Next]_(Once!vars)
  <2> SUFFICES ASSUME TypeOK, OnceInv, [Next]_vars PROVE [Once!Next]_(Once!vars)
    OBVIOUS
  <2> USE DEF Once!vars
  <2>0. \A m \in Between : m \in Mail /\ m \in Id /\ To[m] \in Node
    BY ConstantsAssumption DEF Between, Id
  <2>1. pc \in [Mail -> PCs] /\ \A m \in Mail : pc[m] # "new" => pc'[m] # "new"
    BY SendsGoOn DEF TypeOK
  \* A send begins.
  <2>2. ASSUME NEW m \in Mail, Send(m) PROVE [Once!Next]_(Once!vars)
    <3>1. Mailbox' = Mailbox
      BY <2>2 DEF Send
    <3>2. CASE m \in Between
      <4>1. Accepted' = Accepted \cup {m}
        BY <2>0, <2>1, <2>2, <3>2 DEF Send, Goto
      <4>2. Once!Accept(m)
        BY <3>1, <4>1 DEF Once!Accept
      <4>3. QED
        BY <3>2, <4>2 DEF Once!Next
    <3>3. CASE m \notin Between
      <4>1. Accepted' = Accepted
        BY <2>0, <2>1, <2>2, <3>3 DEF Send, Goto
      <4>2. QED
        BY <3>1, <4>1
    <3>4. QED
      BY <3>2, <3>3
  \* Every other step keeps the set of sends that have begun.
  <2>3. ASSUME \A m \in Mail : ~Send(m) PROVE Accepted' = Accepted
    <3>1. ASSUME NEW k \in Mail, Goroutine(k) PROVE \A m \in Mail : pc'[m] = "new" <=> pc[m] = "new"
      BY <2>1, <3>1 DEF Goroutine, Build, SaveSent, Push, PutDone, Goto
    <3>2. ASSUME NEW n \in Node, Crash(n) PROVE \A m \in Mail : pc'[m] = "new" <=> pc[m] = "new"
      BY <2>1, <3>2 DEF Crash
    <3>3. CASE UNCHANGED pc
      BY <3>3
    <3>4. \A m \in Mail : pc'[m] = "new" <=> pc[m] = "new"
      BY <2>3, <3>1, <3>2, <3>3 DEF Next, Round, Answer, Age, PollGet, PollCheck, PollFile,
         MarkRead, DeleteMessage, Drop, Repair, Restart, sending, vars
    <3>5. QED
      BY <2>0, <3>4
  \* The recipient's poll loop files a mail.
  <2>4. ASSUME NEW n \in Node, PollFile(n), row' # row PROVE [Once!Next]_(Once!vars)
    <3> DEFINE m == poll[n].mail
    <3>1. m \in Mail /\ To[m] = n /\ pc[m] # "new" /\ poll[n].at = "absent"
      BY <2>4 DEF PollFile, TypeOK, OnceInv, Poll
    <3>2. Save(n, m, InboxRow(m))
      BY <2>4 DEF PollFile
    <3>3. Accepted' = Accepted
      BY <2>4 DEF PollFile, sending
    <3>4. m \in Between => row[n][m] = NoRow
      BY <3>1 DEF OnceInv, Id
    <3> HIDE DEF m
    <3>5. \A k \in Node, j \in Id :
            row'[k][j] = IF k = n /\ j = m THEN InboxRow(m) ELSE row[k][j]
      BY <3>1, <3>2, TypeParts, SaveWritesOneRow, RowsWritten
    <3>6. CASE m \in Between
      <4>1. Mailbox[m] = Once!NoCopy
        <5>1. Copy(NoRow) = Once!NoCopy
          BY DEF Copy, NoRow, Once!NoCopy
        <5>2. QED
          BY <3>1, <3>4, <3>6, <5>1
      <4>2. Copy(InboxRow(m)) = Once!FreshCopy
        BY DEF Copy, InboxRow, Once!FreshCopy
      <4>3. Mailbox' = [Mailbox EXCEPT ![m] = Once!FreshCopy]
        <5>1. \A k \in Between : k \in Id /\ To[k] \in Node
          BY <2>0
        <5>2. \A k \in Between : row'[To[k]][k] = IF k = m THEN InboxRow(m) ELSE row[To[k]][k]
          BY <3>1, <3>5, <5>1
        <5>3. \A k \in Between : Copy(row'[To[k]][k])
                                 = IF k = m THEN Once!FreshCopy ELSE Copy(row[To[k]][k])
          BY <4>2, <5>2
        <5>4. QED
          BY <3>6, <5>3
      <4>4. Once!Deliver(m)
        BY <3>1, <3>3, <3>6, <4>1, <4>3 DEF Once!Deliver
      <4>5. QED
        BY <3>6, <4>4 DEF Once!Next
    <3>7. CASE m \notin Between
      <4>1. Mailbox' = Mailbox
        BY <2>0, <3>5, <3>7
      <4>2. QED
        BY <3>3, <4>1
    <3>8. QED
      BY <3>6, <3>7
  \* A user reads or deletes.
  <2>5. ASSUME NEW n \in Node, NEW id \in Id, MarkRead(n, id) \/ DeleteMessage(n, id)
        PROVE  [Once!Next]_(Once!vars)
    <3> DEFINE read == [row[n][id] EXCEPT !.read = TRUE]
               trashed == [row[n][id] EXCEPT !.folder = "trash"]
    <3>1. /\ read \in Row /\ Copy(read) = [Copy(row[n][id]) EXCEPT !.read = TRUE]
          /\ trashed \in Row /\ Copy(trashed) = [Copy(row[n][id]) EXCEPT !.folder = "trash"]
      <4>1. row[n][id] \in Row
        BY DEF TypeOK
      <4>2. QED
        BY <4>1, CopiesChange
    <3>2. Accepted' = Accepted
      BY <2>5 DEF MarkRead, DeleteMessage, sending
    <3>3. PICK r : r \in {read, trashed} /\ Save(n, id, r)
      BY <2>5 DEF MarkRead, DeleteMessage
    <3> HIDE DEF read, trashed
    <3>4. \A k \in Node, j \in Id : row'[k][j] = IF k = n /\ j = id THEN r ELSE row[k][j]
      BY <3>1, <3>3, TypeParts, SaveWritesOneRow
    <3>5. CASE id \in Between /\ n = To[id]
      <4>1. Mailbox[id] = Copy(row[n][id])
        BY <3>5
      <4>2. Mailbox[id] # Once!NoCopy
        <5>1. row[n][id].folder # "none"
          BY <2>5 DEF MarkRead, DeleteMessage, HasMessage
        <5>2. Copy(row[n][id]).folder # "none"
          BY <5>1 DEF Copy
        <5>3. QED
          BY <4>1, <5>2 DEF Once!NoCopy
      <4>3. Mailbox' = [Mailbox EXCEPT ![id] = Copy(r)]
        <5>1. \A m \in Between :
                Copy(row'[To[m]][m]) = IF m = id THEN Copy(r) ELSE Copy(row[To[m]][m])
          BY <2>0, <3>4, <3>5
        <5>2. QED
          BY <3>5, <5>1
      <4>4. Mailbox' \in {[Mailbox EXCEPT ![id].read = TRUE],
                          [Mailbox EXCEPT ![id].folder = "trash"]}
        BY <3>1, <3>3, <4>1, <4>3
      <4>5. Once!Touch(id)
        BY <3>2, <4>2, <4>4 DEF Once!Touch
      <4>6. QED
        BY <3>5, <4>5 DEF Once!Next
    <3>6. CASE ~(id \in Between /\ n = To[id])
      <4>1. Mailbox' = Mailbox
        BY <2>0, <3>4, <3>6
      <4>2. QED
        BY <3>2, <4>1
    <3>7. QED
      BY <3>5, <3>6
  \* The sender's own copy is on another row.
  <2>6. ASSUME NEW m \in Mail, SaveSent(m) PROVE Mailbox' = Mailbox
    <3>1. CASE UNCHANGED row
      BY <3>1
    <3>2. CASE Save(From[m], SentId(m), SentRow(m))
      BY <2>0, <3>2, TypeParts, SaveWritesOneRow, RowsWritten, SentIdsAreApart
    <3>3. QED
      BY <2>6, <3>1, <3>2 DEF SaveSent
  <2>7. UNCHANGED row => Mailbox' = Mailbox
    OBVIOUS
  <2>8. QED
    BY <2>2, <2>3, <2>4, <2>5, <2>6, <2>7 DEF Next, Goroutine, Round, Build, Push, PutDone,
       Answer, Age, PollGet, PollCheck, Drop, Repair, Crash, Restart, vars
<1>3. QED
  BY <1>1, <1>2, Typing, OnceInvariant, PTL DEF Spec, OnceSpec, Once!Spec
-----------------------------------------------------------------------------
(* The sender's trace *)

\* SenderHasTrace strengthened: from the end of SaveSent on, and for packets under way.
TraceInv ==
  \A m \in Mail :
    (\/ pc[m] \in {"pushing", "putting", "pushed"}
     \/ \E p, r \in Node : held[p][r] = m
     \/ \E n \in Node : poll[n].at # "idle" /\ poll[n].mail = m
     \/ HasMessage(To[m], m)) => HasMessage(From[m], SentId(m))

\* If saving the sender's copy does not fail, no mail is out in the network, or in its
\* recipient's inbox, without a row under its sent id at its sender.
THEOREM SendersHaveTraces ==
  ASSUME "saveSent" \notin Faults
  PROVE  Spec => []SenderHasTrace
<1>1. Init => TraceInv
  <2> SUFFICES ASSUME Init, NEW m \in Mail
               PROVE  /\ pc[m] = "new"
                      /\ \A p, r \in Node : held[p][r] # m
                      /\ \A n \in Node : poll[n].at = "idle"
                      /\ ~HasMessage(To[m], m)
    BY DEF TraceInv
  <2>1. m \in Id /\ To[m] \in Node
    BY RowsWritten
  <2>2. QED
    BY <2>1, ConstantsAssumption DEF Init, QuietPoll, NoRow, HasMessage
<1>2. TypeOK /\ TraceInv /\ [Next]_vars => TraceInv'
  <2> SUFFICES ASSUME TypeOK, TraceInv, [Next]_vars, NEW m \in Mail
               PROVE  (\/ pc'[m] \in {"pushing", "putting", "pushed"}
                       \/ \E p, r \in Node : held'[p][r] = m
                       \/ \E n \in Node : poll'[n].at # "idle" /\ poll'[n].mail = m
                       \/ row'[To[m]][m].folder # "none")
                        => row'[From[m]][SentId(m)].folder # "none"
    BY DEF TraceInv, HasMessage
  <2> DEFINE Traced == HasMessage(From[m], SentId(m))
             Later == row'[From[m]][SentId(m)].folder # "none"
  <2>0. /\ From[m] \in Node /\ To[m] \in Node /\ SentId(m) \in Id /\ m \in Id
        /\ pc \in [Mail -> PCs] /\ m # NoMail
    BY RowsWritten, ConstantsAssumption DEF TypeOK
  <2>1. Traced => Later
    BY <2>0, RowsOnlyGrow DEF HasMessage
  \* The goroutine gets past its save.
  <2>2. pc'[m] \in {"pushing", "putting", "pushed"} => Later
    <3>1. ASSUME NEW k \in Mail, Send(k) \/ Build(k) \/ Push(k) \/ PutDone(k),
                 pc'[m] \in {"pushing", "putting", "pushed"}
          PROVE  pc[m] \in {"pushing", "putting", "pushed"}
      BY <2>0, <3>1 DEF Send, Build, Push, PutDone, Goto
    <3>2. ASSUME NEW k \in Mail, SaveSent(k), pc'[m] \in {"pushing", "putting", "pushed"}
          PROVE  pc[m] \in {"pushing", "putting", "pushed"} \/ Later
      <4>1. CASE k = m
        <5>1. Save(From[m], SentId(m), SentRow(m))
          BY <3>2, <4>1 DEF SaveSent
        <5>2. SentRow(m) \in Row /\ SentRow(m).folder # "none"
          BY RowsWritten DEF SentRow
        <5>3. QED
          BY <2>0, <5>1, <5>2, TypeParts, SaveWritesOneRow
      <4>2. CASE k # m
        BY <2>0, <3>2, <4>2 DEF SaveSent, Goto
      <4>3. QED
        BY <4>1, <4>2
    <3>3. ASSUME NEW n \in Node, Crash(n), pc'[m] \in {"pushing", "putting", "pushed"}
          PROVE  pc[m] \in {"pushing", "putting", "pushed"}
      BY <2>0, <3>3 DEF Crash
    <3>4. CASE UNCHANGED pc
      BY <2>1, <3>4 DEF TraceInv
    <3>5. pc[m] \in {"pushing", "putting", "pushed"} => Later
      BY <2>1 DEF TraceInv
    <3>6. QED
      BY <3>1, <3>2, <3>3, <3>4, <3>5 DEF Next, Goroutine, Round, Answer, Age, PollGet,
         PollCheck, PollFile, MarkRead, DeleteMessage, Drop, Repair, Restart, sending, vars
  \* The packet is put, or copied from one peer to another.
  <2>3. ASSUME NEW p \in Node, NEW r \in Node, held'[p][r] = m PROVE Later
    <3>1. (\E q \in Node : held[q][r] = m) \/ pc[m] \in {"pushing", "putting"}
      <4>1. ASSUME NEW k \in Mail, Push(k) \/ PutDone(k)
            PROVE  held[p][r] = m \/ pc[m] \in {"pushing", "putting"}
        <5>1. held'[p][r] = held[p][r] \/ held'[p][r] = k
          BY <4>1, TypeParts, PutStores DEF Push, PutDone
        <5>2. QED
          BY <2>3, <4>1, <5>1 DEF Push, PutDone
      <4>2. ASSUME NEW q \in Node, NEW s \in Node, Drop(q, s) PROVE held[p][r] = m
        BY <2>0, <2>3, <4>2 DEF Drop, TypeOK
      <4>3. ASSUME NEW q \in Node, NEW k \in Node, NEW s \in Node, Repair(q, k, s)
            PROVE  held[p][r] = m \/ held[q][r] = m
        BY <2>3, <4>3 DEF Repair, TypeOK
      <4>4. ASSUME NEW n \in Node, Crash(n) PROVE held[p][r] = m
        BY <2>0, <2>3, <4>4 DEF Crash, TypeOK
      <4>5. CASE UNCHANGED held
        BY <2>3, <4>5
      <4>6. QED
        BY <4>1, <4>2, <4>3, <4>4, <4>5 DEF Next, Goroutine, Round, Send, Build, SaveSent,
           Answer, Age, PollGet, PollCheck, PollFile, MarkRead, DeleteMessage, Restart, vars
    <3>2. QED
      BY <2>1, <3>1 DEF TraceInv
  \* The packet is in a poll loop.
  <2>4. ASSUME NEW n \in Node, poll'[n].at # "idle", poll'[n].mail = m PROVE Later
    <3>1. \/ poll[n].at # "idle" /\ poll[n].mail = m
          \/ \E p \in Node : held[p][n] = m
      <4>1. ASSUME NEW k \in Node, PollGet(k)
            PROVE  poll'[n] = poll[n] \/ \E p \in Node : poll'[n] = Looking("got", held[p][n])
        BY <4>1 DEF PollGet, TypeOK
      <4>2. ASSUME NEW k \in Node, PollCheck(k)
            PROVE  poll'[n] = poll[n] \/ (poll[n].at = "got" /\ poll[n].mail = m)
        BY <2>4, <4>2 DEF PollCheck, TypeOK, QuietPoll, Looking
      <4>3. ASSUME NEW k \in Node, PollFile(k) \/ Crash(k) PROVE poll'[n] = poll[n]
        BY <2>4, <4>3 DEF PollFile, Crash, TypeOK, QuietPoll
      <4>4. ASSUME UNCHANGED poll PROVE poll'[n] = poll[n]
        BY <4>4
      <4>5. \/ poll'[n] = poll[n]
            \/ \E p \in Node : poll'[n] = Looking("got", held[p][n])
            \/ poll[n].at = "got" /\ poll[n].mail = m
        BY <4>1, <4>2, <4>3, <4>4 DEF Next, Goroutine, Round, Send, Build, SaveSent,
           Push, PutDone, Answer, Age, MarkRead, DeleteMessage, Drop, Repair, Restart, vars
      <4>6. CASE poll'[n] = poll[n]
        BY <2>4, <4>6
      <4>7. ASSUME NEW p \in Node, poll'[n] = Looking("got", held[p][n]) PROVE held[p][n] = m
        BY <2>4, <4>7 DEF Looking
      <4>8. QED
        BY <4>5, <4>6, <4>7
    <3>2. QED
      BY <2>1, <3>1 DEF TraceInv
  \* The recipient has a row.
  <2>5. ASSUME row'[To[m]][m].folder # "none" PROVE Later
    <3>1. \/ HasMessage(To[m], m)
          \/ PollFile(To[m]) /\ m = poll[To[m]].mail
          \/ \E k \in Mail : SaveSent(k) /\ To[m] = From[k] /\ m = SentId(k)
      BY <2>0, <2>5, RowsOnlyGrow DEF HasMessage
    <3>2. CASE PollFile(To[m]) /\ m = poll[To[m]].mail
      <4>1. poll[To[m]].at # "idle"
        BY <3>2 DEF PollFile
      <4>2. QED
        BY <2>0, <2>1, <3>2, <4>1 DEF TraceInv
    <3>3. ASSUME NEW k \in Mail, SaveSent(k), To[m] = From[k], m = SentId(k) PROVE Later
      <4>1. k = m
        BY <3>3, ConstantsAssumption DEF SentId
      <4>2. QED
        BY <2>5, <3>3, <4>1
    <3>4. QED
      BY <2>1, <3>1, <3>2, <3>3 DEF TraceInv
  <2>6. QED
    BY <2>2, <2>3, <2>4, <2>5
<1>3. TraceInv => SenderHasTrace
  BY RowsWritten DEF TraceInv, SenderHasTrace
<1>4. QED
  BY <1>1, <1>2, <1>3, Typing, PTL DEF Spec
=============================================================================
