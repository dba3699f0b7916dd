-------------------------- MODULE OutboundMailProofs --------------------------
(***************************************************************************)
(* Proofs about OutboundMail, for every value of its constants.            *)
(***************************************************************************)
EXTENDS OutboundMail, TLAPS

\* The primary keys of the messages table.
Keys == User \X Msg

\* The part of TypeOK about the messages table.
RowsTyped ==
  /\ row \in [Keys -> Row]
  /\ \A k \in Keys : Exists(k) \/ row[k] = NoRow

\* The rows of a send have keys of the table.
LEMMA KeysAreKeys ==
  ASSUME NEW m \in Msg
  PROVE  /\ SentKey(m) \in Keys
         /\ To[m] \in User => InboxKey(m) \in Keys
BY ConstantsAssumption DEF SentKey, InboxKey, Key, Keys

\* SaveMessageForUser writes one whole row, or nothing if the store may fail.
LEMMA SaveWritesOneRow ==
  ASSUME RowsTyped, NEW k \in Keys, NEW r \in Row, NEW fault,
         r.folder # "none", Save(k, r, fault)
  PROVE  /\ RowsTyped'
         /\ \A j \in Keys : row'[j] = row[j] \/ (j = k /\ row'[j] = r)
         /\ fault \notin Faults => row'[k] = r
BY DEF RowsTyped, Exists, Save

\* UpdateMessageStatusForUser touches the status of one row, if anything.
LEMMA SetStatusKeepsFolders ==
  ASSUME RowsTyped, NEW k \in Keys, NEW status \in Statuses, SetStatus(k, status)
  PROVE  /\ RowsTyped'
         /\ \A j \in Keys : /\ row'[j].folder = row[j].folder
                            /\ \/ row'[j].status = row[j].status
                               \/ j = k /\ row'[j].status = status
<1>1. CASE UNCHANGED row
  BY <1>1 DEF RowsTyped, Exists
<1>2. CASE row' = [row EXCEPT ![k].status = IF Exists(k) THEN status ELSE @]
  <2> DEFINE r == [row[k] EXCEPT !.status = IF Exists(k) THEN status ELSE row[k].status]
  <2>1. row[k] \in Row
    BY DEF RowsTyped
  <2>2. /\ r \in Row
        /\ r.folder = row[k].folder
        /\ r.status = row[k].status \/ r.status = status
        /\ Exists(k) \/ r = row[k]
    BY <2>1 DEF Row, Statuses
  <2>3. row' = [row EXCEPT ![k] = r]
    BY <1>2
  <2> HIDE DEF r
  <2>4. \A j \in Keys : row'[j] = IF j = k THEN r ELSE row[j]
    BY <2>3 DEF RowsTyped
  <2>5. row' \in [Keys -> Row]
    BY <2>2, <2>3 DEF RowsTyped
  <2>6. QED
    BY <2>2, <2>4, <2>5 DEF RowsTyped, Exists
<1>3. QED
  BY <1>1, <1>2 DEF SetStatus

\* MarkRead and DeleteMessage touch a row that is there, and no status.
LEMMA ReaderKeepsStatus ==
  ASSUME RowsTyped, NEW k \in Keys, MarkRead(k) \/ DeleteMessage(k)
  PROVE  /\ RowsTyped'
         /\ \A j \in Keys : /\ row'[j].status = row[j].status
                            /\ \/ row'[j].folder = row[j].folder
                               \/ Exists(j) /\ row'[j].folder = "trash"
<1>1. PICK r \in Row :
        /\ row' = [row EXCEPT ![k] = r]
        /\ r.status = row[k].status
        /\ r.folder \in {row[k].folder, "trash"}
  <2>1. row[k] \in Row
    BY DEF RowsTyped
  <2>2. CASE MarkRead(k)
    <3>1. /\ [row[k] EXCEPT !.read = TRUE] \in Row
          /\ [row[k] EXCEPT !.read = TRUE].status = row[k].status
          /\ [row[k] EXCEPT !.read = TRUE].folder = row[k].folder
      BY <2>1 DEF Row
    <3>2. row' = [row EXCEPT ![k] = [row[k] EXCEPT !.read = TRUE]]
      BY <2>2 DEF MarkRead
    <3>3. QED
      BY <3>1, <3>2
  <2>3. CASE DeleteMessage(k)
    <3>1. /\ [row[k] EXCEPT !.folder = "trash"] \in Row
          /\ [row[k] EXCEPT !.folder = "trash"].status = row[k].status
          /\ [row[k] EXCEPT !.folder = "trash"].folder = "trash"
      BY <2>1 DEF Row
    <3>2. row' = [row EXCEPT ![k] = [row[k] EXCEPT !.folder = "trash"]]
      BY <2>3 DEF DeleteMessage
    <3>3. QED
      BY <3>1, <3>2
  <2>4. QED
    BY <2>2, <2>3
<1>2. \A j \in Keys : row'[j] = IF j = k THEN r ELSE row[j]
  BY <1>1 DEF RowsTyped
<1>3. Exists(k)
  BY DEF MarkRead, DeleteMessage
<1>4. row' \in [Keys -> Row]
  BY <1>1 DEF RowsTyped
<1>5. QED
  BY <1>1, <1>2, <1>3, <1>4 DEF RowsTyped, Exists
-----------------------------------------------------------------------------
(* Typing *)

\* TypeOK contains what the lemmas about single writes need.
LEMMA RowsAreTyped == TypeOK => RowsTyped
BY DEF TypeOK, RowsTyped, Keys

\* The statuses that say something to the sender.
Claims == {"sent", "delivered", "read"}

\* The rows the code writes: the sender's copy claims nothing yet, and both exist.
LEMMA RowConstants ==
  /\ NoRow \in Row /\ SentRow \in Row /\ InboxRow \in Row
  /\ SentRow.folder # "none" /\ InboxRow.folder # "none"
  /\ SentRow.folder = "sent" /\ InboxRow.folder = "inbox"
  /\ NoRow.status \notin Claims /\ SentRow.status \notin Claims
  /\ InboxRow.status \notin Claims
BY DEF Claims, Row, Statuses, NoRow, SentRow, InboxRow

\* What a step may do to the table.
Writes(k, r) == \A j \in Keys : row'[j] = row[j] \/ (j = k /\ row'[j] = r)
Credits(k, status) ==
  \A j \in Keys : /\ row'[j].folder = row[j].folder
                  /\ \/ row'[j].status = row[j].status
                     \/ j = k /\ row'[j].status = status

\* Saving the sender's copy writes SentRow under its key, or fails and writes nothing.
LEMMA SaveSentEffect ==
  ASSUME TypeOK, NEW m \in Msg, SaveSent(m)
  PROVE  /\ RowsTyped'
         /\ Writes(SentKey(m), SentRow)
         /\ "saveSent" \notin Faults => row'[SentKey(m)] = SentRow
<1>1. Save(SentKey(m), SentRow, "saveSent")
  BY DEF SaveSent
<1>2. QED
  BY <1>1, RowsAreTyped, KeysAreKeys, RowConstants, SaveWritesOneRow DEF Writes

\* Filing for a local recipient writes InboxRow under the recipient's key, or fails.
LEMMA FileLocallyEffect ==
  ASSUME TypeOK, NEW m \in Msg, FileLocally(m)
  PROVE  /\ RowsTyped'
         /\ Writes(InboxKey(m), InboxRow)
         /\ "saveInbox" \notin Faults => row'[InboxKey(m)] = InboxRow
<1>1. Save(InboxKey(m), InboxRow, "saveInbox") /\ To[m] \in User
  BY DEF FileLocally
<1>2. QED
  BY <1>1, RowsAreTyped, KeysAreKeys, RowConstants, SaveWritesOneRow DEF Writes

\* Crediting a send sets one status and moves no row.
LEMMA CreditEffect ==
  ASSUME TypeOK, NEW m \in Msg, NEW status \in Statuses, SetStatus(SentKey(m), status)
  PROVE  RowsTyped' /\ Credits(SentKey(m), status)
BY RowsAreTyped, KeysAreKeys, SetStatusKeepsFolders DEF Credits

\* A read receipt sets the sender's status to read, if anything, and moves no row.
LEMMA ReceiptEffect ==
  ASSUME TypeOK, NEW k \in User \X Msg, Receipt(k)
  PROVE  RowsTyped' /\ Credits(SentKey(k[2]), "read")
<1>1. CASE SetStatus(SentKey(k[2]), "read")
  BY <1>1, CreditEffect DEF Statuses
<1>2. CASE UNCHANGED row
  BY <1>2, RowsAreTyped DEF RowsTyped, Credits, Exists
<1>3. QED
  BY <1>1, <1>2 DEF Receipt

\* Every reachable state is well typed, and no status update makes a row appear.
THEOREM Typing == Spec => []TypeOK
<1>1. Init => TypeOK
  BY RowConstants DEF Init, TypeOK, PCs, Exists
<1>2. TypeOK /\ [Next]_vars => TypeOK'
  <2> SUFFICES ASSUME TypeOK, [Next]_vars PROVE TypeOK'
    OBVIOUS
  <2>0. RowsTyped
    BY RowsAreTyped
  <2> DEFINE Rest == /\ pc' \in [Msg -> PCs]
                     /\ answered' \subseteq Msg
                     /\ published' \subseteq Msg
                     /\ recorded' \subseteq Msg
                     /\ reading' \subseteq User \X Msg
                     /\ opened' \subseteq User \X Msg
  <2>1. ASSUME NEW m \in Msg, Step(m) PROVE RowsTyped' /\ Rest
    <3>1. CASE SaveSent(m)
      BY <3>1, SaveSentEffect DEF SaveSent, Goto, TypeOK, PCs, outside, readers
    <3>2. CASE FileLocally(m)
      BY <3>2, FileLocallyEffect DEF FileLocally, Goto, TypeOK, PCs, outside, readers
    <3>3. CASE CreditLocal(m)
      BY <3>3, CreditEffect DEF CreditLocal, Goto, TypeOK, PCs, outside, readers, Statuses
    <3>4. CASE CreditSent(m)
      BY <3>4, CreditEffect DEF CreditSent, Goto, TypeOK, PCs, outside, readers, Statuses
    <3>5. CASE CreditDelivered(m)
      BY <3>5, CreditEffect DEF CreditDelivered, Goto, TypeOK, PCs, outside, readers, Statuses
    <3>6. ASSUME UNCHANGED row PROVE RowsTyped'
      BY <2>0, <3>6 DEF RowsTyped, Exists
    <3>7. CASE FileForNobody(m) \/ SpawnPush(m) \/ Answer(m) \/ Build(m) \/ Push(m)
      BY <3>6, <3>7 DEF FileForNobody, SpawnPush, Answer, Build, Push, Goto, TypeOK, PCs,
                        outside, readers
    <3>8. CASE PutDone(m) \/ DeliverFederated(m) \/ FallBack(m)
      BY <3>6, <3>8 DEF PutDone, DeliverFederated, FallBack, Goto, TypeOK, PCs, readers
    <3>9. QED
      BY <2>1, <3>1, <3>2, <3>3, <3>4, <3>5, <3>7, <3>8 DEF Step
  <2>2. ASSUME NEW k \in User \X Msg, MarkRead(k) \/ DeleteMessage(k)
        PROVE  RowsTyped' /\ Rest
    BY <2>0, <2>2, ReaderKeepsStatus
       DEF MarkRead, DeleteMessage, TypeOK, Keys, outside, readers
  <2>3. ASSUME NEW k \in User \X Msg, Receipt(k) PROVE RowsTyped' /\ Rest
    BY <2>3, ReceiptEffect DEF Receipt, TypeOK, outside
  <2>4. CASE Crash
    BY <2>0, <2>4 DEF Crash, TypeOK, PCs, RowsTyped, Exists, outside
  <2>5. CASE UNCHANGED vars
    BY <2>0, <2>5 DEF vars, TypeOK, RowsTyped, Exists
  <2>6. RowsTyped' /\ Rest => TypeOK'
    BY DEF TypeOK, RowsTyped, Keys
  <2>7. QED
    BY <2>1, <2>2, <2>3, <2>4, <2>5, <2>6 DEF Next
<1>3. QED
  BY <1>1, <1>2, PTL DEF Spec
-----------------------------------------------------------------------------
(* Routes *)

\* Only user@host messages reach the federation steps, and a message addressed by key or
\* name to a user of the server is never on a route that leads out of it.
Routes ==
  \A m \in Msg :
    /\ pc[m] \in {"delivering", "fallback", "delivered"} => m \in ViaHost
    /\ pc[m] \in {"stamping", "pushing", "putting", "pushed"} => ~Direct(m)
    /\ pc[m] = "saved" => m \notin ViaHost

\* user@host is never delivered by SendMessageForUser, nor is mail to a key elsewhere.
LEMMA DirectMail ==
  /\ \A m \in ViaHost : m \in Msg /\ ~Direct(m)
  /\ \A m \in Msg : To[m] = Elsewhere => ~Direct(m)
  /\ \A m \in Msg : Direct(m) => To[m] \in User /\ InboxKey(m) \in Keys
BY ConstantsAssumption, KeysAreKeys DEF Direct

\* SendMessageForUser returns after a local delivery, so no other route begins.
LEMMA RoutesInvariant == Spec => []Routes
<1>1. Init => Routes
  BY DEF Init, Routes
<1>2. TypeOK /\ Routes /\ [Next]_vars => Routes'
  <2> SUFFICES ASSUME TypeOK, Routes, [Next]_vars PROVE Routes'
    OBVIOUS
  <2>0. pc \in [Msg -> PCs]
    BY DEF TypeOK
  <2>1. ASSUME NEW m \in Msg, Step(m) PROVE Routes'
    <3>1. CASE SaveSent(m) \/ SpawnPush(m)
      BY <2>0, <3>1, ConstantsAssumption, DirectMail
         DEF SaveSent, SpawnPush, Goto, Routes
    <3>2. CASE FileLocally(m) \/ FileForNobody(m) \/ CreditLocal(m) \/ Answer(m)
      BY <2>0, <3>2 DEF FileLocally, FileForNobody, CreditLocal, Answer, Goto, Routes
    <3>3. CASE Build(m) \/ Push(m) \/ PutDone(m)
      BY <2>0, <3>3 DEF Build, Push, PutDone, Goto, Routes
    <3>4. CASE DeliverFederated(m) \/ FallBack(m)
      BY <2>0, <3>4, DirectMail DEF DeliverFederated, FallBack, Goto, Routes
    <3>5. CASE CreditSent(m) \/ CreditDelivered(m)
      BY <2>0, <3>5 DEF CreditSent, CreditDelivered, Goto, Routes
    <3>6. QED
      BY <2>1, <3>1, <3>2, <3>3, <3>4, <3>5 DEF Step
  <2>2. CASE Crash
    BY <2>0, <2>2 DEF Crash, Routes
  <2>3. CASE UNCHANGED pc
    BY <2>3 DEF Routes
  <2>4. QED
    BY <2>1, <2>2, <2>3 DEF Next, MarkRead, Receipt, DeleteMessage, vars
<1>3. QED
  BY <1>1, <1>2, Typing, PTL DEF Spec

\* No message addressed by key or name to a user of the server is ever put into the DHT
\* or handed to another server, whatever fails.
THEOREM LocalMailIsKeptHome == Spec => []LocalMailStaysHome
<1>1. Init => LocalMailStaysHome
  BY DEF Init, LocalMailStaysHome
<1>2. Routes /\ LocalMailStaysHome /\ [Next]_vars => LocalMailStaysHome'
  <2> SUFFICES ASSUME Routes, LocalMailStaysHome, [Next]_vars,
                      NEW n \in Msg, Direct(n)
               PROVE  n \notin published' \cup recorded'
    BY DEF LocalMailStaysHome, Direct
  <2>1. n \notin published /\ n \notin recorded
    BY DEF LocalMailStaysHome
  <2>2. ASSUME NEW m \in Msg, Step(m) PROVE n \notin published' \cup recorded'
    <3>1. CASE PutDone(m) \/ DeliverFederated(m) \/ FallBack(m)
      <4>1. ~Direct(m)
        BY <3>1, DirectMail DEF Routes, PutDone, DeliverFederated, FallBack
      <4>2. QED
        BY <2>1, <3>1, <4>1 DEF PutDone, DeliverFederated, FallBack
    <3>2. CASE UNCHANGED outside
      BY <2>1, <3>2 DEF outside
    <3>3. QED
      BY <2>2, <3>1, <3>2
         DEF Step, SaveSent, FileLocally, FileForNobody, CreditLocal, SpawnPush, Answer,
             Build, Push, CreditSent, CreditDelivered, outside
  <2>3. CASE UNCHANGED outside
    BY <2>1, <2>3 DEF outside
  <2>4. QED
    BY <2>2, <2>3 DEF Next, MarkRead, Receipt, DeleteMessage, Crash, vars, outside
<1>3. QED
  BY <1>1, <1>2, RoutesInvariant, PTL DEF Spec
-----------------------------------------------------------------------------
(* Statuses *)

\* Only SaveSent and FileLocally put a row in a folder other than the trash.
LEMMA FoldersOnlyMoveToTrash ==
  ASSUME TypeOK, [Next]_vars, NEW j \in Keys
  PROVE  \/ row'[j].folder = row[j].folder
         \/ Exists(j) /\ row'[j].folder = "trash"
         \/ \E m \in Msg : SaveSent(m) /\ j = SentKey(m)
         \/ \E m \in Msg : FileLocally(m) /\ j = InboxKey(m)
<1>0. RowsTyped
  BY RowsAreTyped
<1>1. ASSUME NEW m \in Msg, Step(m), ~SaveSent(m), ~FileLocally(m)
      PROVE  row'[j].folder = row[j].folder
  <2>1. CASE CreditLocal(m)
    BY <2>1, CreditEffect DEF CreditLocal, Statuses, Credits
  <2>2. CASE CreditSent(m)
    BY <2>2, CreditEffect DEF CreditSent, Statuses, Credits
  <2>3. CASE CreditDelivered(m)
    BY <2>3, CreditEffect DEF CreditDelivered, Statuses, Credits
  <2>4. CASE UNCHANGED row
    BY <2>4
  <2>5. QED
    BY <1>1, <2>1, <2>2, <2>3, <2>4
       DEF Step, FileForNobody, SpawnPush, Answer, Build, Push, PutDone, DeliverFederated,
           FallBack
<1>2. ASSUME NEW m \in Msg, SaveSent(m), j # SentKey(m) PROVE row'[j].folder = row[j].folder
  BY <1>2, SaveSentEffect DEF Writes
<1>3. ASSUME NEW m \in Msg, FileLocally(m), j # InboxKey(m)
      PROVE  row'[j].folder = row[j].folder
  BY <1>3, FileLocallyEffect DEF Writes
<1>4. ASSUME NEW k \in User \X Msg, MarkRead(k) \/ DeleteMessage(k)
      PROVE  \/ row'[j].folder = row[j].folder
             \/ Exists(j) /\ row'[j].folder = "trash"
  BY <1>0, <1>4, ReaderKeepsStatus DEF Keys
<1>5. ASSUME NEW k \in User \X Msg, Receipt(k) PROVE row'[j].folder = row[j].folder
  BY <1>5, ReceiptEffect DEF Credits
<1>6. CASE Crash \/ UNCHANGED vars
  BY <1>6 DEF Crash, vars
<1>7. QED
  BY <1>1, <1>2, <1>3, <1>4, <1>5, <1>6 DEF Next

\* Every row is the sent copy or the inbox row of its message, and so is every row that
\* was ever opened; only mail SendMessageForUser delivers has an inbox row.
Place(k) == k = SentKey(k[2]) \/ (Direct(k[2]) /\ k = InboxKey(k[2]))
RowsPlaced == \A k \in Keys : Exists(k) \/ k \in opened => Place(k)

\* Rows are only written by SaveSent and FileLocally, and only rows are opened.
LEMMA RowsArePlaced == Spec => []RowsPlaced
<1>1. Init => RowsPlaced
  <2> SUFFICES ASSUME Init, NEW k \in Keys PROVE ~Exists(k) /\ k \notin opened
    BY DEF RowsPlaced
  <2>1. row[k] = NoRow /\ NoRow.folder = "none"
    BY DEF Init, Keys, NoRow
  <2>2. QED
    BY <2>1 DEF Init, Exists
<1>2. TypeOK /\ Routes /\ RowsPlaced /\ [Next]_vars => RowsPlaced'
  <2> SUFFICES ASSUME TypeOK, Routes, RowsPlaced, [Next]_vars,
                      NEW k \in Keys, Exists(k)' \/ k \in opened'
               PROVE  Place(k)
    BY DEF RowsPlaced, Place, SentKey, InboxKey, Key, Direct
  <2>1. Exists(k) \/ k \in opened => Place(k)
    BY DEF RowsPlaced
  <2>2. ASSUME NEW m \in Msg, SaveSent(m) PROVE Place(k)
    <3>1. k \in opened' => k \in opened
      BY <2>2 DEF SaveSent, readers
    <3>2. row'[k] = row[k] \/ k = SentKey(m)
      BY <2>2, SaveSentEffect DEF Writes
    <3>3. k = SentKey(m) => k[2] = m
      BY DEF SentKey, Key
    <3>4. QED
      BY <2>1, <3>1, <3>2, <3>3 DEF Place, Exists
  <2>3. ASSUME NEW m \in Msg, FileLocally(m) PROVE Place(k)
    <3>1. k \in opened' => k \in opened
      BY <2>3 DEF FileLocally, readers
    <3>2. row'[k] = row[k] \/ k = InboxKey(m)
      BY <2>3, FileLocallyEffect DEF Writes
    <3>3. k = InboxKey(m) => k[2] = m
      BY DEF InboxKey, Key
    <3>4. Direct(m)
      BY <2>3 DEF FileLocally, Routes, Direct
    <3>5. QED
      BY <2>1, <3>1, <3>2, <3>3, <3>4 DEF Place, Exists
  <2>4. CASE \A m \in Msg : ~SaveSent(m) /\ ~FileLocally(m)
    <3>1. Exists(k)' => Exists(k)
      <4>1. \/ row'[k].folder = row[k].folder
            \/ Exists(k) /\ row'[k].folder = "trash"
        BY <2>4, FoldersOnlyMoveToTrash
      <4>2. QED
        BY <4>1 DEF Exists
    <3>2. k \in opened' => k \in opened \/ Exists(k)
      BY <2>4 DEF Next, Step, FileForNobody, CreditLocal, SpawnPush, Answer, Build, Push,
           PutDone, DeliverFederated, FallBack, CreditSent, CreditDelivered, MarkRead,
           Receipt, DeleteMessage, Crash, vars, readers
    <3>3. QED
      BY <2>1, <3>1, <3>2
  <2>5. QED
    BY <2>2, <2>3, <2>4
<1>3. QED
  BY <1>1, <1>2, Typing, RoutesInvariant, PTL DEF Spec

\* Nothing is ever unpublished, unrecorded or unread, and rows never vanish.
Monotone ==
  /\ published \subseteq published' /\ recorded \subseteq recorded' /\ opened \subseteq opened'
  /\ \A j \in Keys : Exists(j) => Exists(j)'

\* Whatever a step does, the histories grow and existing rows stay.
LEMMA StepsAreMonotone == TypeOK /\ [Next]_vars => Monotone
<1> SUFFICES ASSUME TypeOK, [Next]_vars PROVE Monotone
  OBVIOUS
<1>0. RowsTyped
  BY RowsAreTyped
<1>1. ASSUME UNCHANGED row PROVE \A j \in Keys : Exists(j) => Exists(j)'
  BY <1>1 DEF Exists
<1>2. ASSUME NEW k, NEW status, Credits(k, status)
      PROVE  \A j \in Keys : Exists(j) => Exists(j)'
  BY <1>2 DEF Exists, Credits
<1>3. ASSUME NEW k, NEW r, r.folder # "none", Writes(k, r)
      PROVE  \A j \in Keys : Exists(j) => Exists(j)'
  BY <1>3 DEF Exists, Writes
<1>4. ASSUME NEW m \in Msg, Step(m) PROVE Monotone
  <2>1. CASE SaveSent(m)
    BY <1>3, <2>1, SaveSentEffect, RowConstants DEF SaveSent, Monotone, outside, readers
  <2>2. CASE FileLocally(m)
    BY <1>3, <2>2, FileLocallyEffect, RowConstants DEF FileLocally, Monotone, outside, readers
  <2>3. CASE CreditLocal(m)
    BY <1>2, <2>3, CreditEffect DEF CreditLocal, Monotone, outside, readers, Statuses
  <2>4. CASE CreditSent(m)
    BY <1>2, <2>4, CreditEffect DEF CreditSent, Monotone, outside, readers, Statuses
  <2>5. CASE CreditDelivered(m)
    BY <1>2, <2>5, CreditEffect DEF CreditDelivered, Monotone, outside, readers, Statuses
  <2>6. CASE FileForNobody(m) \/ SpawnPush(m) \/ Answer(m) \/ Build(m) \/ Push(m)
    BY <1>1, <2>6 DEF FileForNobody, SpawnPush, Answer, Build, Push, Monotone,
                      outside, readers
  <2>7. CASE PutDone(m) \/ DeliverFederated(m) \/ FallBack(m)
    BY <1>1, <2>7 DEF PutDone, DeliverFederated, FallBack, Monotone, readers
  <2>8. QED
    BY <1>4, <2>1, <2>2, <2>3, <2>4, <2>5, <2>6, <2>7 DEF Step
<1>5. ASSUME NEW k \in User \X Msg, MarkRead(k) \/ DeleteMessage(k) PROVE Monotone
  <2>1. \A j \in Keys : Exists(j) => Exists(j)'
    BY <1>0, <1>5, ReaderKeepsStatus DEF Keys, Exists
  <2>2. QED
    BY <1>5, <2>1 DEF MarkRead, DeleteMessage, Monotone, outside, readers
<1>6. ASSUME NEW k \in User \X Msg, Receipt(k) PROVE Monotone
  BY <1>2, <1>6, ReceiptEffect DEF Receipt, Monotone, outside
<1>7. CASE Crash \/ UNCHANGED vars
  BY <1>1, <1>7 DEF Crash, vars, Monotone, outside
<1>8. QED
  BY <1>4, <1>5, <1>6, <1>7 DEF Next

\* What StatusIsEarned says of one status of one message.
Earned(m, status) ==
  /\ status = "sent" => m \in published
  /\ status = "delivered" => IF Direct(m) THEN Exists(InboxKey(m)) ELSE m \in recorded
  /\ status = "read" =>
       SentKey(m) \in opened \/ (Direct(m) /\ InboxKey(m) \in opened)

\* A status that was earned stays earned.
LEMMA EarnedIsKept ==
  ASSUME Monotone, NEW m \in Msg, NEW status, Earned(m, status)
  PROVE  Earned(m, status)'
BY DirectMail DEF Monotone, Earned, Direct, SentKey, InboxKey, Key

\* The strengthening: whatever a goroutine is about to claim has happened.
\* StatusIsEarned strengthened by what each program counter stands for.
EarnInv ==
  /\ \A m \in Msg :
       /\ pc[m] = "pushed" => m \in published
       /\ pc[m] = "delivered" => m \in recorded
       /\ pc[m] = "filed" => Direct(m) /\ Exists(InboxKey(m))
  /\ reading \subseteq opened
  /\ \A m \in Msg : Earned(m, row[SentKey(m)].status)

\* If neither the recipient lookup nor the write of the inbox row fails, no status
\* is claimed that was not earned, whatever else fails, in any interleaving.
THEOREM StatusesAreEarned ==
  ASSUME "lookup" \notin Faults, "saveInbox" \notin Faults
  PROVE  Spec => []StatusIsEarned
<1>1. Init => EarnInv
  <2> SUFFICES ASSUME Init PROVE EarnInv
    OBVIOUS
  <2>1. \A m \in Msg : row[SentKey(m)].status \notin Claims
    BY KeysAreKeys, RowConstants DEF Init, Keys
  <2>2. QED
    BY <2>1 DEF Init, EarnInv, Earned, Claims
<1>2. TypeOK /\ Routes /\ RowsPlaced /\ EarnInv /\ [Next]_vars => EarnInv'
  <2> SUFFICES ASSUME TypeOK, Routes, RowsPlaced, EarnInv, [Next]_vars PROVE EarnInv'
    OBVIOUS
  <2>0. RowsTyped /\ Monotone /\ pc \in [Msg -> PCs]
    BY RowsAreTyped, StepsAreMonotone DEF TypeOK
  <2> DEFINE Bound == \A m \in Msg : Earned(m, row[SentKey(m)].status)
             Ahead == \A m \in Msg :
                        /\ pc[m] = "pushed" => m \in published
                        /\ pc[m] = "delivered" => m \in recorded
                        /\ pc[m] = "filed" => Direct(m) /\ Exists(InboxKey(m))
  <2>1. ASSUME NEW n \in Msg, NEW status, Credits(SentKey(n), status), Earned(n, status)'
        PROVE  Bound'
    <3> SUFFICES ASSUME NEW m \in Msg PROVE Earned(m, row[SentKey(m)].status)'
      OBVIOUS
    <3>1. Earned(m, row[SentKey(m)].status)
      BY DEF EarnInv
    <3>2. SentKey(m) \in Keys /\ (SentKey(m) = SentKey(n) => m = n)
      BY KeysAreKeys DEF SentKey, Key
    <3>3. CASE row'[SentKey(m)].status = row[SentKey(m)].status
      BY <2>0, <3>1, <3>3, EarnedIsKept DEF Earned
    <3>4. CASE SentKey(m) = SentKey(n) /\ row'[SentKey(m)].status = status
      BY <2>1, <3>2, <3>4 DEF Earned, SentKey
    <3>5. QED
      BY <2>1, <3>2, <3>3, <3>4 DEF Credits
  <2>2. ASSUME NEW k \in Keys, NEW r, r.status \notin Claims, Writes(k, r) PROVE Bound'
    <3> SUFFICES ASSUME NEW m \in Msg PROVE Earned(m, row[SentKey(m)].status)'
      OBVIOUS
    <3>1. Earned(m, row[SentKey(m)].status)
      BY DEF EarnInv
    <3>2. CASE row'[SentKey(m)] = row[SentKey(m)]
      BY <2>0, <3>1, <3>2, EarnedIsKept DEF Earned
    <3>3. CASE row'[SentKey(m)] = r
      BY <2>2, <3>3 DEF Earned, Claims
    <3>4. QED
      BY <2>2, <3>2, <3>3, KeysAreKeys DEF Writes
  <2>3. ASSUME \A j \in Keys : row'[j].status = row[j].status PROVE Bound'
    <3> SUFFICES ASSUME NEW m \in Msg PROVE Earned(m, row[SentKey(m)].status)'
      OBVIOUS
    <3>1. Earned(m, row[SentKey(m)].status) /\ SentKey(m) \in Keys
      BY KeysAreKeys DEF EarnInv
    <3>2. QED
      BY <2>0, <2>3, <3>1, EarnedIsKept DEF Earned
  <2>4. ASSUME NEW m \in Msg, Step(m) PROVE Bound' /\ Ahead' /\ reading' \subseteq opened'
    <3>1. CASE SaveSent(m)
      <4>1. Bound'
        <5>1. Writes(SentKey(m), SentRow)
          BY <3>1, SaveSentEffect
        <5>2. SentKey(m) \in Keys /\ SentRow.status \notin Claims
          BY KeysAreKeys, RowConstants
        <5>3. QED
          BY <2>2, <5>1, <5>2
      <4>2. Ahead'
        BY <2>0, <3>1, DirectMail DEF EarnInv, Monotone, SaveSent, Goto
      <4>3. QED
        BY <3>1, <4>1, <4>2 DEF SaveSent, readers, EarnInv
    <3>2. CASE FileLocally(m)
      <4>1. Bound'
        <5>1. Writes(InboxKey(m), InboxRow)
          BY <3>2, FileLocallyEffect
        <5>2. InboxKey(m) \in Keys /\ InboxRow.status \notin Claims
          BY <3>2, KeysAreKeys, RowConstants DEF FileLocally
        <5>3. QED
          BY <2>2, <5>1, <5>2
      <4>2. Direct(m) /\ Exists(InboxKey(m))'
        <5>1. Direct(m)
          BY <3>2 DEF FileLocally, Routes, Direct
        <5>2. row'[InboxKey(m)] = InboxRow
          BY <3>2, FileLocallyEffect
        <5>3. QED
          BY <5>1, <5>2, RowConstants DEF Exists, InboxKey, Key
      <4>3. Ahead'
        BY <2>0, <3>2, <4>2, DirectMail DEF EarnInv, Monotone, FileLocally, Goto
      <4>4. QED
        BY <3>2, <4>1, <4>3 DEF FileLocally, readers, EarnInv
    <3>3. CASE CreditLocal(m)
      <4>1. Earned(m, "delivered")'
        BY <2>0, <3>3, EarnedIsKept DEF EarnInv, Earned, CreditLocal
      <4>2. Bound'
        BY <2>1, <3>3, <4>1, CreditEffect DEF CreditLocal, Statuses
      <4>3. Ahead'
        BY <2>0, <3>3, DirectMail DEF EarnInv, Monotone, CreditLocal, Goto
      <4>4. QED
        BY <3>3, <4>2, <4>3 DEF CreditLocal, readers, EarnInv
    <3>4. CASE CreditSent(m)
      <4>1. Earned(m, "sent")'
        BY <2>0, <3>4, EarnedIsKept DEF EarnInv, Earned, CreditSent
      <4>2. Bound'
        BY <2>1, <3>4, <4>1, CreditEffect DEF CreditSent, Statuses
      <4>3. Ahead'
        BY <2>0, <3>4, DirectMail DEF EarnInv, Monotone, CreditSent, Goto
      <4>4. QED
        BY <3>4, <4>2, <4>3 DEF CreditSent, readers, EarnInv
    <3>5. CASE CreditDelivered(m)
      <4>1. m \in recorded /\ ~Direct(m)
        BY <3>5, DirectMail DEF EarnInv, Routes, CreditDelivered
      <4>2. Earned(m, "delivered")'
        BY <2>0, <4>1, EarnedIsKept DEF Earned
      <4>3. Bound'
        BY <2>1, <3>5, <4>2, CreditEffect DEF CreditDelivered, Statuses
      <4>4. Ahead'
        BY <2>0, <3>5, DirectMail DEF EarnInv, Monotone, CreditDelivered, Goto
      <4>5. QED
        BY <3>5, <4>3, <4>4 DEF CreditDelivered, readers, EarnInv
    <3>6. CASE SpawnPush(m) \/ Answer(m) \/ Build(m) \/ Push(m)
      <4>1. UNCHANGED <<row, outside, readers>>
        BY <3>6 DEF SpawnPush, Answer, Build, Push
      <4>2. Ahead'
        BY <2>0, <3>6, DirectMail
           DEF EarnInv, Monotone, SpawnPush, Answer, Build, Push, Goto
      <4>3. QED
        BY <2>3, <4>1, <4>2 DEF readers, EarnInv
    <3>7. CASE PutDone(m) \/ DeliverFederated(m) \/ FallBack(m)
      <4>1. UNCHANGED <<row, readers>>
        BY <3>7 DEF PutDone, DeliverFederated, FallBack
      <4>2. Ahead'
        BY <2>0, <3>7, DirectMail
           DEF EarnInv, Monotone, PutDone, DeliverFederated, FallBack, Goto
      <4>3. QED
        BY <2>3, <4>1, <4>2 DEF readers, EarnInv
    <3>8. ~FileForNobody(m)
      BY DEF FileForNobody
    <3>9. QED
      BY <2>4, <3>1, <3>2, <3>3, <3>4, <3>5, <3>6, <3>7, <3>8 DEF Step
  <2>5. ASSUME UNCHANGED pc PROVE Ahead'
    BY <2>0, <2>5, DirectMail DEF EarnInv, Monotone
  <2>6. ASSUME NEW k \in User \X Msg, MarkRead(k) \/ DeleteMessage(k)
        PROVE  Bound' /\ Ahead' /\ reading' \subseteq opened'
    <3>1. Bound'
      BY <2>0, <2>3, <2>6, ReaderKeepsStatus DEF Keys
    <3>2. QED
      BY <2>5, <2>6, <3>1 DEF MarkRead, DeleteMessage, readers, EarnInv
  <2>7. ASSUME NEW k \in User \X Msg, Receipt(k)
        PROVE  Bound' /\ Ahead' /\ reading' \subseteq opened'
    <3>1. k \in opened /\ k[1] \in User /\ k[2] \in Msg /\ k = Key(k[1], k[2])
      BY <2>7 DEF Receipt, EarnInv, Key
    <3>2. Earned(k[2], "read")'
      <4>1. k = SentKey(k[2]) \/ (Direct(k[2]) /\ k = InboxKey(k[2]))
        BY <3>1 DEF RowsPlaced, Place, Keys
      <4>2. QED
        BY <2>0, <3>1, <4>1, EarnedIsKept DEF Earned
    <3>3. Bound'
      BY <2>1, <2>7, <3>1, <3>2, ReceiptEffect
    <3>4. QED
      BY <2>5, <2>7, <3>3 DEF Receipt, EarnInv
  <2>8. CASE Crash
    <3>1. Ahead'
      BY <2>0, <2>8 DEF Crash
    <3>2. QED
      BY <2>3, <2>8, <3>1 DEF Crash, EarnInv
  <2>9. CASE UNCHANGED vars
    BY <2>3, <2>5, <2>9 DEF vars, EarnInv
  <2>10. QED
    BY <2>4, <2>6, <2>7, <2>8, <2>9 DEF Next, EarnInv
<1>3. EarnInv => StatusIsEarned
  BY DEF EarnInv, Earned, StatusIsEarned
<1>4. QED
  BY <1>1, <1>2, <1>3, Typing, RoutesInvariant, RowsArePlaced, PTL DEF Spec
-----------------------------------------------------------------------------
(* The rows of accepted mail *)

\* The strengthening: a handler past its save has the sender's row, one past the
\* inbox save, or answered, the recipient's.
SentKept(m) == pc[m] # "new" => row[SentKey(m)].folder \in {"sent", "trash"}
InboxKept(m) ==
  (Direct(m) /\ (pc[m] \in {"filed", "done"} \/ m \in answered)) =>
    row[InboxKey(m)].folder \in {"inbox", "trash"}
Progress(m) ==
  /\ m \in answered => pc[m] # "new"
  /\ Direct(m) => pc[m] \in {"new", "saved", "filed", "done", "dead"}
\* AcceptedMailHasItsRows strengthened: it holds from the save on, before the 202.
KeptInv ==
  \A m \in Msg :
    /\ Progress(m)
    /\ m \in ViaHost \/ To[m] # From[m] => SentKept(m)
    /\ To[m] # From[m] => InboxKept(m)

\* Every step keeps the link between a program counter and its route.
LEMMA ProgressStep ==
  ASSUME TypeOK, [Next]_vars, "lookup" \notin Faults, \A m \in Msg : Progress(m)
  PROVE  \A m \in Msg : Progress(m)'
<1>0. pc \in [Msg -> PCs]
  BY DEF TypeOK
<1>1. ASSUME NEW m \in Msg, Step(m) PROVE \A n \in Msg : Progress(n)'
  <2>1. CASE SaveSent(m) \/ FileLocally(m) \/ CreditLocal(m) \/ SpawnPush(m)
    BY <1>0, <2>1, DirectMail, ConstantsAssumption
       DEF SaveSent, FileLocally, CreditLocal, SpawnPush, Goto, Progress
  <2>2. CASE Answer(m)
    BY <1>0, <2>2 DEF Answer, Progress
  <2>3. CASE Build(m) \/ Push(m) \/ PutDone(m)
    BY <1>0, <2>3 DEF Build, Push, PutDone, Goto, Progress
  <2>4. CASE DeliverFederated(m) \/ FallBack(m)
    BY <1>0, <2>4 DEF DeliverFederated, FallBack, Goto, Progress
  <2>5. CASE CreditSent(m) \/ CreditDelivered(m)
    BY <1>0, <2>5 DEF CreditSent, CreditDelivered, Goto, Progress
  <2>6. QED
    BY <1>1, <2>1, <2>2, <2>3, <2>4, <2>5 DEF Step, FileForNobody
<1>2. CASE Crash
  BY <1>0, <1>2 DEF Crash, Progress
<1>3. CASE UNCHANGED <<pc, answered>>
  BY <1>3 DEF Progress
<1>4. QED
  BY <1>1, <1>2, <1>3 DEF Next, MarkRead, Receipt, DeleteMessage, vars

\* If neither the message saves nor the recipient lookup fails, an accepted send
\* has its rows, in the right folders, whatever else fails and whatever crashes.
THEOREM AcceptedMailIsKept ==
  ASSUME "saveSent" \notin Faults, "saveInbox" \notin Faults, "lookup" \notin Faults
  PROVE  Spec => []AcceptedMailHasItsRows
<1>1. Init => KeptInv
  BY DEF Init, KeptInv, Progress, SentKept, InboxKept
<1>2. TypeOK /\ Routes /\ KeptInv /\ [Next]_vars => KeptInv'
  <2> SUFFICES ASSUME TypeOK, Routes, KeptInv, [Next]_vars PROVE KeptInv'
    OBVIOUS
  <2>0. pc \in [Msg -> PCs]
    BY DEF TypeOK
  <2>1. \A m \in Msg : Progress(m)'
    BY ProgressStep DEF KeptInv
  <2> SUFFICES ASSUME NEW n \in Msg, n \in ViaHost \/ To[n] # From[n]
               PROVE  SentKept(n)' /\ InboxKept(n)'
    BY <2>1 DEF KeptInv
  <2>2. SentKept(n) /\ InboxKept(n) /\ Progress(n)
    BY DirectMail DEF KeptInv, InboxKept
  <2>3. /\ SentKey(n) \in Keys
        /\ Direct(n) => InboxKey(n) \in Keys /\ InboxKey(n) # SentKey(n)
        /\ \A m \in Msg \ {n} : /\ SentKey(m) # SentKey(n) /\ SentKey(m) # InboxKey(n)
                                /\ InboxKey(m) # SentKey(n) /\ InboxKey(m) # InboxKey(n)
    BY KeysAreKeys, DirectMail DEF SentKey, InboxKey, Key
  <2>4. CASE SaveSent(n)
    <3>1. row'[SentKey(n)].folder = "sent"
      BY <2>4, SaveSentEffect DEF SentRow
    <3>2. Direct(n) => ~(pc'[n] \in {"filed", "done"} \/ n \in answered')
      BY <2>0, <2>2, <2>4, DirectMail DEF SaveSent, Goto, Progress
    <3>3. QED
      BY <3>1, <3>2 DEF SentKept, InboxKept, SentKey, InboxKey
  <2>5. CASE FileLocally(n)
    <3>0. Direct(n)
      BY <2>5 DEF FileLocally, Routes, Direct
    <3>1. row'[InboxKey(n)].folder = "inbox"
      <4>1. To[n] \in User /\ row'[InboxKey(n)] = InboxRow
        BY <2>5, FileLocallyEffect DEF FileLocally
      <4>2. QED
        BY <4>1, RowConstants
    <3>2. row'[SentKey(n)].folder = row[SentKey(n)].folder
      BY <2>3, <2>5, <3>0, FileLocallyEffect DEF Writes, FileLocally
    <3>3. pc[n] # "new"
      BY <2>5 DEF FileLocally
    <3>4. QED
      BY <2>2, <3>1, <3>2, <3>3 DEF SentKept, InboxKept, SentKey, InboxKey
  <2>6. CASE ~SaveSent(n) /\ ~FileLocally(n)
    <3>1. pc[n] = "new" => pc'[n] = "new"
      BY <2>0, <2>2, <2>6
         DEF Next, Step, SaveSent, FileLocally, FileForNobody, CreditLocal, SpawnPush, Answer,
             Build, Push, PutDone, DeliverFederated, FallBack, CreditSent, CreditDelivered,
             MarkRead, Receipt, DeleteMessage, Crash, vars, Goto
    <3>2. ASSUME Direct(n), pc'[n] \in {"filed", "done"} \/ n \in answered'
          PROVE  pc[n] \in {"filed", "done"} \/ n \in answered
      <4>1. pc[n] \in {"new", "saved", "filed", "done", "dead"}
        BY <2>2, <3>2 DEF Progress
      <4>2. n \notin ViaHost
        BY <3>2, DirectMail
      <4>3. ASSUME NEW m \in Msg, Step(m)
            PROVE  pc[n] \in {"filed", "done"} \/ n \in answered
        <5>1. CASE m # n
          BY <2>0, <3>2, <4>3, <5>1
             DEF Step, SaveSent, FileLocally, FileForNobody, CreditLocal, SpawnPush, Answer,
                 Build, Push, PutDone, DeliverFederated, FallBack, CreditSent,
                 CreditDelivered, Goto
        <5>2. CASE m = n
          BY <2>0, <2>6, <3>2, <4>1, <4>2, <4>3, <5>2, DirectMail
             DEF Step, FileForNobody, CreditLocal, SpawnPush, Answer,
                 Build, Push, PutDone, DeliverFederated, FallBack, CreditSent,
                 CreditDelivered, Goto
        <5>3. QED
          BY <5>1, <5>2
      <4>4. CASE Crash
        BY <2>0, <3>2, <4>4 DEF Crash
      <4>5. QED
        BY <3>2, <4>3, <4>4 DEF Next, MarkRead, Receipt, DeleteMessage, vars
    <3>3. \/ row'[SentKey(n)].folder = row[SentKey(n)].folder
          \/ row'[SentKey(n)].folder = "trash"
      BY <2>3, <2>6, FoldersOnlyMoveToTrash
    <3>4. Direct(n) => \/ row'[InboxKey(n)].folder = row[InboxKey(n)].folder
                       \/ row'[InboxKey(n)].folder = "trash"
      BY <2>3, <2>6, FoldersOnlyMoveToTrash
    <3>5. SentKept(n)'
      BY <2>2, <3>1, <3>3 DEF SentKept, SentKey
    <3>6. InboxKept(n)'
      BY <2>2, <3>2, <3>4 DEF InboxKept, InboxKey
    <3>7. QED
      BY <3>5, <3>6
  <2>7. QED
    BY <2>4, <2>5, <2>6
<1>3. TypeOK /\ KeptInv => AcceptedMailHasItsRows
  <2> SUFFICES ASSUME TypeOK, KeptInv, NEW m \in answered
               PROVE  /\ m \in ViaHost \/ To[m] # From[m] =>
                           row[SentKey(m)].folder \in {"sent", "trash"}
                      /\ Direct(m) /\ To[m] # From[m] =>
                           row[InboxKey(m)].folder \in {"inbox", "trash"}
    BY DEF AcceptedMailHasItsRows
  <2>1. m \in Msg
    BY DEF TypeOK
  <2>2. QED
    BY <2>1 DEF KeptInv, Progress, SentKept, InboxKept
<1>4. QED
  BY <1>1, <1>2, <1>3, Typing, RoutesInvariant, PTL DEF Spec
-----------------------------------------------------------------------------
(* Mail that is shown as being sent *)

\* A federated send is never on the route of SendMessageForUser, whose push may be cancelled.
FederatedRoute == \A m \in ViaHost : pc[m] \notin {"saved", "filed", "pushing", "putting"}

\* Only the save of the sender's copy makes it say "sending".
LEMMA SendingBegins ==
  ASSUME TypeOK, [Next]_vars, NEW n \in Msg, row'[SentKey(n)].status = "sending"
  PROVE  row[SentKey(n)].status = "sending" \/ SaveSent(n)
<1>0. RowsTyped /\ SentKey(n) \in Keys
  BY RowsAreTyped, KeysAreKeys
<1> DEFINE Same == row'[SentKey(n)].status = row[SentKey(n)].status
<1>1. ASSUME NEW m \in Msg, Step(m) PROVE Same \/ SaveSent(n)
  <2>1. ASSUME NEW status, Credits(SentKey(m), status), status # "sending" PROVE Same
    BY <1>0, <2>1 DEF Credits
  <2>2. CASE CreditLocal(m)
    BY <2>1, <2>2, CreditEffect DEF CreditLocal, Statuses
  <2>3. CASE CreditSent(m)
    BY <2>1, <2>3, CreditEffect DEF CreditSent, Statuses
  <2>4. CASE CreditDelivered(m)
    BY <2>1, <2>4, CreditEffect DEF CreditDelivered, Statuses
  <2>5. CASE SaveSent(m)
    <3>1. m # n => SentKey(n) # SentKey(m)
      BY DEF SentKey, Key
    <3>2. QED
      BY <1>0, <2>5, <3>1, SaveSentEffect DEF Writes
  <2>6. CASE FileLocally(m)
    <3>1. InboxRow.status # "sending"
      BY DEF InboxRow
    <3>2. QED
      BY <1>0, <2>6, <3>1, FileLocallyEffect DEF Writes
  <2>7. CASE \/ FileForNobody(m) \/ SpawnPush(m) \/ Answer(m) \/ Build(m) \/ Push(m)
             \/ PutDone(m) \/ DeliverFederated(m) \/ FallBack(m)
    BY <2>7 DEF FileForNobody, SpawnPush, Answer, Build, Push, PutDone, DeliverFederated,
                FallBack
  <2>8. QED
    BY <1>1, <2>2, <2>3, <2>4, <2>5, <2>6, <2>7 DEF Step
<1>2. ASSUME NEW k \in User \X Msg, MarkRead(k) \/ DeleteMessage(k) PROVE Same
  BY <1>0, <1>2, ReaderKeepsStatus DEF Keys
<1>3. ASSUME NEW k \in User \X Msg, Receipt(k) PROVE Same
  BY <1>0, <1>3, ReceiptEffect DEF Credits
<1>4. CASE Crash \/ UNCHANGED vars
  BY <1>4 DEF Crash, vars
<1>5. QED
  BY <1>1, <1>2, <1>3, <1>4 DEF Next

\* A status update that does not fail leaves no copy at "sending": there is none, or it
\* says what the update says.
LEMMA CreditEnds ==
  ASSUME TypeOK, "status" \notin Faults, NEW k \in Keys, NEW status \in Claims,
         SetStatus(k, status)
  PROVE  row'[k].status # "sending"
<1>1. row \in [Keys -> Row] /\ (Exists(k) \/ row[k] = NoRow)
  BY RowsAreTyped DEF RowsTyped
<1>2. row' = [row EXCEPT ![k].status = IF Exists(k) THEN status ELSE @]
  BY DEF SetStatus
<1>3. row'[k].status = IF Exists(k) THEN status ELSE row[k].status
  BY <1>1, <1>2 DEF Row
<1>4. NoRow.status # "sending" /\ status # "sending"
  BY DEF NoRow, Claims
<1>5. QED
  BY <1>1, <1>3, <1>4

\* A federated send keeps to its route.
LEMMA FederatedRouteInvariant == Spec => []FederatedRoute
<1>1. Init => FederatedRoute
  BY DirectMail DEF Init, FederatedRoute
<1>2. TypeOK /\ FederatedRoute /\ [Next]_vars => FederatedRoute'
  <2> SUFFICES ASSUME TypeOK, FederatedRoute, [Next]_vars, NEW n \in ViaHost
               PROVE  pc'[n] \notin {"saved", "filed", "pushing", "putting"}
    BY DEF FederatedRoute
  <2>1. /\ n \in Msg /\ pc \in [Msg -> PCs]
        /\ pc[n] \notin {"saved", "filed", "pushing", "putting"}
    BY DirectMail DEF TypeOK, FederatedRoute
  <2>2. ASSUME NEW m \in Msg, Step(m)
        PROVE  pc'[n] \notin {"saved", "filed", "pushing", "putting"}
    BY <2>1, <2>2 DEF Step, SaveSent, FileLocally, FileForNobody, CreditLocal, SpawnPush,
         Answer, Build, Push, PutDone, DeliverFederated, FallBack, CreditSent,
         CreditDelivered, Goto
  <2>3. QED
    BY <2>1, <2>2 DEF Next, MarkRead, Receipt, DeleteMessage, Crash, vars
<1>3. QED
  BY <1>1, <1>2, Typing, PTL DEF Spec

\* If status updates, building and pushing do not fail, a copy that says "sending" is
\* right: its send goes on or died with the process, whatever else fails; only a push
\* that was cancelled with its request ends a send, and never a federated one.
THEOREM SendingIsUnderWay ==
  ASSUME "status" \notin Faults, "build" \notin Faults, "push" \notin Faults
  PROVE  Spec => []SendingMailIsUnderWay
<1>1. Init => SendingMailIsUnderWay
  <2>1. NoRow.status # "sending"
    BY DEF NoRow
  <2>2. QED
    BY <2>1, KeysAreKeys DEF Init, Keys, SendingMailIsUnderWay
<1>2. TypeOK /\ FederatedRoute /\ SendingMailIsUnderWay /\ [Next]_vars
      => SendingMailIsUnderWay'
  <2> SUFFICES ASSUME TypeOK, FederatedRoute, SendingMailIsUnderWay, [Next]_vars,
                      NEW n \in Msg, row'[SentKey(n)].status = "sending"
               PROVE  pc'[n] \notin {"new", "done"} /\ (n \in ViaHost => pc'[n] # "failed")
    BY KeysAreKeys DEF SendingMailIsUnderWay, SentKey, Key
  <2>1. pc \in [Msg -> PCs]
    BY DEF TypeOK
  <2>2. CASE SaveSent(n)
    BY <2>1, <2>2 DEF SaveSent, Goto
  <2>3. CASE row[SentKey(n)].status = "sending"
    <3>1. /\ pc[n] \notin {"new", "done"}
          /\ n \in ViaHost => pc[n] \notin {"failed", "pushing", "putting"}
      BY <2>3 DEF SendingMailIsUnderWay, FederatedRoute
    <3>2. ~CreditLocal(n) /\ ~CreditSent(n) /\ ~CreditDelivered(n)
      BY KeysAreKeys, CreditEnds DEF CreditLocal, CreditSent, CreditDelivered, Claims
    <3>3. ASSUME Step(n)
          PROVE  pc'[n] \notin {"new", "done"} /\ (n \in ViaHost => pc'[n] # "failed")
      BY <2>1, <3>1, <3>2, <3>3
         DEF Step, SaveSent, FileLocally, FileForNobody, SpawnPush, Answer, Build, Push,
             PutDone, DeliverFederated, FallBack, Goto
    <3>4. ASSUME NEW m \in Msg \ {n}, Step(m) PROVE pc'[n] = pc[n]
      BY <2>1, <3>4
         DEF Step, SaveSent, FileLocally, FileForNobody, CreditLocal, SpawnPush, Answer,
             Build, Push, PutDone, DeliverFederated, FallBack, CreditSent,
             CreditDelivered, Goto
    <3>5. CASE Crash
      BY <3>1, <3>5 DEF Crash
    <3>6. QED
      BY <3>1, <3>3, <3>4, <3>5 DEF Next, MarkRead, Receipt, DeleteMessage, vars
  <2>4. QED
    BY <2>2, <2>3, SendingBegins
<1>3. QED
  BY <1>1, <1>2, FederatedRouteInvariant, Typing, PTL DEF Spec
=============================================================================
