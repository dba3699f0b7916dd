--------------------------- MODULE FederationProofs ---------------------------
(***************************************************************************)
(* Proofs about two servers that exchange mail, for any number of sends,   *)
(* accounts, goroutines and rows.  Each server behaves as its own module   *)
(* says, so what is proved of OutboundMail and of InboundMail holds here;  *)
(* what is left is how far the requests between them have come.            *)
(***************************************************************************)
EXTENDS Federation, FiniteSetTheorems, SequenceTheorems, TLAPS

\* The theorems about the two halves.
Sending == INSTANCE OutboundMailProofs WITH
  User <- Sender, To <- [m \in Msg |-> Elsewhere], ViaHost <- Msg,
  Faults <- FaultsHere, reading <- {}, opened <- {}

Receiving == INSTANCE InboundMailProofs WITH
  User <- Account, Packet <- Msg, To <- Addressee, StoreFaults <- FaultsThere,
  NoPacket <- NoMsg

\* They speak of the halves of Federation.
LEMMA SameSender ==
  /\ Sending!ConstantsAssumption
  /\ Here!TypeOK <=> Sending!TypeOK
  /\ Here!Spec <=> Sending!Spec
<1>1. Sending!ConstantsAssumption
  BY ConstantsAssumption DEF Here!ConstantsAssumption, Sending!ConstantsAssumption
<1>2. Here!TypeOK <=> Sending!TypeOK
  BY DEF Here!TypeOK, Here!Row, Here!Statuses, Here!PCs, Here!Exists, Here!NoRow,
         Sending!TypeOK, Sending!Row, Sending!Statuses, Sending!PCs, Sending!Exists,
         Sending!NoRow
<1>3. Here!Spec <=> Sending!Spec
  BY DEF Here!outside, Here!readers, Here!NoRow, Here!SentRow, Here!InboxRow, Here!Key,
         Here!SentKey, Here!InboxKey, Here!Exists, Here!Save, Here!SetStatus,
         Here!Goto, Here!Init, Here!SaveSent, Here!FileLocally, Here!FileForNobody,
         Here!CreditLocal, Here!SpawnPush, Here!Answer, Here!Build, Here!Push,
         Here!PutDone, Here!DeliverFederated, Here!FallBack, Here!CreditSent,
         Here!CreditDelivered, Here!MarkRead, Here!Receipt, Here!DeleteMessage,
         Here!Crash, Here!Step, Here!Next, Here!Spec, Here!vars, Sending!outside,
         Sending!readers, Sending!NoRow, Sending!SentRow, Sending!InboxRow,
         Sending!Key, Sending!SentKey, Sending!InboxKey, Sending!Exists, Sending!Save,
         Sending!SetStatus, Sending!Goto, Sending!Init, Sending!SaveSent,
         Sending!FileLocally, Sending!FileForNobody, Sending!CreditLocal,
         Sending!SpawnPush, Sending!Answer, Sending!Build, Sending!Push,
         Sending!PutDone, Sending!DeliverFederated, Sending!FallBack,
         Sending!CreditSent, Sending!CreditDelivered, Sending!MarkRead,
         Sending!Receipt, Sending!DeleteMessage, Sending!Crash, Sending!Step,
         Sending!Next, Sending!Spec, Sending!vars
<1>4. QED
  BY <1>1, <1>2, <1>3

\* And so do those of InboundMailProofs.
LEMMA SameReceiver ==
  /\ Receiving!ConstantsAssumption
  /\ There!TypeOK <=> Receiving!TypeOK
  /\ There!PromiseKept <=> Receiving!PromiseKept
  /\ There!LoggedInUserIsAttended <=> Receiving!LoggedInUserIsAttended
  /\ There!Spec <=> Receiving!Spec
  /\ There!ContractSpec <=> Receiving!ContractSpec
<1>1. Receiving!ConstantsAssumption
  BY ConstantsAssumption DEF There!ConstantsAssumption, Receiving!ConstantsAssumption
<1>2. There!TypeOK <=> Receiving!TypeOK
  BY DEF There!TypeOK, There!PendingRow, There!MessageRow, There!TaskState,
         There!Sources, There!Vias, There!PCs, There!Rows, There!Owner,
         Receiving!TypeOK, Receiving!PendingRow, Receiving!MessageRow,
         Receiving!TaskState, Receiving!Sources, Receiving!Vias, Receiving!PCs,
         Receiving!Rows, Receiving!Owner
<1>3. There!PromiseKept <=> Receiving!PromiseKept
  BY DEF There!PromiseKept, Receiving!PromiseKept, There!Filed, Receiving!Filed,
         There!Rows, Receiving!Rows, There!Unprocessed, Receiving!Unprocessed
<1>4. There!LoggedInUserIsAttended <=> Receiving!LoggedInUserIsAttended
  BY DEF There!LoggedInUserIsAttended, There!Attends, There!Rows, There!Unprocessed,
         There!Owner, Receiving!LoggedInUserIsAttended, Receiving!Attends,
         Receiving!Rows, Receiving!Unprocessed, Receiving!Owner
<1>5. There!Spec <=> Receiving!Spec
  BY DEF There!NoRow, There!FreshRow, There!Filed, There!At, There!Idle, There!Become,
         There!QuietPoller, There!Rows, There!Unprocessed, There!Owner,
         There!PendingOf, There!Oldest, There!Room, There!Record, There!Save,
         There!Mark, There!Init, There!Signup, There!SignupPut, There!Login,
         There!SessionExpire, There!Deliver, There!DeliverCheck, There!GetSession,
         There!Fetch, There!SaveMessage, There!MarkSaved, There!MarkUnreadable,
         There!Finish, There!PollStart, There!PollGet, There!PollRecord,
         There!MarkRead, There!DeleteMessage, There!RemotePush, There!DhtExpire,
         There!Crash, There!Run, There!Next, There!Spec, There!vars, There!tables,
         Receiving!NoRow, Receiving!FreshRow, Receiving!Filed, Receiving!At,
         Receiving!Idle, Receiving!Become, Receiving!QuietPoller, Receiving!Rows,
         Receiving!Unprocessed, Receiving!Owner, Receiving!PendingOf, Receiving!Oldest,
         Receiving!Room, Receiving!Record, Receiving!Save, Receiving!Mark,
         Receiving!Init, Receiving!Signup, Receiving!SignupPut, Receiving!Login,
         Receiving!SessionExpire, Receiving!Deliver, Receiving!DeliverCheck,
         Receiving!GetSession, Receiving!Fetch, Receiving!SaveMessage,
         Receiving!MarkSaved, Receiving!MarkUnreadable, Receiving!Finish,
         Receiving!PollStart, Receiving!PollGet, Receiving!PollRecord,
         Receiving!MarkRead, Receiving!DeleteMessage, Receiving!RemotePush,
         Receiving!DhtExpire, Receiving!Crash, Receiving!Run, Receiving!Next,
         Receiving!Spec, Receiving!vars, Receiving!tables
<1>6. There!ContractSpec <=> Receiving!ContractSpec
  BY DEF There!ContractSpec, There!Contract!Spec, There!Contract!Init,
         There!Contract!Next, There!Contract!vars, There!Contract!NoRow,
         There!Contract!FreshRow, There!Contract!Filed, There!Contract!Record,
         There!Contract!Promise, There!Contract!File, There!Contract!Settle,
         There!Contract!Touch, There!Known, There!Owed, There!Rows, There!Unprocessed,
         Receiving!ContractSpec, Receiving!Contract!Spec, Receiving!Contract!Init,
         Receiving!Contract!Next, Receiving!Contract!vars, Receiving!Contract!NoRow,
         Receiving!Contract!FreshRow, Receiving!Contract!Filed,
         Receiving!Contract!Record, Receiving!Contract!Promise,
         Receiving!Contract!File, Receiving!Contract!Settle,
         Receiving!Contract!Touch, Receiving!Known, Receiving!Owed, Receiving!Rows,
         Receiving!Unprocessed
<1>7. QED
  BY <1>1, <1>2, <1>3, <1>4, <1>5, <1>6
-----------------------------------------------------------------------------
(* Each server on its own *)

\* What happens to this server is a step of OutboundMail.
LEMMA StepsHere == [Next]_vars => [Here!Next]_(Here!vars)
<1> SUFFICES ASSUME [Next]_vars PROVE [Here!Next]_(Here!vars)
  OBVIOUS
<1>1. UNCHANGED here => UNCHANGED Here!vars
  BY DEF here, Here!vars
<1>2. ASSUME NEW m \in Msg, Send(m) \/ Heard(m) \/ GiveUp(m) \/ WorkHere(m)
      PROVE  Here!Next
  BY <1>2 DEF Send, Heard, GiveUp, WorkHere, Here!Next, Here!Step
<1>3. CrashHere => Here!Next
  BY DEF CrashHere, Here!Next
<1>4. ASSUME NEW m \in Msg, Resolve(m) \/ Post(m) \/ Refuse(m) \/ Spread(m)
      PROVE  UNCHANGED here
  BY <1>4 DEF Resolve, Post, Refuse, Spread
<1>5. ASSUME NEW t \in Task, \/ Reply(t) \/ WorkThere(t)
                             \/ \E m \in Msg : Receive(t, m)
                             \/ \E u \in Account : Visit(t, u)
      PROVE  UNCHANGED here
  BY <1>5 DEF Reply, WorkThere, Receive, Visit
<1>6. Poll \/ CrashThere \/ (\E u \in Account : Lapse(u)) => UNCHANGED here
  BY DEF Poll, CrashThere, Lapse
<1>7. UNCHANGED vars => UNCHANGED here
  BY DEF vars
<1>8. QED
  BY <1>1, <1>2, <1>3, <1>4, <1>5, <1>6, <1>7 DEF Next

\* What happens to the other server is a step of InboundMail.
LEMMA StepsThere == [Next]_vars => [There!Next]_(There!vars)
<1> SUFFICES ASSUME [Next]_vars PROVE [There!Next]_(There!vars)
  OBVIOUS
<1>1. UNCHANGED there => UNCHANGED There!vars
  BY DEF there, There!vars
<1>2. ASSUME NEW t \in Task, \/ Reply(t) \/ WorkThere(t)
                             \/ \E m \in Msg : Receive(t, m)
                             \/ \E u \in Account : Visit(t, u)
      PROVE  There!Next
  BY <1>2 DEF Reply, WorkThere, Receive, Visit, There!Next, There!Run
<1>3. ASSUME NEW m \in Msg, Spread(m) PROVE There!Next
  BY <1>3 DEF Spread, There!Next
<1>4. Poll \/ CrashThere \/ (\E u \in Account : Lapse(u)) => There!Next
  BY DEF Poll, CrashThere, Lapse, There!Next
<1>5. ASSUME NEW m \in Msg, \/ Resolve(m) \/ Post(m) \/ Refuse(m) \/ Send(m)
                            \/ Heard(m) \/ GiveUp(m) \/ WorkHere(m)
      PROVE  UNCHANGED there
  BY <1>5 DEF Resolve, Post, Refuse, Send, Heard, GiveUp, WorkHere
<1>6. CrashHere => UNCHANGED there
  BY DEF CrashHere
<1>7. UNCHANGED vars => UNCHANGED there
  BY DEF vars
<1>8. QED
  BY <1>1, <1>2, <1>3, <1>4, <1>5, <1>6, <1>7 DEF Next

\* The composition adds no behaviour to either server: the outcomes OutboundMail chooses
\* for the other server include what InboundMail does, and the packets InboundMail takes
\* from anybody include those OutboundMail sends.
THEOREM ServersBehave == Spec => Here!Spec /\ There!Spec
<1>1. Init => Here!Init /\ There!Init
  BY DEF Init
<1>2. QED
  BY <1>1, StepsHere, StepsThere, PTL DEF Spec, Here!Spec, There!Spec

\* What the two modules' typing theorems say therefore holds here.
LEMMA ServersTyped == Spec => [](Here!TypeOK /\ There!TypeOK)
<1>1. Here!Spec => []Here!TypeOK
  BY SameSender, Sending!Typing, PTL
<1>2. There!Spec => []There!TypeOK
  BY SameReceiver, Receiving!Typing, PTL
<1>3. QED
  BY <1>1, <1>2, ServersBehave, PTL
-----------------------------------------------------------------------------
(* Requests and the goroutines that answer them *)

\* A goroutine that has recorded a packet answers the exchange of that packet, which
\* waits for it; no two goroutines have recorded the same one, as it is posted once.
AnswerInv ==
  /\ exchange \in [Msg -> Stages]
  /\ \A t \in Task : task[t].pc = "recorded" => exchange[task[t].pkt] = "handling"
  /\ \A s, t \in Task : /\ task[s].pc = "recorded" /\ task[t].pc = "recorded"
                        /\ task[s].pkt = task[t].pkt
                        => s = t

\* A goroutine that gets on with anything else than the answer has not just recorded
\* a packet.
LEMMA OtherWork ==
  ASSUME NEW t \in Task, WorkThere(t) \/ (\E u \in Account : Visit(t, u))
  PROVE  /\ \E state : state.pc # "recorded" /\ task' = [task EXCEPT ![t] = state]
         /\ UNCHANGED <<exchange, acked>>
<1> USE DEF There!Become, There!At, There!Idle
<1>1. ASSUME NEW pc_, NEW u, NEW batch, There!Become(t, There!At(pc_, u, batch)),
             pc_ # "recorded"
      PROVE  \E state : state.pc # "recorded" /\ task' = [task EXCEPT ![t] = state]
  <2>1. There!At(pc_, u, batch).pc = pc_
    OBVIOUS
  <2>2. QED
    BY <1>1, <2>1
<1>2. ASSUME NEW u \in Account, Visit(t, u)
      PROVE  /\ \E state : state.pc # "recorded" /\ task' = [task EXCEPT ![t] = state]
             /\ UNCHANGED <<exchange, acked>>
  BY <1>1, <1>2 DEF Visit, There!Signup, There!Login
<1>3. ASSUME WorkThere(t)
      PROVE  \E state : state.pc # "recorded" /\ task' = [task EXCEPT ![t] = state]
  <2>1. CASE There!SignupPut(t) \/ There!GetSession(t) \/ There!Fetch(t)
    BY <1>1, <2>1 DEF There!SignupPut, There!GetSession, There!Fetch
  <2>2. CASE There!SaveMessage(t) \/ There!Finish(t)
    BY <1>1, <2>2 DEF There!SaveMessage, There!Finish
  <2>3. CASE There!MarkSaved(t) \/ There!MarkUnreadable(t)
    BY <1>1, <2>3 DEF There!MarkSaved, There!MarkUnreadable
  <2>4. QED
    BY <1>3, <2>1, <2>2, <2>3 DEF WorkThere
<1>4. ASSUME WorkThere(t) PROVE UNCHANGED <<exchange, acked>>
  BY <1>4 DEF WorkThere, There!SignupPut, There!GetSession, There!Fetch,
              There!SaveMessage, There!MarkSaved, There!MarkUnreadable, There!Finish
<1>5. QED
  BY <1>2, <1>3, <1>4

\* AnswerInv is inductive.
LEMMA AnswerStep ==
  ASSUME There!TypeOK, AnswerInv, [Next]_vars
  PROVE  AnswerInv'
<1>1. /\ exchange \in [Msg -> Stages]
      /\ DOMAIN task = Task
      /\ \A t \in Task : task[t].pc = "recorded" => task[t].pkt \in Msg
  BY DEF AnswerInv, There!TypeOK
<1>2. ASSUME UNCHANGED task,
             \/ UNCHANGED exchange
             \/ \E m \in Msg, stage \in Stages :
                  exchange[m] # "handling" /\ Advance(m, stage)
      PROVE  AnswerInv'
  BY <1>1, <1>2 DEF AnswerInv, Advance
<1>3. ASSUME NEW t \in Task, NEW state, state.pc # "recorded",
             task' = [task EXCEPT ![t] = state],
             \/ UNCHANGED exchange
             \/ task[t].pc = "recorded" /\ Advance(task[t].pkt, "replied")
      PROVE  AnswerInv'
  <2>1. /\ task'[t].pc # "recorded"
        /\ \A s \in Task \ {t} : task'[s] = task[s]
    BY <1>1, <1>3
  <2>2. exchange' \in [Msg -> Stages]
    BY <1>1, <1>3 DEF Advance, Stages
  <2>3. ASSUME NEW s \in Task, task'[s].pc = "recorded"
        PROVE  exchange'[task'[s].pkt] = "handling"
    <3>1. s # t /\ task'[s] = task[s]
      BY <2>1, <2>3
    <3>2. task[s].pkt \in Msg /\ exchange[task[s].pkt] = "handling"
      BY <1>1, <2>3, <3>1 DEF AnswerInv
    <3>3. task[t].pc = "recorded" => task[s].pkt # task[t].pkt
      BY <2>3, <3>1 DEF AnswerInv
    <3>4. QED
      BY <1>1, <1>3, <3>1, <3>2, <3>3 DEF Advance
  <2>4. QED
    BY <2>1, <2>2, <2>3 DEF AnswerInv
<1>4. ASSUME NEW m \in Msg, Resolve(m) \/ Post(m) \/ Refuse(m) \/ Heard(m) PROVE AnswerInv'
  <2>1. UNCHANGED task
    BY <1>4 DEF Resolve, Post, Refuse, Heard, there
  <2>2. exchange[m] # "handling" /\ \E stage \in Stages : Advance(m, stage)
    BY <1>4 DEF Resolve, Post, Refuse, Heard, Stages
  <2>3. QED
    BY <1>2, <2>1, <2>2
<1>5. ASSUME NEW m \in Msg, Send(m) \/ GiveUp(m) \/ WorkHere(m) \/ Spread(m)
      PROVE  AnswerInv'
  BY <1>2, <1>5 DEF Send, GiveUp, WorkHere, Spread, There!RemotePush, there
<1>6. ASSUME NEW t \in Task, NEW m \in Msg, Receive(t, m) PROVE AnswerInv'
  <2>1. /\ task' = [task EXCEPT ![t] = [pc |-> "recorded", user |-> Addressee[m],
                                        pkt |-> m, batch |-> {}]]
        /\ exchange[m] = "posted"
        /\ exchange' = [exchange EXCEPT ![m] = "handling"]
    BY <1>6 DEF Receive, There!Deliver, There!Become, Advance
  <2>2. /\ task'[t].pkt = m
        /\ \A s \in Task \ {t} : task'[s] = task[s]
        /\ exchange'[m] = "handling"
        /\ exchange' \in [Msg -> Stages]
        /\ \A n \in Msg \ {m} : exchange'[n] = exchange[n]
    BY <1>1, <2>1 DEF Stages
  <2>3. \A s \in Task \ {t} : task[s].pc = "recorded" => task[s].pkt \in Msg \ {m}
    BY <1>1, <2>1 DEF AnswerInv
  <2>4. QED
    BY <2>2, <2>3 DEF AnswerInv
<1>7. ASSUME NEW t \in Task, Reply(t) PROVE AnswerInv'
  <2>1. task[t].pc = "recorded" /\ Advance(task[t].pkt, "replied")
    BY <1>7 DEF Reply, There!DeliverCheck
  <2>2. PICK state \in {There!At("spawned", task[t].user, {}), There!Idle} :
          task' = [task EXCEPT ![t] = state]
    BY <1>7 DEF Reply, There!DeliverCheck, There!Become
  <2>3. state.pc # "recorded"
    BY DEF There!At, There!Idle
  <2>4. QED
    BY <1>3, <2>1, <2>2, <2>3
<1>8. ASSUME NEW t \in Task, WorkThere(t) \/ (\E u \in Account : Visit(t, u))
      PROVE  AnswerInv'
  BY <1>3, <1>8, OtherWork
<1>9. CASE Poll \/ (\E u \in Account : Lapse(u))
  BY <1>2, <1>9 DEF Poll, Lapse, There!PollStart, There!PollGet, There!PollRecord,
                    There!SessionExpire, There!DhtExpire
<1>10. CASE CrashHere \/ UNCHANGED vars
  BY <1>2, <1>10 DEF CrashHere, vars, there
<1>11. CASE CrashThere
  <2>1. \A t \in Task : task'[t].pc # "recorded"
    BY <1>11 DEF CrashThere, There!Crash, There!Idle, There!At
  <2>2. exchange' \in [Msg -> Stages]
    <3>1. \A m \in Msg : exchange[m] \in Stages /\ "over" \in Stages
      BY <1>1 DEF Stages
    <3>2. QED
      BY <1>11, <3>1 DEF CrashThere
  <2>3. QED
    BY <2>1, <2>2 DEF AnswerInv
<1>12. QED
  BY <1>4, <1>5, <1>6, <1>7, <1>8, <1>9, <1>10, <1>11 DEF Next

\* No exchange is under way at first.
LEMMA AnswersInvariant == Spec => [](There!TypeOK /\ AnswerInv)
<1>1. Init => AnswerInv
  BY DEF Init, There!Init, There!Idle, There!At, AnswerInv, Stages
<1>2. QED
  BY <1>1, AnswerStep, ServersTyped, PTL DEF Spec

\* Both servers and the exchanges between them stay well typed, and a goroutine that has
\* recorded a packet is the one that answers its exchange, also when the sender has
\* given up waiting.
THEOREM Typing == Spec => []TypeOK
<1>1. Here!TypeOK /\ There!TypeOK /\ AnswerInv => TypeOK
  BY DEF TypeOK, AnswerInv
<1>2. QED
  BY <1>1, ServersTyped, AnswersInvariant, PTL
-----------------------------------------------------------------------------
(* What a step does to a send *)

\* The ends of a send that were not heard of as delivered, and those of all sends.
PushEnds == {"pushed", "failed", "done", "dead"}
Ends == {"done", "dead"}

\* A send is taken for delivered on a 200 only, and credited after that; one that is
\* pushed to the DHT has fallen back, and an ended one stays ended.
SendEffect(n) ==
  /\ pc'[n] = "delivered" => pc[n] = "delivered" \/ exchange[n] = "replied"
  /\ n \in published' \ published => pc[n] = "fallback" /\ pc'[n] \in PushEnds
  /\ published \subseteq published'
  /\ pc[n] \in PushEnds => pc'[n] \in PushEnds
  /\ pc[n] \in Ends => pc'[n] \in Ends
  /\ Status(n)' = "delivered" =>
       Status(n) = "delivered" \/ (pc[n] = "delivered" /\ pc'[n] = "done")

\* Saving or crediting the copy of one send touches the status of no other.
LEMMA StatusOfOne ==
  ASSUME Here!TypeOK, NEW m \in Msg, NEW status,
         \/ UNCHANGED row
         \/ Here!Save(Here!SentKey(m), Here!SentRow, "saveSent") /\ status = "sending"
         \/ status \in Here!Statuses /\ Here!SetStatus(Here!SentKey(m), status)
  PROVE  \A n \in Msg : \/ Status(n)' = Status(n)
                        \/ n = m /\ Status(n)' = status
<1> USE DEF Status, Here!SentKey, Here!Key
<1>1. From \in [Msg -> Sender] /\ row \in [Sender \X Msg -> Here!Row]
  BY ConstantsAssumption DEF Here!ConstantsAssumption, Here!TypeOK
<1>2. \A n \in Msg : <<From[n], n>> \in Sender \X Msg
  BY <1>1
<1>3. CASE row' = [row EXCEPT ![<<From[m], m>>] = Here!SentRow] /\ status = "sending"
  BY <1>1, <1>2, <1>3 DEF Here!SentRow
<1>4. CASE UNCHANGED row
  BY <1>4
<1>5. CASE row' = [row EXCEPT ![<<From[m], m>>].status =
                     IF Here!Exists(<<From[m], m>>) THEN status ELSE @]
  <2>1. \A n \in Msg \ {m} : row'[<<From[n], n>>] = row[<<From[n], n>>]
    BY <1>1, <1>2, <1>5
  <2>2. row[<<From[m], m>>] \in Here!Row
    BY <1>1, <1>2
  <2>3. row'[<<From[m], m>>].status \in {row[<<From[m], m>>].status, status}
    BY <1>1, <1>2, <1>5, <2>2 DEF Here!Row
  <2>4. QED
    BY <2>1, <2>3
<1>6. QED
  BY <1>3, <1>4, <1>5 DEF Here!Save, Here!SetStatus

\* Every step has only these effects on a send, whatever either server does.
LEMMA SendEffects ==
  ASSUME Here!TypeOK, [Next]_vars, NEW n \in Msg
  PROVE  SendEffect(n)
<1> USE DEF PushEnds, Ends, SendEffect
<1>1. pc \in [Msg -> Here!PCs]
  BY DEF Here!TypeOK
<1>2. ASSUME UNCHANGED here PROVE SendEffect(n)
  BY <1>2 DEF here, Status
<1>3. ASSUME NEW m \in Msg, Send(m) PROVE SendEffect(n)
  <2>1. /\ Here!Save(Here!SentKey(m), Here!SentRow, "saveSent")
        /\ pc[m] = "new" /\ Here!Goto(m, "stamping")
        /\ UNCHANGED published
    BY <1>3 DEF Send, Here!SaveSent, Here!outside
  <2>2. Status(n)' \in {Status(n), "sending"}
    BY <2>1, StatusOfOne
  <2>3. QED
    BY <1>1, <2>1, <2>2 DEF Here!Goto
<1>4. ASSUME NEW m \in Msg, Heard(m) \/ GiveUp(m) PROVE SendEffect(n)
  <2>1. /\ UNCHANGED <<row, published>> /\ pc[m] = "delivering"
        /\ \/ Here!Goto(m, "fallback")
           \/ Here!Goto(m, "delivered") /\ exchange[m] = "replied"
    BY <1>1, <1>4 DEF Heard, GiveUp, Here!DeliverFederated, Here!Goto
  <2>2. QED
    BY <1>1, <2>1 DEF Here!Goto, Status
<1>5. ASSUME NEW m \in Msg, Here!Answer(m) \/ Here!Build(m) PROVE SendEffect(n)
  BY <1>1, <1>5 DEF Here!Answer, Here!Build, Here!Goto, Here!outside, Status
<1>6. ASSUME NEW m \in Msg, Here!FallBack(m) PROVE SendEffect(n)
  BY <1>1, <1>6 DEF Here!FallBack, Here!Goto, Status
<1>7. ASSUME NEW m \in Msg, Here!CreditSent(m) PROVE SendEffect(n)
  <2>1. /\ Here!SetStatus(Here!SentKey(m), "sent")
        /\ pc[m] = "pushed" /\ Here!Goto(m, "done")
        /\ UNCHANGED published
    BY <1>7 DEF Here!CreditSent, Here!outside
  <2>2. Status(n)' \in {Status(n), "sent"}
    BY <2>1, StatusOfOne DEF Here!Statuses
  <2>3. QED
    BY <1>1, <2>1, <2>2 DEF Here!Goto
<1>8. ASSUME NEW m \in Msg, Here!CreditDelivered(m) PROVE SendEffect(n)
  <2>1. /\ Here!SetStatus(Here!SentKey(m), "delivered")
        /\ pc[m] = "delivered" /\ Here!Goto(m, "done")
        /\ UNCHANGED published
    BY <1>8 DEF Here!CreditDelivered, Here!outside
  <2>2. Status(n)' = Status(n) \/ n = m
    BY <2>1, StatusOfOne DEF Here!Statuses
  <2>3. QED
    BY <1>1, <2>1, <2>2 DEF Here!Goto
<1>9. ASSUME CrashHere PROVE SendEffect(n)
  BY <1>9 DEF CrashHere, Here!Crash, Here!outside, Status
<1>10. ASSUME NEW m \in Msg, WorkHere(m) PROVE SendEffect(n)
  BY <1>5, <1>6, <1>7, <1>8, <1>10 DEF WorkHere
<1>11. \/ \E m \in Msg : Send(m) \/ Heard(m) \/ GiveUp(m) \/ WorkHere(m)
       \/ CrashHere
       \/ UNCHANGED here
  BY DEF Next, Resolve, Post, Refuse, Spread, Reply, WorkThere, Receive, Visit, Poll,
         CrashThere, Lapse, vars
<1>12. QED
  BY <1>2, <1>3, <1>4, <1>9, <1>10, <1>11
-----------------------------------------------------------------------------
(* Delivered mail is kept *)

\* The other server has answered 200 for whatever the sender takes for delivered.
AckedInv ==
  \A m \in Msg :
    exchange[m] = "replied" \/ pc[m] = "delivered" \/ Status(m) = "delivered" => m \in acked

\* Only the goroutine that recorded a packet makes its exchange "replied".
LEMMA AcksGrow ==
  ASSUME There!TypeOK, AnswerInv, [Next]_vars
  PROVE  /\ acked \subseteq acked'
         /\ \A m \in Msg : exchange'[m] = "replied" => exchange[m] = "replied" \/ m \in acked'
<1>1. exchange \in [Msg -> Stages]
  BY DEF AnswerInv
<1> DEFINE Good == /\ acked \subseteq acked'
                   /\ \A m \in Msg : exchange'[m] = "replied" =>
                        exchange[m] = "replied" \/ m \in acked'
<1>2. ASSUME UNCHANGED acked,
             \/ UNCHANGED exchange
             \/ \E m \in Msg : \E stage \in Stages \ {"replied"} : Advance(m, stage)
      PROVE  Good
  BY <1>1, <1>2 DEF Advance
<1>3. ASSUME NEW t \in Task, Reply(t) PROVE Good
  BY <1>1, <1>3 DEF Reply, There!DeliverCheck, Advance
<1>4. ASSUME NEW m \in Msg, Resolve(m) \/ Post(m) \/ Refuse(m) \/ Heard(m) PROVE Good
  BY <1>2, <1>4 DEF Resolve, Post, Refuse, Heard, there, Stages
<1>5. ASSUME NEW m \in Msg, Send(m) \/ GiveUp(m) \/ WorkHere(m) \/ Spread(m) PROVE Good
  BY <1>2, <1>5 DEF Send, GiveUp, WorkHere, Spread, There!RemotePush, there
<1>6. ASSUME NEW t \in Task, NEW m \in Msg, Receive(t, m) PROVE Good
  BY <1>2, <1>6 DEF Receive, There!Deliver, Stages
<1>7. ASSUME NEW t \in Task, WorkThere(t) \/ (\E u \in Account : Visit(t, u)) PROVE Good
  BY <1>2, <1>7, OtherWork
<1>8. CASE Poll \/ (\E u \in Account : Lapse(u))
  BY <1>2, <1>8 DEF Poll, Lapse, There!PollStart, There!PollGet, There!PollRecord,
                    There!SessionExpire, There!DhtExpire
<1>9. CASE CrashHere \/ UNCHANGED vars
  BY <1>2, <1>9 DEF CrashHere, vars, there
<1>10. CASE CrashThere
  BY <1>1, <1>10 DEF CrashThere, There!Crash
<1>11. QED
  BY <1>3, <1>4, <1>5, <1>6, <1>7, <1>8, <1>9, <1>10 DEF Next

\* AckedInv is inductive: only Reply makes an exchange "replied", and only Heard takes
\* a send for delivered.
LEMMA AckedInvariant == Spec => []AckedInv
<1>1. Init => AckedInv
  <2>1. ASSUME Here!Init, NEW m \in Msg PROVE Status(m) # "delivered"
    <3>1. <<From[m], m>> \in Sender \X Msg
      BY ConstantsAssumption DEF Here!ConstantsAssumption
    <3>2. QED
      BY <2>1, <3>1 DEF Here!Init, Here!NoRow, Status, Here!SentKey, Here!Key
  <2>2. QED
    BY <2>1 DEF Init, Here!Init, AckedInv
<1>2. Here!TypeOK /\ There!TypeOK /\ AnswerInv /\ AckedInv /\ [Next]_vars => AckedInv'
  <2> SUFFICES ASSUME Here!TypeOK, There!TypeOK, AnswerInv, AckedInv, [Next]_vars,
                      NEW m \in Msg,
                      \/ exchange'[m] = "replied"
                      \/ pc'[m] = "delivered"
                      \/ Status(m)' = "delivered"
               PROVE  m \in acked'
    BY DEF AckedInv
  <2>1. SendEffect(m)
    BY SendEffects
  <2>2. QED
    BY <2>1, AcksGrow DEF SendEffect, AckedInv
<1>3. QED
  BY <1>1, <1>2, ServersTyped, AnswersInvariant, PTL DEF Spec

\* If SaveMessageForUser does not fail on the other server, what a sender is shown as
\* delivered is not lost there, whichever server crashes when: it waits to be
\* decrypted or its addressee has a copy, unless the key does not open it.
THEOREM DeliveredIsKept ==
  ASSUME "save" \notin FaultsThere
  PROVE  Spec => []DeliveredMailIsKept
<1>1. There!Spec => []There!PromiseKept
  BY SameReceiver, Receiving!AcknowledgedMailIsKept, PTL
<1>2. There!PromiseKept /\ AckedInv => DeliveredMailIsKept
  BY ConstantsAssumption
  DEF There!ConstantsAssumption, There!PromiseKept, AckedInv, DeliveredMailIsKept,
      RowsOf, There!Rows
<1>3. QED
  BY <1>1, <1>2, AckedInvariant, ServersBehave, PTL
-----------------------------------------------------------------------------
(* Delivered mail came once *)

\* A row is that of a packet that came by one of the two doors.
LEMMA RowsTyped ==
  ASSUME There!TypeOK, NEW i \in There!Rows
  PROVE  pending[i].pkt \in Msg /\ pending[i].via \in {"federation", "dht"}
<1>1. pending[i] \in There!PendingRow
  BY ElementOfSeq DEF There!TypeOK, There!Rows
<1>2. QED
  BY <1>1 DEF There!PendingRow, There!Vias

\* Rows that are still there, of the same packets by the same doors.
RowsKept ==
  /\ There!Rows \subseteq There!Rows'
  /\ \A i \in There!Rows : /\ pending'[i].pkt = pending[i].pkt
                           /\ pending'[i].via = pending[i].via

\* One row more, of packet p by door via.
RowAdded(p, via) ==
  /\ RowsKept
  /\ There!Rows' = There!Rows \cup {Len(pending) + 1}
  /\ Len(pending) + 1 \notin There!Rows
  /\ pending'[Len(pending) + 1].pkt = p
  /\ pending'[Len(pending) + 1].via = via

\* SavePendingPacket adds a row.
LEMMA RecordAdds ==
  ASSUME There!TypeOK, NEW p \in Msg, NEW via \in There!Vias, There!Record(p, via)
  PROVE  RowAdded(p, via)
<1>1. pending \in Seq(Receiving!PendingRow) /\ Receiving!Record(p, via)
  BY SameReceiver DEF Receiving!TypeOK, There!Record, Receiving!Record
<1>2. /\ Receiving!Rows' = Receiving!Rows \cup {Len(pending) + 1}
      /\ \A i \in Receiving!Rows : pending'[i] = pending[i]
      /\ pending'[Len(pending) + 1] = [pkt |-> p, via |-> via, processed |-> FALSE]
  BY <1>1, SameReceiver, Receiving!RecordAppends
  DEF There!Vias, Receiving!Vias, Receiving!ConstantsAssumption
<1>3. Len(pending) + 1 \notin DOMAIN pending
  BY <1>1
<1>4. QED
  BY <1>2, <1>3 DEF RowAdded, RowsKept, There!Rows, Receiving!Rows

\* Processing a packet changes no row but for its flag.
LEMMA WorkKeepsRows ==
  ASSUME There!TypeOK, NEW t \in Task, WorkThere(t)
  PROVE  RowsKept /\ There!Rows' = There!Rows
<1>1. CASE UNCHANGED pending
  BY <1>1 DEF RowsKept, There!Rows
<1>2. ASSUME NEW i \in There!Oldest(task[t].batch), There!Mark(i)
      PROVE  RowsKept /\ There!Rows' = There!Rows
  <2>1. pending \in Seq(Receiving!PendingRow) /\ Receiving!Mark(i)
    BY <1>2, SameReceiver DEF Receiving!TypeOK, There!Mark, Receiving!Mark
  <2>2. i \in Receiving!Rows
    BY DEF There!TypeOK, There!Oldest, There!Rows, Receiving!Rows
  <2>3. /\ Receiving!Rows' = Receiving!Rows
        /\ \A j \in Receiving!Rows : /\ pending'[j].pkt = pending[j].pkt
                                     /\ pending'[j].via = pending[j].via
    BY <2>1, <2>2, SameReceiver, Receiving!MarkFlagsOneRow
    DEF Receiving!ConstantsAssumption
  <2>4. QED
    BY <2>3 DEF RowsKept, There!Rows, Receiving!Rows
<1>3. CASE There!MarkSaved(t) \/ There!MarkUnreadable(t)
  BY <1>2, <1>3 DEF There!MarkSaved, There!MarkUnreadable
<1>4. CASE \/ There!SignupPut(t) \/ There!GetSession(t) \/ There!Fetch(t)
           \/ There!SaveMessage(t) \/ There!Finish(t)
  BY <1>1, <1>4 DEF There!SignupPut, There!GetSession, There!Fetch,
                    There!SaveMessage, There!Finish, There!tables
<1>5. QED
  BY <1>3, <1>4 DEF WorkThere

\* A step adds at most one row: that of a packet that is being posted, or of one that the
\* poll loop has found in the DHT.
LEMMA RowEffects ==
  ASSUME There!TypeOK, [Next]_vars
  PROVE  \/ RowsKept /\ There!Rows' = There!Rows
         \/ \E m \in Msg : exchange[m] = "posted" /\ Advance(m, "handling")
                           /\ RowAdded(m, "federation")
         \/ poller.got # NoMsg /\ RowAdded(poller.got, "dht")
<1>1. ASSUME UNCHANGED pending PROVE RowsKept /\ There!Rows' = There!Rows
  BY <1>1 DEF RowsKept, There!Rows
<1>2. ASSUME NEW t \in Task, NEW m \in Msg, Receive(t, m)
      PROVE  exchange[m] = "posted" /\ Advance(m, "handling") /\ RowAdded(m, "federation")
  BY <1>2, RecordAdds DEF Receive, There!Deliver, There!Vias
<1>3. CASE There!PollRecord
  <2>1. poller.got \in Msg
    BY <1>3 DEF There!TypeOK, There!PollRecord
  <2>2. QED
    BY <1>1, <1>3, <2>1, RecordAdds DEF There!PollRecord, There!Vias
<1>4. ASSUME NEW t \in Task, WorkThere(t) PROVE RowsKept /\ There!Rows' = There!Rows
  BY <1>4, WorkKeepsRows
<1>5. ASSUME NEW t \in Task, Reply(t) \/ (\E u \in Account : Visit(t, u))
      PROVE  UNCHANGED pending
  BY <1>5 DEF Reply, Visit, There!DeliverCheck, There!Signup, There!Login, There!tables
<1>6. ASSUME NEW m \in Msg, \/ Resolve(m) \/ Send(m) \/ Post(m) \/ Refuse(m) \/ Heard(m)
                            \/ GiveUp(m) \/ Spread(m) \/ WorkHere(m)
      PROVE  UNCHANGED pending
  BY <1>6 DEF Resolve, Send, Post, Refuse, Heard, GiveUp, Spread, WorkHere,
              There!RemotePush, There!tables, there
<1>7. ASSUME \/ There!PollStart \/ CrashHere \/ CrashThere \/ UNCHANGED vars
             \/ \E u \in Account : There!PollGet(u) \/ Lapse(u)
      PROVE  UNCHANGED pending
  BY <1>7 DEF There!PollStart, There!PollGet, Lapse, There!SessionExpire,
              There!DhtExpire, CrashHere, CrashThere, There!Crash, There!tables,
              vars, there
<1>8. QED
  BY <1>1, <1>2, <1>3, <1>4, <1>5, <1>6, <1>7 DEF Next, Poll

\* The stages of an exchange that follow the post.
Received == {"handling", "replied", "over"}

\* A received post stays received; it is received by adding a row, and answered once only.
LEMMA ExchangeEffects ==
  ASSUME There!TypeOK, AnswerInv, [Next]_vars, NEW m \in Msg
  PROVE  /\ exchange[m] \in Received => exchange'[m] \in Received
         /\ exchange'[m] = "replied" => exchange[m] \in {"handling", "replied"}
         /\ exchange'[m] = "handling" => \/ exchange[m] = "handling"
                                         \/ RowAdded(m, "federation")
<1> USE DEF Received
<1> DEFINE Good ==
      /\ exchange[m] \in Received => exchange'[m] \in Received
      /\ exchange'[m] = "replied" => exchange[m] \in {"handling", "replied"}
      /\ exchange'[m] = "handling" => exchange[m] = "handling" \/ RowAdded(m, "federation")
<1>1. exchange \in [Msg -> Stages]
  BY DEF AnswerInv
<1>2. ASSUME UNCHANGED exchange PROVE Good
  BY <1>2
<1>3. ASSUME NEW n \in Msg, Resolve(n) \/ Post(n) \/ Refuse(n) \/ Heard(n) PROVE Good
  BY <1>1, <1>3 DEF Resolve, Post, Refuse, Heard, Advance
<1>4. ASSUME NEW t \in Task, NEW n \in Msg, Receive(t, n) PROVE Good
  <2>1. RowAdded(n, "federation")
    BY <1>4, RecordAdds DEF Receive, There!Deliver, There!Vias
  <2>2. QED
    BY <1>1, <1>4, <2>1 DEF Receive, Advance
<1>5. ASSUME NEW t \in Task, Reply(t) PROVE Good
  <2>1. exchange[task[t].pkt] = "handling" /\ Advance(task[t].pkt, "replied")
    BY <1>5 DEF Reply, There!DeliverCheck, AnswerInv
  <2>2. QED
    BY <1>1, <2>1 DEF Advance
<1>6. CASE CrashThere
  BY <1>1, <1>6 DEF CrashThere
<1>7. ASSUME NEW n \in Msg, Send(n) \/ GiveUp(n) \/ WorkHere(n) \/ Spread(n)
      PROVE  UNCHANGED exchange
  BY <1>7 DEF Send, GiveUp, WorkHere, Spread
<1>8. ASSUME NEW t \in Task, WorkThere(t) \/ (\E u \in Account : Visit(t, u))
      PROVE  UNCHANGED exchange
  BY <1>8 DEF WorkThere, Visit
<1>9. Poll \/ CrashHere \/ UNCHANGED vars \/ (\E u \in Account : Lapse(u))
        => UNCHANGED exchange
  BY DEF Poll, CrashHere, vars, Lapse
<1>10. QED
  BY <1>2, <1>3, <1>4, <1>5, <1>6, <1>7, <1>8, <1>9 DEF Next

\* What is in the DHT, or on its way from there into the table, was pushed here.
FromHere ==
  /\ \A u \in Account : dht[u] \in published \cup {NoMsg}
  /\ poller.got \in published \cup {NoMsg}
  /\ \A i \in There!Rows : pending[i].via = "dht" => pending[i].pkt \in published

\* FromHere is inductive: only Spread fills the slots that are polled.
LEMMA FromHereStep ==
  ASSUME Here!TypeOK, There!TypeOK, FromHere, [Next]_vars
  PROVE  FromHere'
<1>1. published \subseteq published'
  <2>1. CASE Msg = {}
    BY <2>1 DEF Here!TypeOK
  <2>2. CASE Msg # {}
    BY <2>2, SendEffects DEF SendEffect
  <2>3. QED
    BY <2>1, <2>2
<1>2. /\ dht \in [Account -> Msg \cup {NoMsg}]
      /\ Addressee \in [Msg -> Account]
      /\ poller \in [todo : SUBSET Account, got : Msg \cup {NoMsg}]
  BY ConstantsAssumption DEF There!TypeOK, There!ConstantsAssumption
<1> DEFINE Slots == /\ \A u \in Account : dht'[u] \in published \cup {NoMsg}
                    /\ poller'.got \in published \cup {NoMsg}
<1>3. Slots
  <2>1. ASSUME UNCHANGED <<dht, poller>> PROVE Slots
    BY <2>1 DEF FromHere
  <2>2. ASSUME NEW m \in Msg, Spread(m) PROVE Slots
    BY <1>2, <2>2 DEF Spread, There!RemotePush, FromHere
  <2>3. ASSUME NEW u \in Account, Lapse(u) PROVE Slots
    BY <1>2, <2>3 DEF Lapse, There!SessionExpire, There!DhtExpire, FromHere
  <2>4. CASE Poll
    <3>1. CASE There!PollStart
      BY <3>1 DEF There!PollStart, There!QuietPoller, FromHere
    <3>2. CASE There!PollRecord
      BY <1>2, <3>2 DEF There!PollRecord, FromHere
    <3>3. ASSUME NEW u \in Account, There!PollGet(u) PROVE Slots
      BY <1>2, <3>3 DEF There!PollGet, FromHere
    <3>4. QED
      BY <2>4, <3>1, <3>2, <3>3 DEF Poll
  <2>5. CASE CrashThere
    BY <2>5 DEF CrashThere, There!Crash, There!QuietPoller, FromHere
  <2>6. ASSUME NEW m \in Msg, \/ Resolve(m) \/ Send(m) \/ Post(m) \/ Refuse(m)
                              \/ Heard(m) \/ GiveUp(m) \/ WorkHere(m)
        PROVE  UNCHANGED <<dht, poller>>
    BY <2>6 DEF Resolve, Send, Post, Refuse, Heard, GiveUp, WorkHere, there
  <2>7. ASSUME NEW t \in Task, Reply(t) \/ (\E m \in Msg : Receive(t, m))
                               \/ (\E u \in Account : Visit(t, u))
        PROVE  UNCHANGED <<dht, poller>>
    BY <2>7 DEF Reply, Receive, Visit, There!DeliverCheck, There!Deliver,
                There!Signup, There!Login
  <2>8. ASSUME NEW t \in Task, WorkThere(t) PROVE UNCHANGED <<dht, poller>>
    BY <2>8 DEF WorkThere, There!SignupPut, There!GetSession, There!Fetch,
                There!SaveMessage, There!MarkSaved, There!MarkUnreadable, There!Finish
  <2>9. CrashHere \/ UNCHANGED vars => UNCHANGED <<dht, poller>>
    BY DEF CrashHere, vars, there
  <2>10. QED
    BY <2>1, <2>2, <2>3, <2>4, <2>5, <2>6, <2>7, <2>8, <2>9 DEF Next
<1>4. ASSUME NEW i \in There!Rows', pending'[i].via = "dht" PROVE pending'[i].pkt \in published
  BY <1>4, RowEffects DEF FromHere, RowsKept, RowAdded
<1>5. QED
  BY <1>1, <1>3, <1>4 DEF FromHere

\* A post that was received has its one row, and one that was not has none.
PostedOnce ==
  /\ \A i, j \in There!Rows : /\ pending[i].via = "federation"
                              /\ pending[j].via = "federation"
                              /\ pending[i].pkt = pending[j].pkt
                              => i = j
  /\ \A i \in There!Rows : pending[i].via = "federation"
                             => exchange[pending[i].pkt] \in Received
  /\ \A m \in Msg : \/ exchange[m] \in {"handling", "replied"}
                    \/ pc[m] = "delivered"
                    \/ Status(m) = "delivered"
                    => RowsOf(m) # {}

\* A packet that was pushed to the DHT is never shown as delivered.
PushedOrDelivered ==
  \A m \in Msg :
    /\ m \in published => pc[m] \in PushEnds /\ Status(m) # "delivered"
    /\ Status(m) = "delivered" => pc[m] \in Ends

\* PostedOnce is inductive: Receive records and takes the exchange past "posted", for good.
LEMMA PostedOnceStep ==
  ASSUME Here!TypeOK, There!TypeOK, AnswerInv, PostedOnce, [Next]_vars
  PROVE  PostedOnce'
<1>1. RowsKept /\ There!Rows' \subseteq There!Rows \cup {Len(pending) + 1}
  BY RowEffects DEF RowAdded
<1>2. ASSUME NEW m \in Msg,
             \/ exchange'[m] \in {"handling", "replied"}
             \/ pc'[m] = "delivered"
             \/ Status(m)' = "delivered"
      PROVE  RowsOf(m)' # {}
  <2>1. CASE RowAdded(m, "federation")
    BY <2>1 DEF RowAdded, RowsOf, There!Rows
  <2>2. CASE ~RowAdded(m, "federation")
    <3>1. \/ exchange[m] \in {"handling", "replied"}
          \/ pc[m] = "delivered"
          \/ Status(m) = "delivered"
      BY <1>2, <2>2, ExchangeEffects, SendEffects DEF SendEffect
    <3>2. RowsOf(m) # {}
      BY <3>1 DEF PostedOnce
    <3>3. QED
      BY <1>1, <3>2 DEF RowsKept, RowsOf, There!Rows
  <2>3. QED
    BY <2>1, <2>2
<1>3. \A m \in Msg : exchange[m] \in Received => exchange'[m] \in Received
  BY ExchangeEffects
<1>4. \A i \in There!Rows : pending[i].pkt \in Msg
  BY RowsTyped
<1>5. CASE There!Rows' = There!Rows \/ RowAdded(poller.got, "dht")
  <2>1. \A i \in There!Rows' : pending'[i].via = "federation" => i \in There!Rows
    BY <1>5 DEF RowAdded
  <2>2. QED
    BY <1>1, <1>2, <1>3, <1>4, <2>1 DEF PostedOnce, RowsKept
<1>6. ASSUME NEW m \in Msg, exchange[m] = "posted", Advance(m, "handling"),
             RowAdded(m, "federation")
      PROVE  PostedOnce'
  <2>1. \A i \in There!Rows : pending[i].via = "federation" => pending[i].pkt # m
    BY <1>6 DEF PostedOnce, Received
  <2>2. exchange'[m] \in Received
    BY <1>6 DEF AnswerInv, Advance, Received
  <2>3. QED
    BY <1>2, <1>3, <1>4, <1>6, <2>1, <2>2 DEF PostedOnce, RowAdded, RowsKept
<1>7. QED
  BY <1>5, <1>6, RowEffects

\* PushedOrDelivered is inductive: a send that falls back to the DHT has lost its chance of
\* hearing that it was delivered.
LEMMA PushedOrDeliveredStep ==
  ASSUME Here!TypeOK, PushedOrDelivered, [Next]_vars
  PROVE  PushedOrDelivered'
<1> SUFFICES ASSUME NEW m \in Msg
             PROVE  /\ m \in published' => pc'[m] \in PushEnds /\ Status(m)' # "delivered"
                    /\ Status(m)' = "delivered" => pc'[m] \in Ends
  BY DEF PushedOrDelivered
<1>1. SendEffect(m)
  BY SendEffects
<1>2. QED
  BY <1>1 DEF SendEffect, PushedOrDelivered, PushEnds, Ends

\* At first nothing was sent.
LEMMA InitOnce == Init => FromHere /\ PostedOnce /\ PushedOrDelivered
<1> SUFFICES ASSUME Init PROVE FromHere /\ PostedOnce /\ PushedOrDelivered
  OBVIOUS
<1>1. /\ There!Rows = {} /\ published = {} /\ poller.got = NoMsg
      /\ \A u \in Account : dht[u] = NoMsg
      /\ \A m \in Msg : pc[m] = "new" /\ exchange[m] = "none"
  BY DEF Init, Here!Init, There!Init, There!Rows, There!QuietPoller
<1>2. \A m \in Msg : Status(m) # "delivered"
  <2>1. \A m \in Msg : <<From[m], m>> \in Sender \X Msg
    BY ConstantsAssumption DEF Here!ConstantsAssumption
  <2>2. QED
    BY <2>1 DEF Init, Here!Init, Here!NoRow, Status, Here!SentKey, Here!Key
<1>3. QED
  BY <1>1, <1>2 DEF FromHere, PostedOnce, PushedOrDelivered

\* The three invariants hold from the start and are kept together.
LEMMA OnceInvariant == Spec => [](FromHere /\ PostedOnce /\ PushedOrDelivered)
BY InitOnce, FromHereStep, PostedOnceStep, PushedOrDeliveredStep, ServersTyped,
   AnswersInvariant, PTL DEF Spec

\* Whatever row there is of a mail shown as delivered, it came by the post.
LEMMA DeliveredByPost ==
  ASSUME There!TypeOK, FromHere, PushedOrDelivered, NEW m \in Msg, Status(m) = "delivered"
  PROVE  \A i \in RowsOf(m) : pending[i].via = "federation"
<1>1. \A i \in There!Rows : pending[i].via \in {"federation", "dht"}
  BY RowsTyped
<1>2. m \notin published
  BY DEF PushedOrDelivered
<1>3. QED
  BY <1>1, <1>2 DEF FromHere, RowsOf, There!Rows

\* What a sender is shown as delivered was recorded exactly once on the other server: the
\* post is received once, and who was told of it does not push the packet to the DHT.
THEOREM DeliveredOnce == Spec => []DeliveredMailCameOnce
<1>1. There!TypeOK /\ FromHere /\ PostedOnce /\ PushedOrDelivered => DeliveredMailCameOnce
  <2> SUFFICES ASSUME There!TypeOK, FromHere, PostedOnce, PushedOrDelivered,
                      NEW m \in Msg, Status(m) = "delivered"
               PROVE  Cardinality(RowsOf(m)) = 1
    BY DEF DeliveredMailCameOnce
  <2>1. PICK i \in There!Rows : pending[i].pkt = m
    BY DEF PostedOnce, RowsOf, There!Rows
  <2>2. \A j \in RowsOf(m) : pending[j].via = "federation"
    BY DeliveredByPost
  <2>3. RowsOf(m) = {i}
    BY <2>1, <2>2 DEF PostedOnce, RowsOf, There!Rows
  <2>4. QED
    BY <2>3, FS_Singleton
<1>2. QED
  BY <1>1, OnceInvariant, ServersTyped, PTL
-----------------------------------------------------------------------------
(* What the other server owes *)

\* If its saves do not fail, the other server keeps the at-least-once contract of
\* MailContract towards the mail it gets from here.
THEOREM RecipientKeepsContract ==
  ASSUME "save" \notin FaultsThere
  PROVE  Spec => There!ContractSpec
<1>1. There!Spec => There!ContractSpec
  BY SameReceiver, Receiving!ServerImplementsContract, PTL
<1>2. QED
  BY <1>1, ServersBehave, PTL

\* No lost wake-up from end to end: if the store of the other server does not fail, a mail
\* shown here as delivered, whose addressee is logged in there, is in the mailbox or some
\* goroutine is going to see its row, whichever server crashes and whoever else logs in,
\* signs up, sends or polls.
THEOREM DeliveredIsAttended ==
  ASSUME "save" \notin FaultsThere, "fetch" \notin FaultsThere, "mark" \notin FaultsThere
  PROVE  Spec => []DeliveredMailIsAttended
<1>1. There!Spec => []There!LoggedInUserIsAttended
  BY SameReceiver, Receiving!NoLostWakeup, PTL
<1>2. /\ There!TypeOK /\ There!LoggedInUserIsAttended /\ DeliveredMailIsKept
      /\ FromHere /\ PushedOrDelivered
      => DeliveredMailIsAttended
  <2> SUFFICES ASSUME There!TypeOK, There!LoggedInUserIsAttended, DeliveredMailIsKept,
                      FromHere, PushedOrDelivered,
                      NEW m \in Readable, Status(m) = "delivered",
                      session[Addressee[m]] = "login", ~There!Filed(m)
               PROVE  \E i \in RowsOf(m), t \in Task :
                        There!Unprocessed(i) /\ There!Attends(t, i)
    BY DEF DeliveredMailIsAttended
  <2>1. m \in Msg
    BY ConstantsAssumption DEF There!ConstantsAssumption
  <2>2. PICK i \in RowsOf(m) : There!Unprocessed(i)
    BY DEF DeliveredMailIsKept
  <2>3. pending[i].via = "federation"
    BY <2>1, DeliveredByPost
  <2>4. i \in There!Rows /\ There!Owner(i) = Addressee[m]
    BY DEF RowsOf, There!Rows, There!Owner
  <2>5. QED
    BY <2>2, <2>3, <2>4 DEF There!LoggedInUserIsAttended
<1>3. QED
  BY <1>1, <1>2, DeliveredIsKept, OnceInvariant, ServersTyped, ServersBehave, PTL
=============================================================================
