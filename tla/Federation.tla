------------------------------ MODULE Federation ------------------------------
(***************************************************************************)
(* Mail from the users of one server to those of another: the sending half *)
(* of OutboundMail here, the receiving half of InboundMail there, and the  *)
(* HTTP requests and the DHT between them.                                 *)
(*                                                                         *)
(* A send asks the other server for the key behind user@host, and posts    *)
(* the stamped packet to it.  The post has a timeout of fifteen seconds,   *)
(* while the handler on the other side runs to its end whether anybody     *)
(* still waits or not; a sender that did not hear "delivered" pushes the   *)
(* packet to the DHT, where the other server's poll loop may find it.      *)
(* OutboundMail takes the other server's part as a choice of outcomes;     *)
(* here the outcome is what InboundMail does.                              *)
(*                                                                         *)
(* A packet is the message it carries.  Users who read and delete are left *)
(* to the two modules.                                                     *)
(***************************************************************************)
EXTENDS Naturals, Sequences, FiniteSets

CONSTANTS
  Sender,       \* users of the server here
  Account,      \* accounts that may be created on the server there
  Msg,          \* the sends that may happen, all to user@host
  From,         \* From[m]: the sender of m
  Addressee,    \* Addressee[m]: the account m is addressed to
  Readable,     \* messages the addressee's key decrypts
  Task,         \* goroutines there that may be alive at once
  FaultsHere, FaultsThere,
  MaxRows,      \* bound on the rows of pending_packets there
  Elsewhere, NoUser, NoMsg

VARIABLES
  row, pc, answered, published, recorded,                                \* here
  registered, pending, mailbox, session, dht, task, poller, acked,      \* there
  exchange      \* exchange[m]: how far the requests for m have come

here == <<row, pc, answered, published, recorded>>
there == <<registered, pending, mailbox, session, dht, task, poller, acked>>
vars == <<here, there, exchange>>

Here == INSTANCE OutboundMail WITH
  User <- Sender, To <- [m \in Msg |-> Elsewhere], ViaHost <- Msg,
  Faults <- FaultsHere, reading <- {}, opened <- {}

There == INSTANCE InboundMail WITH
  User <- Account, Packet <- Msg, To <- Addressee, StoreFaults <- FaultsThere,
  NoPacket <- NoMsg

\* Each server has what its module asks for.
ASSUME ConstantsAssumption == Here!ConstantsAssumption /\ There!ConstantsAssumption

Stages == {"none", "resolved", "posted", "handling", "replied", "over"}
Advance(m, stage) == exchange' = [exchange EXCEPT ![m] = stage]

Init ==
  /\ Here!Init
  /\ There!Init
  /\ exchange = [m \in Msg |-> "none"]
-----------------------------------------------------------------------------
(* Requests between the servers *)

\* handleFederationResolve finds an account that exists.
Found(m) == Addressee[m] \in registered

\* resolveViaFederation; an account that is not found or an error rejects the send,
\* which changes nothing.
Resolve(m) ==
  /\ exchange[m] = "none"
  /\ Found(m)
  /\ Advance(m, "resolved")
  /\ UNCHANGED <<here, there>>

\* SendMessageFederated goes on with the key it was told.
Send(m) ==
  /\ exchange[m] = "resolved"
  /\ Here!SaveSent(m)
  /\ UNCHANGED <<there, exchange>>

\* deliverViaFederation sends the request.
Post(m) ==
  /\ exchange[m] = "resolved"
  /\ pc[m] = "delivering"
  /\ Advance(m, "posted")
  /\ UNCHANGED <<here, there>>

\* handleFederationDeliver records the packet, whether the sender still waits or not.
Receive(t, m) ==
  /\ exchange[m] = "posted"
  /\ There!Deliver(t, m)
  /\ Advance(m, "handling")
  /\ UNCHANGED here

\* Mutant of Refuse: takes an exchange for ended that the other server is handling.
RefuseWhileHandled(m) ==
  /\ exchange[m] \in {"posted", "handling"}
  /\ Advance(m, "over")
  /\ UNCHANGED <<here, there>>

\* ... or answers an error, or the request never gets there.
Refuse(m) ==
  /\ exchange[m] = "posted"
  /\ Advance(m, "over")
  /\ UNCHANGED <<here, there>>

\* ... and answers 200.
Reply(t) ==
  /\ There!DeliverCheck(t)
  /\ Advance(task[t].pkt, "replied")
  /\ UNCHANGED here

\* Mutant of Heard: the status code of the answer is not looked at.
HeardSomething(m) ==
  /\ exchange[m] \in {"replied", "over"}
  /\ Here!DeliverFederated(m)
  /\ pc'[m] = "delivered"
  /\ Advance(m, "over")
  /\ UNCHANGED there

\* The 200 arrives in time.
Heard(m) ==
  /\ exchange[m] = "replied"
  /\ Here!DeliverFederated(m)
  /\ pc'[m] = "delivered"
  /\ Advance(m, "over")
  /\ UNCHANGED there

\* Mutant of GiveUp: the post is tried again instead.
GiveUpAndRetry(m) ==
  /\ pc[m] = "delivering"
  /\ exchange[m] \in {"posted", "handling", "replied", "over"}
  /\ Advance(m, "resolved")
  /\ UNCHANGED <<here, there>>

\* Mutant of GiveUp: no timeout, only an answer or an error ends the wait.
GiveUpOnError(m) ==
  /\ exchange[m] \in {"replied", "over"}
  /\ Here!DeliverFederated(m)
  /\ pc'[m] = "fallback"
  /\ m \in recorded' <=> m \in There!Known
  /\ UNCHANGED <<there, exchange>>

\* Fifteen seconds are over, or there was an error: the sender falls back to the DHT,
\* not knowing whether the packet was recorded.
GiveUp(m) ==
  /\ Here!DeliverFederated(m)
  /\ pc'[m] = "fallback"
  /\ m \in recorded' <=> m \in There!Known
  /\ UNCHANGED <<there, exchange>>

\* A packet that was pushed here shows up in its recipient's slot there.
Spread(m) ==
  /\ m \in published
  /\ There!RemotePush(m)
  /\ UNCHANGED <<here, exchange>>
-----------------------------------------------------------------------------
(* What each server does on its own *)

WorkHere(m) ==
  /\ \/ Here!Answer(m) \/ Here!Build(m) \/ Here!FallBack(m)
     \/ Here!CreditSent(m) \/ Here!CreditDelivered(m)
  /\ UNCHANGED <<there, exchange>>

WorkThere(t) ==
  /\ \/ There!SignupPut(t) \/ There!GetSession(t) \/ There!Fetch(t)
     \/ There!SaveMessage(t) \/ There!MarkSaved(t) \/ There!MarkUnreadable(t)
     \/ There!Finish(t)
  /\ UNCHANGED <<here, exchange>>

Visit(t, u) ==
  /\ There!Signup(t, u) \/ There!Login(t, u)
  /\ UNCHANGED <<here, exchange>>

Poll ==
  /\ \/ There!PollStart \/ There!PollRecord
     \/ \E u \in Account : There!PollGet(u)
  /\ UNCHANGED <<here, exchange>>

Lapse(u) ==
  /\ There!SessionExpire(u) \/ There!DhtExpire(u)
  /\ UNCHANGED <<here, exchange>>

CrashHere ==
  /\ Here!Crash
  /\ UNCHANGED <<there, exchange>>

\* Connections break with the server; a 200 may already be on its way.
CrashThere ==
  /\ There!Crash
  /\ exchange' = [m \in Msg |-> IF exchange[m] \in {"posted", "handling"}
                                THEN "over" ELSE exchange[m]]
  /\ UNCHANGED here

Next ==
  \/ \E m \in Msg : \/ Resolve(m) \/ Send(m) \/ Post(m) \/ Refuse(m)
                    \/ Heard(m) \/ GiveUp(m) \/ Spread(m) \/ WorkHere(m)
  \/ \E t \in Task : \/ Reply(t) \/ WorkThere(t)
                     \/ \E m \in Msg : Receive(t, m)
                     \/ \E u \in Account : Visit(t, u)
  \/ \E u \in Account : Lapse(u)
  \/ Poll \/ CrashHere \/ CrashThere

Spec == Init /\ [][Next]_vars

\* Goroutines run on both servers, and the timeout ends every wait for an answer;
\* no request need arrive, no user need come.
FairSpec ==
  /\ Spec
  /\ \A m \in Msg : WF_vars(WorkHere(m)) /\ WF_vars(Heard(m) \/ GiveUp(m))
  /\ \A t \in Task : WF_vars(Reply(t) \/ WorkThere(t))
-----------------------------------------------------------------------------
(* Properties *)

TypeOK ==
  /\ Here!TypeOK
  /\ There!TypeOK
  /\ exchange \in [Msg -> Stages]
  \* a goroutine that has recorded a packet is the one that answers the exchange
  /\ \A t \in Task : task[t].pc = "recorded" => exchange[task[t].pkt] = "handling"

Status(m) == row[Here!SentKey(m)].status
RowsOf(m) == {i \in DOMAIN pending : pending[i].pkt = m}

\* What the sender is shown as delivered has not been lost on the other server: it
\* waits there to be decrypted or the addressee has a copy, whichever server
\* crashed when, unless the key does not open it.
DeliveredMailIsKept ==
  \A m \in Readable : Status(m) = "delivered" =>
    There!Filed(m) \/ \E i \in RowsOf(m) : There!Unprocessed(i)

\* ... and it was recorded exactly once: only a sender who was told nothing pushes
\* the packet to the DHT as well, where each poll records it anew.
DeliveredMailCameOnce ==
  \A m \in Msg : Status(m) = "delivered" => Cardinality(RowsOf(m)) = 1

\* No lost wake-up from end to end: while the addressee of what is shown as delivered is
\* logged in over there, it is in the mailbox or some goroutine is going to see its row.
DeliveredMailIsAttended ==
  \A m \in Readable : Status(m) = "delivered" /\ session[Addressee[m]] = "login" =>
    \/ There!Filed(m)
    \/ \E i \in RowsOf(m), t \in Task : There!Unprocessed(i) /\ There!Attends(t, i)

\* A federated send gets out of "sending" whatever the other server does and wherever
\* it crashes, unless the sender's own server crashes.
FederatedMailSettles ==
  \A m \in Msg : m \in answered ~> (Status(m) \in {"sent", "delivered"} \/ pc[m] = "dead")

\* Mail shown as delivered gets into the mailbox of an addressee who logs in, unless
\* the session is lost first.
DeliveredMailIsFiled ==
  \A m \in Readable :
    (Status(m) = "delivered" /\ session[Addressee[m]] = "login")
      ~> (There!Filed(m) \/ session[Addressee[m]] # "login")
=============================================================================
