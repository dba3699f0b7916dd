---------------------------- MODULE OutboundMail ----------------------------
(***************************************************************************)
(* How a multi-tenant Dmail server sends mail and tracks its status.       *)
(*                                                                         *)
(* handleMTSendMessage takes one of three routes.  To a user of the same   *)
(* server the handler itself writes the recipient's inbox row.  To another *)
(* key it starts a goroutine that stamps the packet and pushes it to the   *)
(* DHT under the REQUEST's context, which net/http cancels when the        *)
(* handler returns.  To user@host it starts a goroutine that posts the     *)
(* packet to the other server and falls back to a DHT push, under          *)
(* contexts of their own.  Each route then writes the status of the        *)
(* sender's copy; so does the read receipt of a recipient on the same      *)
(* server (handleMTMarkRead).                                              *)
(*                                                                         *)
(* The route is chosen by the form of the address: user@host takes the     *)
(* third one even when the host is this server's own, which then posts the *)
(* packet to itself.  The packet comes back as any other server's would,   *)
(* and is filed under an id of its own, so it is not a row of this module. *)
(*                                                                         *)
(* Calls rejected before the sender's copy is saved (no session, bad       *)
(* address, name or host that does not resolve) change nothing and are not *)
(* steps.  A message id is "msg-" and the clock in nanoseconds, taken here *)
(* to be unique.                                                           *)
(***************************************************************************)
CONSTANTS
  User,     \* users of this server
  Msg,      \* the sends that may happen, one each
  From,     \* From[m]: the user who sends m
  To,       \* To[m]: the local user m is addressed to, or Elsewhere
  ViaHost,  \* the messages addressed as user@host, this server's host included
  Elsewhere,
  Faults    \* what may go wrong in this instance

ASSUME ConstantsAssumption ==
  /\ From \in [Msg -> User]
  /\ To \in [Msg -> User \cup {Elsewhere}]
  /\ Elsewhere \notin User
  /\ ViaHost \subseteq Msg
  /\ Faults \subseteq {"saveSent", "lookup", "saveInbox", "status", "build",
                       "deliver", "answerLost", "push", "crash"}

VARIABLES
  row,        \* messages table: row[<<u, m>>] is the row with key u:m
  pc,         \* pc[m]: where the handler of m, or its goroutine, is
  answered,   \* sends answered 202, whose request context is cancelled
  published,  \* history: messages a DHT put may have handed to other peers
  recorded,   \* history: messages the recipient's own server has recorded
  reading,    \* keys whose handleMTMarkRead has marked the row, no receipt yet
  opened      \* history: keys that were marked read

vars == <<row, pc, answered, published, recorded, reading, opened>>
outside == <<published, recorded>>
readers == <<reading, opened>>

Statuses == {"", "sending", "sent", "delivered", "read"}
Row == [folder : {"none", "sent", "inbox", "trash"}, status : Statuses, read : BOOLEAN]
PCs == {"new", "saved", "filed", "stamping", "pushing", "putting", "pushed",
        "delivering", "fallback", "delivered", "done", "failed", "dead"}

NoRow == [folder |-> "none", status |-> "", read |-> FALSE]
SentRow == [folder |-> "sent", status |-> "sending", read |-> TRUE]
InboxRow == [folder |-> "inbox", status |-> "", read |-> FALSE]

\* Mutant of Key: rows are not scoped to the user.
KeyUnscoped(u, m) == <<From[m], m>>

\* The primary key that SaveMessageForUser and UpdateMessageStatusForUser use.
Key(u, m) == <<u, m>>
SentKey(m) == Key(From[m], m)
InboxKey(m) == Key(To[m], m)
Exists(k) == row[k].folder # "none"

\* The sends SendMessageForUser delivers by itself: to a user of this server, by key or name.
Direct(m) == To[m] \in User /\ m \notin ViaHost

\* SaveMessageForUser: INSERT OR REPLACE.  Every caller here ignores its error.
Save(k, r, fault) ==
  \/ row' = [row EXCEPT ![k] = r]
  \/ fault \in Faults /\ UNCHANGED row

\* Mutant of SetStatus: inserts a row that is not there.
UpsertStatus(k, status) ==
  \/ row' = [row EXCEPT ![k].status = status]
  \/ "status" \in Faults /\ UNCHANGED row

\* UpdateMessageStatusForUser: changes the row if there is one.  Every caller
\* ignores its error.
SetStatus(k, status) ==
  \/ row' = [row EXCEPT ![k].status = IF Exists(k) THEN status ELSE @]
  \/ "status" \in Faults /\ UNCHANGED row

Goto(m, label) == pc' = [pc EXCEPT ![m] = label]

Init ==
  /\ row = [k \in User \X Msg |-> NoRow]
  /\ pc = [m \in Msg |-> "new"]
  /\ answered = {}
  /\ published = {}
  /\ recorded = {}
  /\ reading = {}
  /\ opened = {}
-----------------------------------------------------------------------------
(* SendMessageForUser and SendMessageFederated, up to the 202 *)

\* The sender's copy is saved first; the federated route then starts its goroutine.
SaveSent(m) ==
  /\ pc[m] = "new"
  /\ Save(SentKey(m), SentRow, "saveSent")
  /\ Goto(m, IF m \in ViaHost THEN "stamping" ELSE "saved")
  /\ UNCHANGED <<answered, outside, readers>>

\* GetUserByPubkey finds the recipient here: write the inbox row.
FileLocally(m) ==
  /\ pc[m] = "saved"
  /\ To[m] \in User
  /\ Save(InboxKey(m), InboxRow, "saveInbox")
  /\ Goto(m, "filed")
  /\ UNCHANGED <<answered, outside, readers>>

\* The lookup fails.  Its error is dropped and it yields a zero User, not nil:
\* the inbox row is written for the empty user id, which nobody reads.
FileForNobody(m) ==
  /\ pc[m] = "saved"
  /\ "lookup" \in Faults
  /\ Goto(m, "filed")
  /\ UNCHANGED <<row, answered, outside, readers>>

\* Mutant of CreditLocal: no return, the message is pushed as well.
CreditLocalAndPush(m) ==
  /\ pc[m] = "filed"
  /\ SetStatus(SentKey(m), "delivered")
  /\ Goto(m, "stamping")
  /\ UNCHANGED <<answered, outside, readers>>

CreditLocal(m) ==
  /\ pc[m] = "filed"
  /\ SetStatus(SentKey(m), "delivered")
  /\ Goto(m, "done")
  /\ UNCHANGED <<answered, outside, readers>>

\* The recipient is not here: start the goroutine that stamps and pushes.
SpawnPush(m) ==
  /\ pc[m] = "saved"
  /\ To[m] = Elsewhere
  /\ Goto(m, "stamping")
  /\ UNCHANGED <<row, answered, outside, readers>>

\* The handler writes 202 and returns; the request context is cancelled.
Answer(m) ==
  /\ m \notin answered
  /\ pc[m] \notin {"new", "saved", "filed", "dead"}
  /\ answered' = answered \cup {m}
  /\ UNCHANGED <<row, pc, outside, readers>>
-----------------------------------------------------------------------------
(* The goroutines *)

\* packet.Build: encryption and proof of work, or an error that ends the goroutine.
Build(m) ==
  /\ pc[m] = "stamping"
  /\ \/ Goto(m, IF m \in ViaHost THEN "delivering" ELSE "pushing")
     \/ "build" \in Faults /\ Goto(m, "failed")
  /\ UNCHANGED <<row, answered, outside, readers>>

\* Node.Push under the request context: cancelled before it starts, it leaves the
\* packet in this node's own store and reaches no other peer.
Push(m) ==
  /\ pc[m] = "pushing"
  /\ Goto(m, IF m \in answered THEN "failed" ELSE "putting")
  /\ UNCHANGED <<row, answered, outside, readers>>

\* The DHT put ends; cancelled or failed half-way it may have reached a peer.
PutDone(m) ==
  /\ pc[m] = "putting"
  /\ \/ Goto(m, "pushed") /\ published' = published \cup {m}
     \/ /\ m \in answered \/ "push" \in Faults
        /\ Goto(m, "failed")
        /\ published' \in {published, published \cup {m}}
  /\ UNCHANGED <<row, answered, recorded, readers>>

\* Mutant of DeliverFederated: gives up where the code falls back to the DHT.
DeliverFederatedOrFail(m) ==
  /\ pc[m] = "delivering"
  /\ \/ Goto(m, "delivered") /\ recorded' = recorded \cup {m}
     \/ "deliver" \in Faults /\ Goto(m, "failed") /\ UNCHANGED recorded
     \/ "answerLost" \in Faults /\ Goto(m, "failed") /\ recorded' = recorded \cup {m}
  /\ UNCHANGED <<row, answered, published, readers>>

\* deliverViaFederation under a context of its own: an OK, a refusal or no
\* connection, or an answer that does not come within the timeout although the
\* other server has recorded the packet.
DeliverFederated(m) ==
  /\ pc[m] = "delivering"
  /\ \/ Goto(m, "delivered") /\ recorded' = recorded \cup {m}
     \/ "deliver" \in Faults /\ Goto(m, "fallback") /\ UNCHANGED recorded
     \/ "answerLost" \in Faults /\ Goto(m, "fallback") /\ recorded' = recorded \cup {m}
  /\ UNCHANGED <<row, answered, published, readers>>

\* Mutant of FallBack: goes on after a failed push.
FallBackUnchecked(m) ==
  /\ pc[m] = "fallback"
  /\ Goto(m, "pushed")
  /\ \/ published' = published \cup {m}
     \/ "push" \in Faults /\ UNCHANGED published
  /\ UNCHANGED <<row, answered, recorded, readers>>

\* Node.Push under context.Background().
FallBack(m) ==
  /\ pc[m] = "fallback"
  /\ \/ Goto(m, "pushed") /\ published' = published \cup {m}
     \/ /\ "push" \in Faults
        /\ Goto(m, "failed")
        /\ published' \in {published, published \cup {m}}
  /\ UNCHANGED <<row, answered, recorded, readers>>

CreditSent(m) ==
  /\ pc[m] = "pushed"
  /\ SetStatus(SentKey(m), "sent")
  /\ Goto(m, "done")
  /\ UNCHANGED <<answered, outside, readers>>

CreditDelivered(m) ==
  /\ pc[m] = "delivered"
  /\ SetStatus(SentKey(m), "delivered")
  /\ Goto(m, "done")
  /\ UNCHANGED <<answered, outside, readers>>
-----------------------------------------------------------------------------
(* Users reading and deleting, and the machine *)

\* handleMTMarkRead: Store.MarkRead on the user's own row.
MarkRead(k) ==
  /\ Exists(k)
  /\ row' = [row EXCEPT ![k].read = TRUE]
  /\ reading' = reading \cup {k}
  /\ opened' = opened \cup {k}
  /\ UNCHANGED <<pc, answered, outside>>

\* ... then GetMessage, GetUserByPubkey and the sender's status; with either
\* lookup failing the update goes to an empty user id and touches nothing.
Receipt(k) ==
  /\ k \in reading
  /\ reading' = reading \ {k}
  /\ \/ SetStatus(SentKey(k[2]), "read")
     \/ "lookup" \in Faults /\ UNCHANGED row
  /\ UNCHANGED <<pc, answered, outside, opened>>

\* handleMTDeleteMessage
DeleteMessage(k) ==
  /\ Exists(k)
  /\ row' = [row EXCEPT ![k].folder = "trash"]
  /\ UNCHANGED <<pc, answered, outside, readers>>

\* The process dies: handlers and goroutines are gone and nothing resumes them.
Crash ==
  /\ "crash" \in Faults
  /\ pc' = [m \in Msg |-> IF pc[m] = "new" THEN "new" ELSE "dead"]
  /\ reading' = {}
  /\ UNCHANGED <<row, answered, outside, opened>>

Step(m) ==
  \/ SaveSent(m) \/ FileLocally(m) \/ FileForNobody(m) \/ CreditLocal(m)
  \/ SpawnPush(m) \/ Answer(m) \/ Build(m) \/ Push(m) \/ PutDone(m)
  \/ DeliverFederated(m) \/ FallBack(m) \/ CreditSent(m) \/ CreditDelivered(m)

Next ==
  \/ \E m \in Msg : Step(m)
  \/ \E k \in User \X Msg : MarkRead(k) \/ Receipt(k) \/ DeleteMessage(k)
  \/ Crash

Spec == Init /\ [][Next]_vars

\* A send that has begun keeps running, in its handler and in its goroutine.
FairSpec ==
  Spec /\ \A m \in Msg : WF_vars(Step(m) /\ pc[m] # "new") /\ WF_vars(Answer(m))
-----------------------------------------------------------------------------
(* Properties *)

\* Every variable keeps its type, and a status update never makes a row appear.
TypeOK ==
  /\ row \in [User \X Msg -> Row]
  /\ pc \in [Msg -> PCs]
  /\ answered \subseteq Msg
  /\ published \subseteq Msg
  /\ recorded \subseteq Msg
  /\ reading \subseteq User \X Msg
  /\ opened \subseteq User \X Msg
  /\ \A k \in User \X Msg : Exists(k) \/ row[k] = NoRow

\* No status is claimed that was not earned: "sent" means a DHT push of the packet
\* succeeded, "delivered" that the recipient has a row here or the recipient's
\* server recorded the packet, and "read", unless the sender marked their own sent copy
\* as read, which handleMTMarkRead takes for a receipt too, that the recipient opened it.
StatusIsEarned ==
  \A m \in Msg : LET status == row[SentKey(m)].status IN
    /\ status = "sent" => m \in published
    /\ status = "delivered" => IF Direct(m) THEN Exists(InboxKey(m)) ELSE m \in recorded
    /\ status = "read" /\ SentKey(m) \notin opened => Direct(m) /\ InboxKey(m) \in opened

\* A send that was answered 202 has left the rows it owes, whatever crashed since: the
\* sender's, which never turns into an inbox row, and, if the recipient was addressed
\* here by key or name, the recipient's, which never turns into a sent row.
AcceptedMailHasItsRows ==
  \A m \in answered :
    /\ m \in ViaHost \/ To[m] # From[m] => row[SentKey(m)].folder \in {"sent", "trash"}
    /\ Direct(m) /\ To[m] # From[m] => row[InboxKey(m)].folder \in {"inbox", "trash"}

\* A message addressed by key or name to a user of the server never reaches the network,
\* whichever store calls fail and whatever crashes: it is delivered here or not at all.
\* (One addressed as user@host does, even if the host is this server.)
LocalMailStaysHome == \A m \in Msg : Direct(m) => m \notin published \cup recorded

\* A copy that says "sending" is right about it: the send is in its handler or goroutine,
\* or the process died with it, or its DHT push failed; a federated send, which has two
\* ways to go, does not even end that way while building and pushing work.
SendingMailIsUnderWay ==
  \A m \in Msg : row[SentKey(m)].status = "sending" =>
    pc[m] \notin {"new", "done"} /\ (m \in ViaHost => pc[m] # "failed")

\* A federated send whose sender has a copy gets out of "sending" although the other
\* server refuses it or its answer is lost, as long as the DHT push works.
FederatedMailSettles ==
  \A m \in ViaHost :
    (m \in answered /\ Exists(SentKey(m)))
      ~> row[SentKey(m)].status \in {"sent", "delivered", "read"}

\* multi_tenant.go: "Remote recipient - build encrypted packet and push to DHT."  Once
\* the goroutine of an accepted send to a key elsewhere has ended, the packet is out.
AcceptedMailIsPublished ==
  \A m \in {n \in Msg : To[n] = Elsewhere} \ ViaHost :
    m \in answered /\ pc[m] \in {"done", "failed"} => m \in published
=============================================================================
