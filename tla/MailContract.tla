---------------------------- MODULE MailContract ----------------------------
(***************************************************************************)
(* What the multi-tenant server promises about a packet addressed to one   *)
(* of its users, whatever the interleaving of its handlers and whatever    *)
(* crashes: at-least-once filing.                                          *)
(*                                                                         *)
(*   known     packets the server has recorded durably, ever               *)
(*   promised  packets whose sender was told "delivered"                   *)
(*   owed      recorded packets the server still has to deal with          *)
(*   mailbox   the recipient's copy of each packet                         *)
(*                                                                         *)
(* A packet stops being owed only once the recipient has a copy, or if it  *)
(* cannot be decrypted with the recipient's key.  A copy may be filed more *)
(* than once, and is never removed.                                        *)
(***************************************************************************)
CONSTANTS Packet,   \* packets that pass verification
          Readable  \* those the recipient's key decrypts

VARIABLES known, promised, owed, mailbox

vars == <<known, promised, owed, mailbox>>

NoRow == [folder |-> "none", read |-> FALSE]
FreshRow == [folder |-> "inbox", read |-> FALSE]
Filed(p) == mailbox[p].folder # "none"

Init ==
  /\ known = {}
  /\ promised = {}
  /\ owed = {}
  /\ mailbox = [p \in Packet |-> NoRow]

\* The server records p: it now owes it to the recipient.
Record(p) ==
  /\ known' = known \cup {p}
  /\ owed' = owed \cup {p}
  /\ UNCHANGED <<promised, mailbox>>

\* The sender of a recorded packet is told it was delivered.
Promise(p) ==
  /\ p \in known
  /\ promised' = promised \cup {p}
  /\ UNCHANGED <<known, owed, mailbox>>

\* The recipient's copy is written, or written again.
File(p) ==
  /\ p \in known \cap Readable
  /\ mailbox' = [mailbox EXCEPT ![p] = FreshRow]
  /\ UNCHANGED <<known, promised, owed>>

\* The server is done with p.
Settle(p) ==
  /\ p \in Readable => Filed(p)
  /\ owed' = owed \ {p}
  /\ UNCHANGED <<known, promised, mailbox>>

\* The recipient reads or trashes the copy.
Touch(p) ==
  /\ Filed(p)
  /\ mailbox' \in {[mailbox EXCEPT ![p].read = TRUE],
                   [mailbox EXCEPT ![p].folder = "trash"]}
  /\ UNCHANGED <<known, promised, owed>>

Next ==
  \E p \in Packet : Record(p) \/ Promise(p) \/ File(p) \/ Settle(p) \/ Touch(p)

Spec == Init /\ [][Next]_vars
=============================================================================
