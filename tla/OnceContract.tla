---------------------------- MODULE OnceContract ----------------------------
(***************************************************************************)
(* What single-user daemons promise about a mail from one to another,      *)
(* whatever the network does and whichever of them crashes: at-most-once   *)
(* delivery.                                                               *)
(*                                                                         *)
(*   accepted  mails some user has sent                                    *)
(*   mailbox   the addressee's copy of each mail                           *)
(*                                                                         *)
(* Compare MailContract, the weaker promise of the multi-tenant server: a  *)
(* copy is never filed twice here, so it never returns from the trash and  *)
(* never turns unread.                                                     *)
(***************************************************************************)
CONSTANT Mail

VARIABLES accepted, mailbox

vars == <<accepted, mailbox>>

NoCopy == [folder |-> "none", read |-> FALSE]
FreshCopy == [folder |-> "inbox", read |-> FALSE]

Init ==
  /\ accepted = {}
  /\ mailbox = [m \in Mail |-> NoCopy]

Accept(m) ==
  /\ accepted' = accepted \cup {m}
  /\ UNCHANGED mailbox

\* The addressee's daemon files the mail, once.
Deliver(m) ==
  /\ m \in accepted
  /\ mailbox[m] = NoCopy
  /\ mailbox' = [mailbox EXCEPT ![m] = FreshCopy]
  /\ UNCHANGED accepted

\* The addressee reads or trashes the copy.
Touch(m) ==
  /\ mailbox[m] # NoCopy
  /\ mailbox' \in {[mailbox EXCEPT ![m].read = TRUE],
                   [mailbox EXCEPT ![m].folder = "trash"]}
  /\ UNCHANGED accepted

Next == \E m \in Mail : Accept(m) \/ Deliver(m) \/ Touch(m)

Spec == Init /\ [][Next]_vars
=============================================================================
