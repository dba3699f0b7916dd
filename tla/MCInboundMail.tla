---------------------------- MODULE MCInboundMail ----------------------------
(***************************************************************************)
(* Small instances of InboundMail for TLC.                                 *)
(***************************************************************************)
EXTENDS InboundMail, TLC

CONSTANTS u1, u2, p1, p2

\* One user, one good packet and one the key does not open.
OneUser == {u1}
OneUserTo == (p1 :> u1) @@ (p2 :> u1)
TwoPackets == {p1, p2}
OnlyFirst == {p1}

\* Two users with a packet each.
TwoUsers == {u1, u2}
EachToOwn == (p1 :> u1) @@ (p2 :> u2)
=============================================================================
