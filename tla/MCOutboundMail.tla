--------------------------- MODULE MCOutboundMail ---------------------------
(***************************************************************************)
(* Small instances of OutboundMail for TLC.                                *)
(***************************************************************************)
EXTENDS OutboundMail, TLC

CONSTANTS alice, bob, m1, m2, m3

Users == {alice, bob}
OnlyAlice == {alice}
FromAlice == [m \in Msg |-> alice]

\* m1 goes to bob, m2 to a key elsewhere, m3 to user@host: to a host elsewhere, or to
\* bob at this server's own host.
KeyAndFederated == {m2, m3}
LocalAndFederated == {m1, m3}
ToKey == {m2}
FirstAndThirdLocal == [m \in Msg |-> IF m \in {m1, m3} THEN bob ELSE Elsewhere]
OnlyFirstLocal == [m \in Msg |-> IF m = m1 THEN bob ELSE Elsewhere]
ThirdViaHost == {m3}
NoneViaHost == {}
=============================================================================
