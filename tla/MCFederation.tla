----------------------------- MODULE MCFederation -----------------------------
(***************************************************************************)
(* Small instances of Federation for TLC.                                  *)
(***************************************************************************)
EXTENDS Federation

CONSTANTS alice, bob, m1

JustAlice == {alice}
JustBob == {bob}
OneMsg == {m1}
OnlyFirst == {m1}
FromAlice == [m \in Msg |-> alice]
ToBob == [m \in Msg |-> bob]
=============================================================================
