---------------------------- MODULE MCDesktopMail ----------------------------
(***************************************************************************)
(* Small instances of DesktopMail for TLC.                                 *)
(***************************************************************************)
EXTENDS DesktopMail, TLC

CONSTANTS alice, bob, m1, m2, hello

\* Alice and Bob greet each other with the same subject.
Pair == {alice, bob}
TwoMails == {m1, m2}
OneSubject == {hello}
Greeting == [m \in Mail |-> hello]
FirstFromAlice == (m1 :> alice) @@ (m2 :> bob)
FirstToBob == (m1 :> bob) @@ (m2 :> alice)

\* Alice mails Bob, and Bob mails himself.
BothToBob == [m \in Mail |-> bob]
=============================================================================
