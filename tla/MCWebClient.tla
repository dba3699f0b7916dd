----------------------------- MODULE MCWebClient -----------------------------
(***************************************************************************)
(* Small instances of WebClient for TLC.                                   *)
(***************************************************************************)
EXTENDS WebClient, TLC

CONSTANTS ann, ben, u1, u2, t1, t2, t3

TwoPeople == {ann, ben}
TwoNames == {u1, u2}
ThreeTabs == {t1, t2, t3}

\* Ann has two tabs open, Ben one.
AnnHasTwo == (t1 :> ann) @@ (t2 :> ann) @@ (t3 :> ben)
=============================================================================
