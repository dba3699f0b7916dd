---------------------------- MODULE MCDesktopApp ----------------------------
(***************************************************************************)
(* A small instance of DesktopApp for TLC: two launches with two daemons   *)
(* between them, and one that the user starts by hand.                     *)
(***************************************************************************)
EXTENDS DesktopApp

CONSTANTS i1, i2, p1, p2, p3

Launches == {i1, i2}
Daemons == {p1, p2, p3}
StartedByHand == {p3}
=============================================================================
