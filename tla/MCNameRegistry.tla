--------------------------- MODULE MCNameRegistry ---------------------------
(***************************************************************************)
(* A small instance of NameRegistry for TLC.                               *)
(***************************************************************************)
EXTENDS NameRegistry, TLC

CONSTANTS server, home, r1, r2, r3

\* Two users of a server and the user of a single-user daemon want the same name.
Daemons == {server, home}
Servers == {server}
Requests == {r1, r2, r3}
TwoAtTheServer == (r1 :> server) @@ (r2 :> server) @@ (r3 :> home)
=============================================================================
