----------------------------- MODULE NameRegistry -----------------------------
(***************************************************************************)
(* How one .dmail name is registered and resolved by daemons over the DHT. *)
(* Names do not interact, so the module is about one name.                 *)
(*                                                                         *)
(* A registration is stamped when its proof of work starts and published   *)
(* when it is found, minutes later.  The DHT has no owner of a name: each  *)
(* peer keeps the earliest stamp it was ever offered.  Every daemon has a  *)
(* names table with one row for the name, which registrations and lookups  *)
(* both replace, and a cached row answers every later lookup.              *)
(*                                                                         *)
(* A record is the registration that made it.  Names and keys are valid    *)
(* (ValidateName and VerifyNameRecord reject others before anything is     *)
(* stored), and every daemon is a peer of the DHT.                         *)
(***************************************************************************)
EXTENDS Integers, FiniteSets

CONSTANTS
  Node,          \* daemons, each a peer of the DHT
  Hosted,        \* daemons that run in multi-tenant mode
  Registration,  \* requests to register the name
  At,            \* At[r]: the daemon that handles request r
  Faults,        \* the calls that may fail, and the losses, in this instance
  MaxTime,       \* bound on the clock
  NoRecord

ASSUME ConstantsAssumption ==
  /\ Hosted \subseteq Node
  /\ At \in [Registration -> Node]
  /\ Registration \cap {NoRecord, "idle", "miss"} = {}
  /\ MaxTime \in Nat
  /\ Faults \subseteq {"put", "save", "expire", "crash"}

VARIABLES
  clock,    \* the time in seconds, the same everywhere
  stamp,    \* stamp[r]: the timestamp of r's record, 0 until it has one
  pc,       \* where the goroutine of each registration is
  held,     \* held[n]: the record peer n stores, in memory
  reached,  \* history: the peers that were offered r's record and lost nothing since
  row,      \* row[n]: the record in n's names table
  mine,     \* the daemons whose row has is_mine set
  lookup    \* lookup[n]: "idle", "miss" after the table had no row, or the record found

vars == <<clock, stamp, pc, held, reached, row, mine, lookup>>

PCs == {"new", "pow", "putting", "put", "saved", "failed"}

Value == Registration \cup {NoRecord}

\* namesValidator.Select over values in order: the earliest stamp, of equal ones the first.
Select(values) ==
  CHOOSE i \in DOMAIN values :
    \A j \in DOMAIN values :
      \/ stamp[values[i]] < stamp[values[j]]
      \/ stamp[values[i]] = stamp[values[j]] /\ i <= j

\* Mutant of Takes: the newest record wins, as in dmailValidator.
TakesLatest(n, r) ==
  held[n] \in {NoRecord, r} \/ stamp[r] >= stamp[held[n]]

\* A peer asked to store a record compares it with the one it has.
Takes(n, r) ==
  held[n] \in {NoRecord, r} \/ Select(<<r, held[n]>>) = 1

\* A put of r's record at peer n, by its registrant or by somebody who found it.
Offer(n, r) ==
  /\ held' = [held EXCEPT ![n] = IF Takes(n, r) THEN r ELSE @]
  /\ reached' = [reached EXCEPT ![r] = @ \cup {n}]

\* SaveName: INSERT OR REPLACE of the row with its is_mine
SaveName(n, r, isMine) ==
  /\ row' = [row EXCEPT ![n] = r]
  /\ mine' = IF isMine THEN mine \cup {n} ELSE mine \ {n}

Goto(r, where) == pc' = [pc EXCEPT ![r] = where]

Init ==
  /\ clock = 1
  /\ stamp = [r \in Registration |-> 0]
  /\ pc = [r \in Registration |-> "new"]
  /\ held = [n \in Node |-> NoRecord]
  /\ reached = [r \in Registration |-> {}]
  /\ row = [n \in Node |-> NoRecord]
  /\ mine = {}
  /\ lookup = [n \in Node |-> "idle"]
-----------------------------------------------------------------------------
(* RegisterName and handleMTRegisterName *)

\* The handler answers 202; BuildNameRecord stamps the record, then computes.
Register(r) ==
  /\ pc[r] = "new"
  /\ stamp' = [stamp EXCEPT ![r] = clock]
  /\ Goto(r, "pow")
  /\ UNCHANGED <<clock, held, reached, row, mine, lookup>>

\* The work, some ten minutes, is done; PutValue stores in the daemon's own node,
\* unless that node has an earlier record.  A single-user daemon goes no further: the
\* put runs under the context of the request, over as soon as the handler answered.
PutHere(r) ==
  /\ pc[r] = "pow"
  /\ clock > stamp[r]
  /\ IF Takes(At[r], r)
     THEN /\ Offer(At[r], r)
          /\ Goto(r, IF At[r] \in Hosted THEN "putting" ELSE "failed")
     ELSE /\ Goto(r, "failed")
          /\ UNCHANGED <<held, reached>>
  /\ UNCHANGED <<clock, stamp, row, mine, lookup>>

\* PutValue hands the record to one of the other peers.
PutThere(r, n) ==
  /\ pc[r] = "putting"
  /\ n \notin reached[r]
  /\ Offer(n, r)
  /\ UNCHANGED <<clock, stamp, pc, row, mine, lookup>>

\* PutValue ends: whatever the peers answered is success, but the search for them,
\* or the 30 seconds, may end in an error.
PutDone(r) ==
  /\ pc[r] = "putting"
  /\ \/ Goto(r, "put")
     \/ "put" \in Faults /\ Goto(r, "failed")
  /\ UNCHANGED <<clock, stamp, held, reached, row, mine, lookup>>

\* SaveName of the own name; its error ends the goroutine, silently in multi-tenant mode.
SaveMine(r) ==
  /\ pc[r] = "put"
  /\ \/ /\ SaveName(At[r], r, TRUE)
        /\ Goto(r, "saved")
     \/ /\ "save" \in Faults
        /\ Goto(r, "failed")
        /\ UNCHANGED <<row, mine>>
  /\ UNCHANGED <<clock, stamp, held, reached, lookup>>
-----------------------------------------------------------------------------
(* ResolveName and ResolveNameForUser, one lookup per daemon at a time *)

\* GetName has no row; with one the lookup is answered from it and changes nothing.
Miss(n) ==
  /\ lookup[n] = "idle"
  /\ row[n] = NoRecord
  /\ lookup' = [lookup EXCEPT ![n] = "miss"]
  /\ UNCHANGED <<clock, stamp, pc, held, reached, row, mine>>

\* GetValue answers with a best record among those of the peers it reaches and its own.
Earliest(found) == {r \in found : \A s \in found : stamp[r] <= stamp[s]}

\* Mutant of Find: takes the first answer, whatever it is.
FindAny(n) ==
  /\ lookup[n] = "miss"
  /\ \E p \in Node : lookup' = [lookup EXCEPT ![n] = held[p]]
  /\ UNCHANGED <<clock, stamp, pc, held, reached, row, mine>>

Find(n) ==
  /\ lookup[n] = "miss"
  /\ \E peers \in SUBSET Node :
       \E r \in Earliest({held[p] : p \in peers \cup {n}} \ {NoRecord}) :
         lookup' = [lookup EXCEPT ![n] = r]
  /\ UNCHANGED <<clock, stamp, pc, held, reached, row, mine>>

\* Nothing is found in ten seconds: the lookup answers an error.
FindNothing(n) ==
  /\ lookup[n] = "miss"
  /\ lookup' = [lookup EXCEPT ![n] = "idle"]
  /\ UNCHANGED <<clock, stamp, pc, held, reached, row, mine>>

\* Mutant of Cache: the row is updated in place and keeps its is_mine.
CacheInPlace(n) ==
  /\ lookup[n] \in Registration
  /\ lookup' = [lookup EXCEPT ![n] = "idle"]
  /\ \/ SaveName(n, lookup[n], n \in mine)
     \/ "save" \in Faults /\ UNCHANGED <<row, mine>>
  /\ UNCHANGED <<clock, stamp, pc, held, reached>>

\* The record is cached, its error ignored, and its key answered.
Cache(n) ==
  /\ lookup[n] \in Registration
  /\ lookup' = [lookup EXCEPT ![n] = "idle"]
  /\ \/ SaveName(n, lookup[n], FALSE)
     \/ "save" \in Faults /\ UNCHANGED <<row, mine>>
  /\ UNCHANGED <<clock, stamp, pc, held, reached>>
-----------------------------------------------------------------------------
(* The DHT, the clock and the machines *)

\* A lookup that reached p and q gives q the record of p if that is better.
Repair(p, q) ==
  /\ held[p] # NoRecord
  /\ held[q] # held[p]
  /\ Offer(q, held[p])
  /\ UNCHANGED <<clock, stamp, pc, row, mine, lookup>>

\* Peer n drops a record that is too old; nothing in the daemon publishes it again.
Forget(n) ==
  /\ held' = [held EXCEPT ![n] = NoRecord]
  /\ reached' = [r \in Registration |-> reached[r] \ {n}]

Expire(n) ==
  /\ "expire" \in Faults
  /\ held[n] # NoRecord
  /\ Forget(n)
  /\ UNCHANGED <<clock, stamp, pc, row, mine, lookup>>

\* The daemon dies and restarts: the names table survives, its goroutines and the
\* records of its node do not.
Crash(n) ==
  /\ "crash" \in Faults
  /\ Forget(n)
  /\ lookup' = [lookup EXCEPT ![n] = "idle"]
  /\ pc' = [r \in Registration |->
              IF At[r] = n /\ pc[r] \in {"pow", "putting", "put"} THEN "failed" ELSE pc[r]]
  /\ UNCHANGED <<clock, stamp, row, mine>>

Tick ==
  /\ clock < MaxTime
  /\ clock' = clock + 1
  /\ UNCHANGED <<stamp, pc, held, reached, row, mine, lookup>>

Next ==
  \/ \E r \in Registration : \/ Register(r) \/ PutHere(r) \/ PutDone(r) \/ SaveMine(r)
                             \/ \E n \in Node : PutThere(r, n)
  \/ \E n \in Node : \/ Miss(n) \/ Find(n) \/ FindNothing(n) \/ Cache(n)
                     \/ Expire(n) \/ Crash(n)
                     \/ \E p \in Node : Repair(p, n)
  \/ Tick

Spec == Init /\ [][Next]_vars
-----------------------------------------------------------------------------
(* Properties *)

TypeOK ==
  /\ clock \in Nat \ {0}
  /\ stamp \in [Registration -> Nat]
  /\ pc \in [Registration -> PCs]
  /\ held \in [Node -> Value]
  /\ reached \in [Registration -> SUBSET Node]
  /\ row \in [Node -> Value]
  /\ mine \subseteq Node
  /\ lookup \in [Node -> Registration \cup {"idle", "miss"}]

\* A peer that was offered a record, by its registrant or by a lookup's repair, and
\* has lost nothing since, stores one that is at least as early: no later claim to
\* the name displaces it, whatever order the puts come in.
EarlierClaimStands ==
  \A r \in Registration : \A n \in reached[r] :
    held[n] # NoRecord /\ stamp[held[n]] <= stamp[r]

\* What a lookup finds is no later than any record its own peer was offered, whichever
\* other peers answer it.
LookupFindsEarlierClaim ==
  [][\A n \in Node : lookup[n] = "miss" /\ lookup'[n] \in Registration =>
       \A r \in Registration : n \in reached[r] => stamp[lookup'[n]] <= stamp[r]]_vars

\* The name is listed as the user's own only where the row is a record that this
\* daemon made and published, although lookups replace the same row.
MineIsEarned ==
  \A n \in mine : /\ row[n] # NoRecord
                  /\ At[row[n]] = n
                  /\ pc[row[n]] = "saved"
=============================================================================
