-------------------------- MODULE NameRegistryProofs --------------------------
(***************************************************************************)
(* Proofs about NameRegistry, for any number of daemons, peers and         *)
(* requests and an unbounded clock.                                        *)
(***************************************************************************)
EXTENDS NameRegistry, TLAPS

\* Select among two records prefers the first unless the second is earlier.
LEMMA SelectOfTwo ==
  ASSUME TypeOK, NEW r \in Registration, NEW s \in Registration
  PROVE  (Select(<<r, s>>) = 1) <=> stamp[r] <= stamp[s]
<1> DEFINE values == <<r, s>>
           Best(i) == \A j \in DOMAIN values :
                        \/ stamp[values[i]] < stamp[values[j]]
                        \/ stamp[values[i]] = stamp[values[j]] /\ i <= j
<1>1. DOMAIN values = {1, 2} /\ values[1] = r /\ values[2] = s
  OBVIOUS
<1>2. stamp[r] \in Nat /\ stamp[s] \in Nat
  BY DEF TypeOK
<1>3. Best(1) <=> stamp[r] <= stamp[s]
  BY <1>1, <1>2
<1>4. Best(2) <=> stamp[s] < stamp[r]
  BY <1>1, <1>2
<1>5. Select(values) = CHOOSE i \in {1, 2} : Best(i)
  BY <1>1 DEF Select
<1> HIDE DEF values, Best
<1>6. \E i \in {1, 2} : Best(i)
  BY <1>2, <1>3, <1>4
<1>7. Select(values) \in {1, 2} /\ Best(Select(values))
  BY <1>5, <1>6
<1>8. QED
  BY <1>2, <1>3, <1>4, <1>7 DEF values

\* A peer takes a record unless it stores another that is earlier.
LEMMA TakesUnlessEarlier ==
  ASSUME TypeOK, NEW n \in Node, NEW r \in Registration
  PROVE  Takes(n, r) <=> held[n] = NoRecord \/ stamp[r] <= stamp[held[n]]
<1>1. held[n] \in Registration \cup {NoRecord} /\ stamp[r] \in Nat
  BY DEF TypeOK, Value
<1>2. CASE held[n] = NoRecord
  BY <1>2 DEF Takes
<1>3. CASE held[n] = r
  BY <1>1, <1>3 DEF Takes
<1>4. CASE held[n] \in Registration \ {r}
  BY <1>4, SelectOfTwo, ConstantsAssumption DEF Takes
<1>5. QED
  BY <1>1, <1>2, <1>3, <1>4
-----------------------------------------------------------------------------
(* Typing *)

\* Init puts every variable in its type.
LEMMA InitTyped == Init => TypeOK
BY ConstantsAssumption DEF Init, TypeOK, PCs, Value

\* Every step keeps every variable in its type.
LEMMA NextTyped == TypeOK /\ [Next]_vars => TypeOK'
<1> SUFFICES ASSUME TypeOK, [Next]_vars PROVE TypeOK'
  OBVIOUS
<1> USE ConstantsAssumption DEF TypeOK, PCs, Value
<1>1. ASSUME NEW r \in Registration, Register(r) PROVE TypeOK'
  BY <1>1 DEF Register, Goto
<1>2. ASSUME NEW r \in Registration, PutHere(r) PROVE TypeOK'
  <2>1. At[r] \in Node
    OBVIOUS
  <2>2. QED
    BY <1>2, <2>1 DEF PutHere, Offer, Goto
<1>3. ASSUME NEW r \in Registration, NEW n \in Node, PutThere(r, n) PROVE TypeOK'
  BY <1>3 DEF PutThere, Offer
<1>4. ASSUME NEW r \in Registration, PutDone(r) PROVE TypeOK'
  BY <1>4 DEF PutDone, Goto
<1>5. ASSUME NEW r \in Registration, SaveMine(r) PROVE TypeOK'
  <2>1. At[r] \in Node
    OBVIOUS
  <2>2. QED
    BY <1>5, <2>1 DEF SaveMine, SaveName, Goto
<1>6. ASSUME NEW n \in Node, Miss(n) PROVE TypeOK'
  BY <1>6 DEF Miss
<1>7. ASSUME NEW n \in Node, Find(n) PROVE TypeOK'
  <2>1. PICK peers \in SUBSET Node :
          \E r \in Earliest({held[p] : p \in peers \cup {n}} \ {NoRecord}) :
            lookup' = [lookup EXCEPT ![n] = r]
    BY <1>7 DEF Find
  <2>2. PICK r \in Earliest({held[p] : p \in peers \cup {n}} \ {NoRecord}) :
          lookup' = [lookup EXCEPT ![n] = r]
    BY <2>1
  <2>3. r \in Registration
    BY <2>2 DEF Earliest
  <2>4. QED
    BY <1>7, <2>2, <2>3 DEF Find
<1>8. ASSUME NEW n \in Node, FindNothing(n) PROVE TypeOK'
  BY <1>8 DEF FindNothing
<1>9. ASSUME NEW n \in Node, Cache(n) PROVE TypeOK'
  BY <1>9 DEF Cache, SaveName
<1>10. ASSUME NEW n \in Node, Expire(n) PROVE TypeOK'
  BY <1>10 DEF Expire, Forget
<1>11. ASSUME NEW n \in Node, Crash(n) PROVE TypeOK'
  BY <1>11 DEF Crash, Forget
<1>12. ASSUME NEW n \in Node, NEW p \in Node, Repair(p, n) PROVE TypeOK'
  BY <1>12 DEF Repair, Offer
<1>13. ASSUME Tick PROVE TypeOK'
  BY <1>13 DEF Tick
<1>14. CASE UNCHANGED vars
  BY <1>14 DEF vars
<1>15. QED
  BY <1>1, <1>2, <1>3, <1>4, <1>5, <1>6, <1>7, <1>8, <1>9, <1>10, <1>11, <1>12,
     <1>13, <1>14 DEF Next

\* Every variable keeps its type: the names table, the records that the peers store and
\* the registrations and lookups in progress.
THEOREM Typing == Spec => []TypeOK
<1>1. QED
  BY InitTyped, NextTyped, PTL DEF Spec
-----------------------------------------------------------------------------
(* An earlier claim stands *)

\* A request that has not begun has no record that anybody could store.
Unmade == \A r \in Registration : pc[r] = "new" =>
            /\ reached[r] = {}
            /\ \A n \in Node : held[n] # r

ClaimInv == TypeOK /\ Unmade /\ EarlierClaimStands

\* An offer leaves the peer with a record no later than the one offered and the one it had.
LEMMA OfferKeepsEarliest ==
  ASSUME ClaimInv, NEW n \in Node, NEW r \in Registration, pc[r] # "new", Offer(n, r),
         UNCHANGED stamp, \A s \in Registration : pc'[s] = "new" => pc[s] = "new"
  PROVE  Unmade' /\ EarlierClaimStands'
<1> USE DEF ClaimInv
<1>1. /\ held \in [Node -> Registration \cup {NoRecord}]
      /\ stamp \in [Registration -> Nat]
      /\ reached \in [Registration -> SUBSET Node]
      /\ NoRecord \notin Registration
  BY ConstantsAssumption DEF TypeOK, Value
<1>2. held'[n] \in Registration
  BY <1>1, TakesUnlessEarlier DEF Offer
<1>3. stamp[held'[n]] <= stamp[r]
  BY <1>1, TakesUnlessEarlier DEF Offer
<1>4. held[n] # NoRecord => stamp[held'[n]] <= stamp[held[n]]
  BY <1>1, TakesUnlessEarlier DEF Offer
<1>5. \A p \in Node \ {n} : held'[p] = held[p]
  BY <1>1 DEF Offer
<1>6. \A s \in Registration : reached'[s] = IF s = r THEN reached[s] \cup {n} ELSE reached[s]
  BY <1>1 DEF Offer
<1>7. Unmade'
  BY <1>1, <1>5, <1>6 DEF Unmade, Offer
<1>8. ASSUME NEW s \in Registration, NEW p \in reached'[s]
      PROVE  held'[p] # NoRecord /\ stamp'[held'[p]] <= stamp'[s]
  <2>1. p \in Node
    BY <1>1, <1>6, <1>8
  <2>2. CASE p # n
    <3>1. p \in reached[s]
      BY <1>6, <1>8, <2>2
    <3>2. held[p] # NoRecord /\ stamp[held[p]] <= stamp[s]
      BY <3>1 DEF EarlierClaimStands
    <3>3. held'[p] = held[p]
      BY <1>5, <2>1, <2>2
    <3>4. QED
      BY <3>2, <3>3
  <2>3. CASE p = n /\ n \in reached[s]
    <3>1. held[n] # NoRecord /\ stamp[held[n]] <= stamp[s]
      BY <2>3 DEF EarlierClaimStands
    <3>2. held[n] \in Registration
      BY <1>1, <3>1
    <3>3. stamp[held'[n]] \in Nat /\ stamp[held[n]] \in Nat /\ stamp[s] \in Nat
      BY <1>1, <1>2, <3>2
    <3>4. stamp[held'[n]] <= stamp[s]
      BY <1>4, <3>1, <3>3
    <3>5. QED
      BY <1>1, <1>2, <2>3, <3>4
  <2>4. CASE p = n /\ n \notin reached[s]
    BY <1>1, <1>2, <1>3, <1>6, <1>8, <2>4
  <2>5. QED
    BY <2>2, <2>3, <2>4
<1>9. QED
  BY <1>7, <1>8 DEF EarlierClaimStands

\* Nothing an action does without an offer can make a record later, or have a peer
\* store one: at most some peer forgets.
LEMMA ForgetKeepsEarliest ==
  ASSUME ClaimInv, NEW n \in Node, Forget(n),
         UNCHANGED stamp, \A s \in Registration : pc'[s] = "new" => pc[s] = "new"
  PROVE  Unmade' /\ EarlierClaimStands'
<1> USE DEF ClaimInv
<1>1. /\ held \in [Node -> Registration \cup {NoRecord}]
      /\ reached \in [Registration -> SUBSET Node]
      /\ NoRecord \notin Registration
  BY ConstantsAssumption DEF TypeOK, Value
<1>2. \A p \in Node : held'[p] = IF p = n THEN NoRecord ELSE held[p]
  BY <1>1 DEF Forget
<1>3. \A s \in Registration : reached'[s] = reached[s] \ {n}
  BY DEF Forget
<1>4. Unmade'
  BY <1>1, <1>2, <1>3 DEF Unmade
<1>5. EarlierClaimStands'
  BY <1>1, <1>2, <1>3 DEF EarlierClaimStands
<1>6. QED
  BY <1>4, <1>5

\* ClaimInv is inductive.
LEMMA NextKeepsClaims == ClaimInv /\ [Next]_vars => ClaimInv'
<1> SUFFICES ASSUME ClaimInv, [Next]_vars PROVE ClaimInv'
  OBVIOUS
<1>1. TypeOK'
  BY NextTyped DEF ClaimInv
<1>2. pc \in [Registration -> PCs]
  BY DEF ClaimInv, TypeOK
<1> USE DEF ClaimInv
<1>3. ASSUME NEW r \in Registration, Register(r) PROVE Unmade' /\ EarlierClaimStands'
  <2>1. /\ \A s \in Registration : pc'[s] = IF s = r THEN "pow" ELSE pc[s]
        /\ \A s \in Registration \ {r} : stamp'[s] = stamp[s]
    BY <1>2, <1>3 DEF Register, Goto, TypeOK
  <2>2. reached[r] = {} /\ \A n \in Node : held[n] # r
    BY <1>3 DEF Unmade, Register
  <2>3. \A s \in Registration : \A n \in reached[s] :
          s # r /\ n \in Node /\ held[n] \in Registration \ {r}
    BY <2>2 DEF EarlierClaimStands, TypeOK, Value
  <2>4. UNCHANGED <<held, reached>>
    BY <1>3 DEF Register
  <2>5. Unmade'
    BY <2>1, <2>4 DEF Unmade
  <2>6. EarlierClaimStands'
    BY <2>1, <2>3, <2>4 DEF EarlierClaimStands
  <2>7. QED
    BY <2>5, <2>6
<1>4. ASSUME NEW r \in Registration, PutHere(r) PROVE Unmade' /\ EarlierClaimStands'
  <2>1. At[r] \in Node /\ UNCHANGED stamp /\ pc[r] # "new"
    BY <1>4, ConstantsAssumption DEF PutHere
  <2>2. \A s \in Registration : pc'[s] = "new" => pc[s] = "new"
    BY <1>2, <1>4 DEF PutHere, Goto
  <2>3. CASE Offer(At[r], r)
    BY <2>1, <2>2, <2>3, OfferKeepsEarliest
  <2>4. CASE UNCHANGED <<held, reached>>
    BY <2>1, <2>2, <2>4 DEF Unmade, EarlierClaimStands
  <2>5. QED
    BY <1>4, <2>3, <2>4 DEF PutHere
<1>5. ASSUME NEW r \in Registration, NEW n \in Node, PutThere(r, n)
      PROVE  Unmade' /\ EarlierClaimStands'
  BY <1>5, OfferKeepsEarliest DEF PutThere
<1>6. ASSUME NEW n \in Node, NEW p \in Node, Repair(p, n)
      PROVE  Unmade' /\ EarlierClaimStands'
  <2>1. held[p] \in Registration
    BY <1>6 DEF Repair, TypeOK, Value
  <2>2. pc[held[p]] # "new"
    BY <2>1 DEF Unmade
  <2>3. QED
    BY <1>6, <2>1, <2>2, OfferKeepsEarliest DEF Repair
<1>7. ASSUME NEW n \in Node, Expire(n) PROVE Unmade' /\ EarlierClaimStands'
  BY <1>7, ForgetKeepsEarliest DEF Expire
<1>8. ASSUME NEW n \in Node, Crash(n) PROVE Unmade' /\ EarlierClaimStands'
  <2>1. \A s \in Registration : pc'[s] = "new" => pc[s] = "new"
    BY <1>8 DEF Crash
  <2>2. QED
    BY <1>8, <2>1, ForgetKeepsEarliest DEF Crash
<1>9. ASSUME NEW r \in Registration, PutDone(r) \/ SaveMine(r)
      PROVE  Unmade' /\ EarlierClaimStands'
  <2>1. \A s \in Registration : pc'[s] = "new" => pc[s] = "new"
    BY <1>2, <1>9 DEF PutDone, SaveMine, Goto
  <2>2. UNCHANGED <<held, reached, stamp>>
    BY <1>9 DEF PutDone, SaveMine
  <2>3. QED
    BY <2>1, <2>2 DEF Unmade, EarlierClaimStands
<1>10. ASSUME UNCHANGED <<held, reached, stamp, pc>>
       PROVE  Unmade' /\ EarlierClaimStands'
  BY <1>10 DEF Unmade, EarlierClaimStands
<1>11. ASSUME NEW n \in Node, Miss(n) \/ Find(n) \/ FindNothing(n) \/ Cache(n)
       PROVE  UNCHANGED <<held, reached, stamp, pc>>
  BY <1>11 DEF Miss, Find, FindNothing, Cache
<1>12. ASSUME Tick \/ UNCHANGED vars
       PROVE  UNCHANGED <<held, reached, stamp, pc>>
  BY <1>12 DEF Tick, vars
<1>13. QED
  BY <1>1, <1>3, <1>4, <1>5, <1>6, <1>7, <1>8, <1>9, <1>10, <1>11, <1>12 DEF Next

\* Whatever order registrations are stamped, published and repaired in, a peer that was
\* offered a record and has lost nothing since stores one that is no later.
THEOREM ClaimsStand == Spec => []EarlierClaimStands
<1>1. Init => ClaimInv
  <2>1. Init => Unmade /\ EarlierClaimStands
    BY ConstantsAssumption DEF Init, Unmade, EarlierClaimStands
  <2>2. QED
    BY <2>1, InitTyped DEF ClaimInv
<1>2. ClaimInv => EarlierClaimStands
  BY DEF ClaimInv
<1>3. QED
  BY <1>1, <1>2, NextKeepsClaims, PTL DEF Spec
-----------------------------------------------------------------------------
(* Lookups *)

\* What a lookup finds is no later than any record its own peer was offered.
FindsEarlier ==
  \A n \in Node : lookup[n] = "miss" /\ lookup'[n] \in Registration =>
    \A r \in Registration : n \in reached[r] => stamp[lookup'[n]] <= stamp[r]

\* The only step that finds something is Find, and it finds no later record than the
\* one of its own peer.
LEMMA FindFindsEarlier ==
  ASSUME ClaimInv, NEW n \in Node, Find(n)
  PROVE  FindsEarlier
<1> USE DEF ClaimInv
<1>1. PICK peers \in SUBSET Node :
        \E r \in Earliest({held[p] : p \in peers \cup {n}} \ {NoRecord}) :
          lookup' = [lookup EXCEPT ![n] = r]
  BY DEF Find
<1>2. PICK found \in Earliest({held[p] : p \in peers \cup {n}} \ {NoRecord}) :
        lookup' = [lookup EXCEPT ![n] = found]
  BY <1>1
<1>3. lookup'[n] = found /\ \A m \in Node \ {n} : lookup'[m] = lookup[m]
  BY <1>2 DEF TypeOK
<1>4. held[n] # NoRecord => stamp[found] <= stamp[held[n]]
  BY <1>2 DEF Earliest
<1>5. found \in Registration
  BY <1>2 DEF Earliest, TypeOK, Value
<1>6. ASSUME NEW r \in Registration, n \in reached[r] PROVE stamp[found] <= stamp[r]
  <2>1. held[n] # NoRecord /\ stamp[held[n]] <= stamp[r]
    BY <1>6 DEF EarlierClaimStands
  <2>2. held[n] \in Registration
    BY <2>1 DEF TypeOK, Value
  <2>3. stamp[found] \in Nat /\ stamp[held[n]] \in Nat /\ stamp[r] \in Nat
    BY <1>5, <2>2 DEF TypeOK
  <2>4. QED
    BY <1>4, <2>1, <2>3
<1>7. ASSUME NEW m \in Node \ {n} PROVE ~(lookup[m] = "miss" /\ lookup'[m] \in Registration)
  BY <1>3, ConstantsAssumption
<1>8. QED
  BY <1>3, <1>6, <1>7 DEF FindsEarlier

\* A lookup never comes back with a claim later than one its own peer knew of, whichever
\* of the other peers it reached.
THEOREM LookupsFindEarlier == Spec => LookupFindsEarlierClaim
<1>1. Init => ClaimInv
  <2>1. Init => Unmade /\ EarlierClaimStands
    BY ConstantsAssumption DEF Init, Unmade, EarlierClaimStands
  <2>2. QED
    BY <2>1, InitTyped DEF ClaimInv
<1>2. ClaimInv /\ [Next]_vars => [FindsEarlier]_vars
  <2> SUFFICES ASSUME ClaimInv, Next PROVE FindsEarlier
    OBVIOUS
  <2>1. ASSUME NEW n \in Node, Find(n) PROVE FindsEarlier
    BY <2>1, FindFindsEarlier
  <2>2. ASSUME \A n \in Node : lookup'[n] = lookup[n] \/ lookup'[n] \in {"idle", "miss"}
        PROVE  FindsEarlier
    BY <2>2, ConstantsAssumption DEF FindsEarlier
  <2>3. ASSUME NEW n \in Node, Miss(n) \/ FindNothing(n) \/ Cache(n) \/ Crash(n) \/ Expire(n)
        PROVE  \A m \in Node : lookup'[m] = lookup[m] \/ lookup'[m] \in {"idle", "miss"}
    BY <2>3 DEF Miss, FindNothing, Cache, Crash, Expire, ClaimInv, TypeOK
  <2>4. ASSUME NEW r \in Registration,
               \/ Register(r) \/ PutHere(r) \/ PutDone(r) \/ SaveMine(r)
               \/ \E n \in Node : PutThere(r, n)
        PROVE  UNCHANGED lookup
    BY <2>4 DEF Register, PutHere, PutDone, SaveMine, PutThere
  <2>5. ASSUME NEW n \in Node, NEW p \in Node, Repair(p, n) PROVE UNCHANGED lookup
    BY <2>5 DEF Repair
  <2>6. ASSUME Tick PROVE UNCHANGED lookup
    BY <2>6 DEF Tick
  <2>7. QED
    BY <2>1, <2>2, <2>3, <2>4, <2>5, <2>6 DEF Next
<1>3. QED
  BY <1>1, <1>2, NextKeepsClaims, PTL DEF Spec, LookupFindsEarlierClaim, FindsEarlier
-----------------------------------------------------------------------------
(* The names a daemon lists as its own *)

MineInv == TypeOK /\ MineIsEarned

\* MineIsEarned is inductive with the types.
LEMMA NextKeepsMine == MineInv /\ [Next]_vars => MineInv'
<1> SUFFICES ASSUME MineInv, [Next]_vars PROVE MineInv'
  OBVIOUS
<1>1. TypeOK'
  BY NextTyped DEF MineInv
<1>2. /\ pc \in [Registration -> PCs]
      /\ row \in [Node -> Registration \cup {NoRecord}]
      /\ mine \subseteq Node
      /\ NoRecord \notin Registration
  BY ConstantsAssumption DEF MineInv, TypeOK, Value
<1> USE DEF MineInv
<1>3. ASSUME UNCHANGED <<row, mine>>, \A s \in Registration : pc[s] = "saved" => pc'[s] = "saved"
      PROVE  MineIsEarned'
  BY <1>2, <1>3 DEF MineIsEarned
<1>4. ASSUME NEW r \in Registration,
             \/ Register(r) \/ PutHere(r) \/ PutDone(r)
             \/ \E n \in Node : PutThere(r, n)
      PROVE  /\ UNCHANGED <<row, mine>>
             /\ \A s \in Registration : pc[s] = "saved" => pc'[s] = "saved"
  BY <1>2, <1>4 DEF Register, PutHere, PutDone, PutThere, Goto
<1>5. ASSUME NEW r \in Registration, SaveMine(r) PROVE MineIsEarned'
  <2>1. \A s \in Registration : pc[s] = "saved" => pc'[s] = "saved"
    BY <1>2, <1>5 DEF SaveMine, Goto
  <2>2. CASE UNCHANGED <<row, mine>>
    BY <1>3, <2>1, <2>2
  <2>3. CASE SaveName(At[r], r, TRUE) /\ Goto(r, "saved")
    <3>1. At[r] \in Node /\ pc'[r] = "saved"
      BY <1>2, <2>3, ConstantsAssumption DEF Goto
    <3>2. \A n \in Node : row'[n] = IF n = At[r] THEN r ELSE row[n]
      BY <1>2, <2>3 DEF SaveName
    <3>3. mine' = mine \cup {At[r]}
      BY <2>3 DEF SaveName
    <3>4. ASSUME NEW n \in mine'
          PROVE  row'[n] # NoRecord /\ At[row'[n]] = n /\ pc'[row'[n]] = "saved"
      <4>1. CASE n = At[r]
        BY <1>2, <3>1, <3>2, <4>1
      <4>2. CASE n # At[r]
        <5>1. n \in mine /\ n \in Node /\ row'[n] = row[n]
          BY <1>2, <3>2, <3>3, <3>4, <4>2
        <5>2. row[n] # NoRecord /\ At[row[n]] = n /\ pc[row[n]] = "saved"
          BY <5>1 DEF MineIsEarned
        <5>3. row[n] \in Registration
          BY <1>2, <5>1, <5>2
        <5>4. QED
          BY <2>1, <5>1, <5>2, <5>3
      <4>3. QED
        BY <4>1, <4>2
    <3>5. QED
      BY <3>4 DEF MineIsEarned
  <2>4. QED
    BY <1>5, <2>2, <2>3 DEF SaveMine
<1>6. ASSUME NEW n \in Node, Cache(n) PROVE MineIsEarned'
  <2>1. UNCHANGED pc
    BY <1>6 DEF Cache
  <2>2. CASE UNCHANGED <<row, mine>>
    BY <1>3, <2>1, <2>2
  <2>3. CASE SaveName(n, lookup[n], FALSE)
    <3>1. mine' = mine \ {n} /\ \A m \in Node \ {n} : row'[m] = row[m]
      BY <1>2, <2>3 DEF SaveName
    <3>2. QED
      BY <1>2, <2>1, <3>1 DEF MineIsEarned
  <2>4. QED
    BY <1>6, <2>2, <2>3 DEF Cache
<1>7. ASSUME NEW n \in Node, Crash(n)
      PROVE  /\ UNCHANGED <<row, mine>>
             /\ \A s \in Registration : pc[s] = "saved" => pc'[s] = "saved"
  BY <1>7 DEF Crash
<1>8. ASSUME NEW n \in Node,
             \/ Miss(n) \/ Find(n) \/ FindNothing(n) \/ Expire(n)
             \/ \E p \in Node : Repair(p, n)
      PROVE  UNCHANGED <<row, mine, pc>>
  BY <1>8 DEF Miss, Find, FindNothing, Expire, Repair
<1>9. ASSUME Tick \/ UNCHANGED vars PROVE UNCHANGED <<row, mine, pc>>
  BY <1>9 DEF Tick, vars
<1>10. QED
  BY <1>1, <1>3, <1>4, <1>5, <1>6, <1>7, <1>8, <1>9 DEF Next

\* A daemon lists a name as its user's own only with a record it made and published.
THEOREM MineEarned == Spec => []MineIsEarned
<1>1. Init => MineInv
  <2>1. Init => MineIsEarned
    BY DEF Init, MineIsEarned
  <2>2. QED
    BY <2>1, InitTyped DEF MineInv
<1>2. MineInv => MineIsEarned
  BY DEF MineInv
<1>3. QED
  BY <1>1, <1>2, NextKeepsMine, PTL DEF Spec
=============================================================================
