--------------------------- MODULE WebClientProofs ---------------------------
(***************************************************************************)
(* Proofs about WebClient, for any number of people, tabs and usernames.   *)
(***************************************************************************)
EXTENDS WebClient, TLAPS

\* A signup that has got past its check asks for a username.
FormsNamed == \A t \in Tab : form[t].step # "none" => form[t].name \in Username

\* The account behind a name is decided once.
AccountInv == TypeOK /\ FormsNamed /\ TokenOpensOwnAccount

\* An answer is under way only between the request and its arrival, and a page has no
\* identity while it waits for one or was refused one.
Orderly(p) ==
  /\ p.phase # "told" => p.answer = NoName
  /\ p.phase # "ready" \/ p.needsAuth => p.identity = NoName

\* A page was told of accounts of the person at the browser only.
ToldOwn == \A t \in Tab : \A u \in {page[t].answer, page[t].identity} \ {NoName} :
             u \in Username /\ account[u] = Of[t]

\* Between its requests and what another tab does, a page was told of its token.
ToldToken == \A t \in Tab \ moved :
               {page[t].answer, page[t].identity} \subseteq {NoName, token[Of[t]]}

IdentityInv ==
  /\ AccountInv
  /\ \A t \in Tab : Orderly(page[t])
  /\ ToldOwn
  /\ ToldToken
-----------------------------------------------------------------------------
(* Pages *)

\* The updates of a page that the actions make give a page.
LEMMA PageUpdates ==
  ASSUME NEW p \in Page
  PROVE  /\ Failed(p) \in Page
         /\ [p EXCEPT !.phase = "denied"] \in Page
         /\ [p EXCEPT !.phase = "ready", !.answer = NoName, !.failed = FALSE] \in Page
         /\ [p EXCEPT !.needsAuth = TRUE] \in Page
         /\ [p EXCEPT !.needsAuth = FALSE, !.phase = "ask"] \in Page
         /\ [p EXCEPT !.needsAuth = TRUE, !.identity = NoName] \in Page
<1>1. NoName \in Names
  BY DEF Names
<1>2. QED
  BY <1>1 DEF Page, Phases, Failed

\* So do those that write a name.
LEMMA PageNames ==
  ASSUME NEW p \in Page, NEW u \in Names
  PROVE  /\ [p EXCEPT !.phase = "told", !.answer = u] \in Page
         /\ [p EXCEPT !.needsAuth = FALSE, !.identity = u] \in Page
BY DEF Page, Phases

\* A tab that renders anew has the page it was given, but for what isLoggedIn says.
LEMMA ShowFacts ==
  ASSUME TypeOK, NEW t \in Tab, NEW p \in Page, NEW tok, Show(t, p, tok)
  PROVE  /\ page' \in [Tab -> Page]
         /\ form' \in [Tab -> Form]
         /\ \A s \in Tab \ {t} : page'[s] = page[s] /\ form'[s] = form[s]
         /\ form'[t] \in {form[t], NoForm}
         /\ page'[t].phase = p.phase
         /\ page'[t].answer = p.answer
         /\ page'[t].needsAuth = p.needsAuth
         /\ page'[t].identity = p.identity
<1> DEFINE q == [p EXCEPT !.signedIn = IsReady(p) /\ tok # NoName]
<1>1. (IsReady(p) /\ tok # NoName) \in BOOLEAN
  BY DEF IsReady
<1>2. /\ q \in Page
      /\ q.phase = p.phase /\ q.answer = p.answer
      /\ q.needsAuth = p.needsAuth /\ q.identity = p.identity
  BY <1>1 DEF Page
<1>3. page' = [page EXCEPT ![t] = q] /\ form' = [form EXCEPT ![t] = IF IsLogin(q) THEN @ ELSE NoForm]
  BY DEF Show
<1> HIDE DEF q
<1>4. page \in [Tab -> Page] /\ form \in [Tab -> Form] /\ NoForm \in Form
  BY DEF TypeOK, NoForm, Form, Names
<1>5. QED
  BY <1>2, <1>3, <1>4

\* What a step of the page or of Enter leaves in the tab.
LEMMA ReloadFacts ==
  ASSUME TypeOK, NEW t \in Tab, Reload(t)
  PROVE  /\ page' \in [Tab -> Page] /\ form' \in [Tab -> Form]
         /\ \A s \in Tab \ {t} : page'[s] = page[s] /\ form'[s] = form[s]
         /\ form'[t] \in {form[t], NoForm}
         /\ page'[t].phase = "load" /\ page'[t].answer = NoName
         /\ page'[t].identity = NoName
<1>1. Loaded \in Page
  BY DEF Loaded, Page, Phases, Names
<1>2. QED
  BY <1>1, ShowFacts DEF Reload, Loaded

\* A request for the identity takes the token along, or fails.
LEMMA InitAskFacts ==
  ASSUME TypeOK, NEW t \in Tab, InitAsk(t)
  PROVE  /\ page' \in [Tab -> Page]
         /\ \A s \in Tab \ {t} : page'[s] = page[s]
         /\ page'[t].identity = page[t].identity
         /\ page[t].phase \in {"load", "ask"}
         /\ \/ page'[t].phase = "told" /\ page'[t].answer = token[Of[t]]
            \/ page'[t].phase = "denied" /\ page'[t].answer = page[t].answer
            \/ page'[t].phase = "ready" /\ page'[t].answer = NoName
<1> DEFINE p == [page[t] EXCEPT !.astray = GoesAstray(t)]
<1>1. page \in [Tab -> Page] /\ page[t] \in Page /\ up \in BOOLEAN
      /\ token[Of[t]] \in Names
  BY ConstantsAssumption DEF TypeOK
<1>2. GoesAstray(t) \in BOOLEAN
  BY <1>1 DEF GoesAstray, Page
<1>3. p \in Page /\ p.identity = page[t].identity /\ p.answer = page[t].answer
  BY <1>1, <1>2 DEF Page
<1>4. \/ page' = [page EXCEPT ![t] = [p EXCEPT !.phase = "told", !.answer = token[Of[t]]]]
      \/ page' = [page EXCEPT ![t] = [p EXCEPT !.phase = "denied"]]
      \/ page' = [page EXCEPT ![t] = Failed(p)]
  BY DEF InitAsk
<1>5. page[t].phase \in {"load", "ask"}
  BY DEF InitAsk
<1> HIDE DEF p
<1>6. CASE page' = [page EXCEPT ![t] = [p EXCEPT !.phase = "told", !.answer = token[Of[t]]]]
  <2> DEFINE r == [p EXCEPT !.phase = "told", !.answer = token[Of[t]]]
  <2>1. r \in Page
    BY <1>1, <1>3, PageNames
  <2>2. r.phase = "told" /\ r.answer = token[Of[t]] /\ r.identity = page[t].identity
    BY <1>3 DEF Page
  <2>3. page' = [page EXCEPT ![t] = r]
    BY <1>6
  <2> HIDE DEF r
  <2>4. QED
    BY <1>1, <1>5, <2>1, <2>2, <2>3
<1>7. CASE page' = [page EXCEPT ![t] = [p EXCEPT !.phase = "denied"]]
  <2> DEFINE r == [p EXCEPT !.phase = "denied"]
  <2>1. r \in Page
    BY <1>3, PageUpdates
  <2>2. r.phase = "denied" /\ r.answer = page[t].answer /\ r.identity = page[t].identity
    BY <1>3 DEF Page
  <2>3. page' = [page EXCEPT ![t] = r]
    BY <1>7
  <2> HIDE DEF r
  <2>4. QED
    BY <1>1, <1>5, <2>1, <2>2, <2>3
<1>8. CASE page' = [page EXCEPT ![t] = Failed(p)]
  <2>1. Failed(p) \in Page
    BY <1>3, PageUpdates
  <2>2. /\ Failed(p).phase = "ready" /\ Failed(p).answer = NoName
        /\ Failed(p).identity = page[t].identity
    BY <1>3 DEF Page, Failed
  <2>3. QED
    BY <1>1, <1>5, <1>8, <2>1, <2>2
<1>9. QED
  BY <1>4, <1>6, <1>7, <1>8

\* The identity of a page becomes the answer, or a login is asked for.
LEMMA InitAnswerFacts ==
  ASSUME TypeOK, NEW t \in Tab, InitAnswer(t)
  PROVE  /\ page' \in [Tab -> Page] /\ form' \in [Tab -> Form]
         /\ \A s \in Tab \ {t} : page'[s] = page[s] /\ form'[s] = form[s]
         /\ form'[t] \in {form[t], NoForm}
         /\ page[t].phase \in {"told", "denied"}
         /\ page'[t].phase = "ready" /\ page'[t].answer = NoName
         /\ \/ ~page'[t].needsAuth /\ page'[t].identity = page[t].answer
            \/ page'[t].needsAuth /\ page'[t].identity = page[t].identity
<1> DEFINE p == [page[t] EXCEPT !.phase = "ready", !.answer = NoName, !.failed = FALSE]
<1>1. page[t] \in Page
  BY DEF TypeOK
<1>2. /\ p \in Page /\ p.phase = "ready" /\ p.answer = NoName
      /\ p.identity = page[t].identity
  BY <1>1, PageUpdates DEF Page, Names
<1>3. CASE /\ page[t].phase = "told"
           /\ Show(t, [p EXCEPT !.needsAuth = FALSE, !.identity = page[t].answer], token[Of[t]])
  <2> DEFINE r == [p EXCEPT !.needsAuth = FALSE, !.identity = page[t].answer]
  <2>1. page[t].answer \in Names
    BY <1>1 DEF Page
  <2>2. Show(t, r, token[Of[t]])
    BY <1>3
  <2> HIDE DEF p
  <2>3. r \in Page
    BY <1>2, <2>1, PageNames
  <2>4. /\ r.phase = "ready" /\ r.answer = NoName
        /\ ~r.needsAuth /\ r.identity = page[t].answer
    BY <1>2 DEF Page
  <2> HIDE DEF r
  <2>5. QED
    BY <1>3, <2>2, <2>3, <2>4, ShowFacts
<1>4. CASE /\ page[t].phase = "denied"
           /\ Show(t, [p EXCEPT !.needsAuth = TRUE], token[Of[t]])
  <2> DEFINE r == [p EXCEPT !.needsAuth = TRUE]
  <2>1. Show(t, r, token[Of[t]])
    BY <1>4
  <2> HIDE DEF p
  <2>2. r \in Page
    BY <1>2, PageUpdates
  <2>3. /\ r.phase = "ready" /\ r.answer = NoName
        /\ r.needsAuth /\ r.identity = page[t].identity
    BY <1>2 DEF Page
  <2> HIDE DEF r
  <2>4. QED
    BY <1>4, <2>1, <2>2, <2>3, ShowFacts
<1>5. QED
  BY <1>3, <1>4 DEF InitAnswer

\* The poll says nothing of identities.
LEMMA PollStatusFacts ==
  ASSUME TypeOK, NEW t \in Tab, PollStatus(t)
  PROVE  /\ page' \in [Tab -> Page] /\ form' \in [Tab -> Form]
         /\ \A s \in Tab \ {t} : page'[s] = page[s] /\ form'[s] = form[s]
         /\ form'[t] \in {form[t], NoForm}
         /\ page'[t].phase = page[t].phase /\ page'[t].answer = page[t].answer
         /\ page'[t].needsAuth = page[t].needsAuth
         /\ page'[t].identity = page[t].identity
<1> DEFINE r == [page[t] EXCEPT !.failed = ~Reaches(t)]
<1>1. page[t] \in Page
  BY DEF TypeOK
<1>2. (~Reaches(t)) \in BOOLEAN
  BY DEF Reaches
<1>3. /\ r \in Page
      /\ r.phase = page[t].phase /\ r.answer = page[t].answer
      /\ r.needsAuth = page[t].needsAuth /\ r.identity = page[t].identity
  BY <1>1, <1>2 DEF Page
<1> HIDE DEF r
<1>4. Show(t, r, token[Of[t]])
  BY DEF PollStatus, r
<1>5. QED
  BY <1>3, <1>4, ShowFacts

\* A login leads to a request for the identity.
LEMMA EnterFacts ==
  ASSUME TypeOK, NEW t \in Tab, NEW u, Enter(t, u)
  PROVE  /\ page' \in [Tab -> Page] /\ form' \in [Tab -> Form]
         /\ \A s \in Tab \ {t} : page'[s] = page[s] /\ form'[s] = form[s]
         /\ form'[t] \in {form[t], NoForm}
         /\ page'[t].phase = "ask" /\ page'[t].answer = page[t].answer
         /\ page'[t].identity = page[t].identity
<1> DEFINE r == [page[t] EXCEPT !.needsAuth = FALSE, !.phase = "ask"]
<1>1. page[t] \in Page
  BY DEF TypeOK
<1>2. /\ r \in Page /\ r.phase = "ask"
      /\ r.answer = page[t].answer /\ r.identity = page[t].identity
  BY <1>1, PageUpdates DEF Page
<1> HIDE DEF r
<1>3. Show(t, r, u)
  BY DEF Enter, r
<1>4. QED
  BY <1>2, <1>3, ShowFacts

\* A logout takes the identity off the page.
LEMMA LogoutFacts ==
  ASSUME TypeOK, NEW t \in Tab, Logout(t)
  PROVE  /\ page' \in [Tab -> Page] /\ form' \in [Tab -> Form]
         /\ \A s \in Tab \ {t} : page'[s] = page[s] /\ form'[s] = form[s]
         /\ form'[t] \in {form[t], NoForm}
         /\ page'[t].phase = page[t].phase /\ page'[t].answer = page[t].answer
         /\ page'[t].identity = NoName
<1> DEFINE r == [page[t] EXCEPT !.needsAuth = TRUE, !.identity = NoName]
<1>1. page[t] \in Page
  BY DEF TypeOK
<1>2. /\ r \in Page /\ r.phase = page[t].phase
      /\ r.answer = page[t].answer /\ r.identity = NoName
  BY <1>1, PageUpdates DEF Page, Names
<1> HIDE DEF r
<1>3. Show(t, r, NoName)
  BY DEF Logout, r
<1>4. QED
  BY <1>2, <1>3, ShowFacts

\* Another token in the storage of a browser, which its other tabs are not told of.
LEMMA StoreFacts ==
  ASSUME TypeOK, NEW t \in Tab, NEW u \in Names, Store(t, u)
  PROVE  /\ token' \in [Person -> Names]
         /\ token'[Of[t]] = u
         /\ \A b \in Person \ {Of[t]} : token'[b] = token[b]
         /\ stale' \subseteq {b \in Person : token'[b] # NoName}
         /\ moved' \subseteq Tab
         /\ \A s \in Tab \ moved' : s = t \/ (s \notin moved /\ Of[s] # Of[t])
<1>1. /\ token \in [Person -> Names] /\ Of \in [Tab -> Person]
      /\ token' = [token EXCEPT ![Of[t]] = u]
      /\ stale' = stale \ {Of[t]}
  BY ConstantsAssumption DEF Store, TypeOK
<1>2. /\ token' \in [Person -> Names] /\ token'[Of[t]] = u
      /\ \A b \in Person \ {Of[t]} : token'[b] = token[b]
  BY <1>1
<1>3. stale' \subseteq {b \in Person : token'[b] # NoName}
  BY <1>1, <1>2 DEF TypeOK
<1>4. moved' \subseteq Tab
  BY DEF Store, Siblings, TypeOK
<1>5. \A s \in Tab \ moved' : s = t \/ (s \notin moved /\ Of[s] # Of[t])
  BY DEF Store, Siblings
<1>6. QED
  BY <1>2, <1>3, <1>4, <1>5
-----------------------------------------------------------------------------
(* Typing *)

\* Init puts every variable in its type.
LEMMA InitTyped == Init => TypeOK
BY DEF Init, TypeOK, Names, Page, Phases, Form, Loaded, NoForm

\* Every step keeps every variable in its type.
LEMMA NextTyped == TypeOK /\ [Next]_vars => TypeOK'
<1> SUFFICES ASSUME TypeOK, [Next]_vars PROVE TypeOK'
  OBVIOUS
<1>1. /\ page \in [Tab -> Page] /\ form \in [Tab -> Form]
      /\ token \in [Person -> Names] /\ NoName \in Names /\ Username \subseteq Names
      /\ account \in [Username -> Person \cup {Nobody}]
      /\ stale \subseteq {b \in Person : token[b] # NoName}
      /\ up \in BOOLEAN
      /\ moved \subseteq Tab
      /\ Of \in [Tab -> Person]
  BY ConstantsAssumption DEF TypeOK, Names
<1>2. NoForm \in Form
  BY <1>1 DEF NoForm, Form
<1>3. ASSUME NEW t \in Tab, Reload(t) PROVE TypeOK'
  <2>1. page' \in [Tab -> Page] /\ form' \in [Tab -> Form]
    BY <1>3, ReloadFacts
  <2>2. QED
    BY <1>1, <1>3, <2>1 DEF Reload, TypeOK
<1>4. ASSUME NEW t \in Tab, InitAsk(t) PROVE TypeOK'
  <2>1. page' \in [Tab -> Page]
    BY <1>4, InitAskFacts
  <2>2. QED
    BY <1>1, <1>4, <2>1 DEF InitAsk, TypeOK
<1>5. ASSUME NEW t \in Tab, InitAnswer(t) PROVE TypeOK'
  <2>1. page' \in [Tab -> Page] /\ form' \in [Tab -> Form]
    BY <1>5, InitAnswerFacts
  <2>2. QED
    BY <1>1, <1>5, <2>1 DEF InitAnswer, TypeOK
<1>6. ASSUME NEW t \in Tab, PollStatus(t) PROVE TypeOK'
  <2>1. page' \in [Tab -> Page] /\ form' \in [Tab -> Form]
    BY <1>6, PollStatusFacts
  <2>2. QED
    BY <1>1, <1>6, <2>1 DEF PollStatus, TypeOK
<1>7. ASSUME NEW t \in Tab, NEW u \in Names, Enter(t, u), UNCHANGED <<account, up>>
      PROVE  TypeOK'
  <2>1. page' \in [Tab -> Page] /\ form' \in [Tab -> Form]
    BY <1>7, EnterFacts
  <2>2. Store(t, u)
    BY <1>7 DEF Enter
  <2>3. /\ token' \in [Person -> Names] /\ moved' \subseteq Tab
        /\ stale' \subseteq {b \in Person : token'[b] # NoName}
    BY <2>2, StoreFacts
  <2>4. QED
    BY <1>1, <1>7, <2>1, <2>3 DEF TypeOK
<1>8. ASSUME NEW t \in Tab, Logout(t) PROVE TypeOK'
  <2>1. page' \in [Tab -> Page] /\ form' \in [Tab -> Form]
    BY <1>8, LogoutFacts
  <2>2. /\ token' \in [Person -> Names] /\ moved' \subseteq Tab
        /\ stale' \subseteq {b \in Person : token'[b] # NoName}
    BY <1>1, <1>8, StoreFacts DEF Logout
  <2>3. QED
    BY <1>1, <1>8, <2>1, <2>2 DEF Logout, TypeOK
<1>9. ASSUME NEW t \in Tab, NEW u \in Username, SignupCheck(t, u) PROVE TypeOK'
  BY <1>1, <1>9 DEF SignupCheck, Fill, Form, TypeOK
<1>10. ASSUME NEW t \in Tab, SignupCreate(t) PROVE TypeOK'
  <2>1. form[t].name \in Names
    BY <1>1 DEF Form
  <2>2. form' \in [Tab -> Form]
    BY <1>1, <1>2, <1>10, <2>1 DEF SignupCreate, Fill, Form
  <2>3. account' \in [Username -> Person \cup {Nobody}]
    BY <1>1, <1>10 DEF SignupCreate
  <2>4. QED
    BY <1>1, <1>10, <2>2, <2>3 DEF SignupCreate, TypeOK
<1>11. ASSUME NEW t \in Tab, SignupAnswer(t) PROVE TypeOK'
  <2>1. form[t].name \in Names
    BY <1>1 DEF Form
  <2>2. form' \in [Tab -> Form]
    BY <1>1, <1>11, <2>1 DEF SignupAnswer, Fill, Form
  <2>3. QED
    BY <1>1, <1>11, <2>2 DEF SignupAnswer, TypeOK
<1>12. ASSUME NEW b \in Person, Expire(b) PROVE TypeOK'
  BY <1>1, <1>12 DEF Expire, TypeOK
<1>13. ASSUME Down PROVE TypeOK'
  <2>1. \A t \in Tab : page[t] \in Page /\ Failed(page[t]) \in Page
    BY <1>1, PageUpdates
  <2>2. page' \in [Tab -> Page] /\ form' \in [Tab -> Form]
    BY <1>1, <1>2, <1>13, <2>1 DEF Down
  <2>3. QED
    BY <1>1, <1>13, <2>2 DEF Down, TypeOK
<1>14. ASSUME Start \/ UNCHANGED vars PROVE TypeOK'
  BY <1>1, <1>14 DEF Start, vars, TypeOK
<1>15. ASSUME NEW t \in Tab, NEW u \in Username, Login(t, u) PROVE TypeOK'
  BY <1>1, <1>7, <1>15 DEF Login
<1>16. ASSUME NEW t \in Tab, Confirm(t) PROVE TypeOK'
  <2>1. form[t].name \in Names
    BY <1>1 DEF Form
  <2>2. QED
    BY <1>7, <1>16, <2>1 DEF Confirm
<1>17. QED
  BY <1>3, <1>4, <1>5, <1>6, <1>8, <1>9, <1>10, <1>11, <1>12, <1>13, <1>14, <1>15, <1>16 DEF Next

\* Every variable keeps its type, and no token is held for expired that is not stored.
THEOREM Typing == Spec => []TypeOK
<1>1. QED
  BY InitTyped, NextTyped, PTL DEF Spec
-----------------------------------------------------------------------------
(* Accounts *)

\* The accounts that tokens and forms stand for.
LEMMA AccountFacts ==
  ASSUME AccountInv
  PROVE  /\ Of \in [Tab -> Person]
         /\ form \in [Tab -> Form] /\ token \in [Person -> Names]
         /\ account \in [Username -> Person \cup {Nobody}]
         /\ NoForm.step = "none"
BY ConstantsAssumption DEF AccountInv, TypeOK, NoForm

\* A step that decides no account and hands out nothing keeps what everybody has.
LEMMA NothingHandedOut ==
  ASSUME AccountInv, UNCHANGED account,
         \A b \in Person : token'[b] \in {NoName, token[b]},
         \A t \in Tab : \/ form'[t] \in {form[t], NoForm}
                        \/ form'[t].step = "checked" /\ form'[t].name \in Username
                        \/ /\ form[t].step = "created"
                           /\ form'[t].name = form[t].name
  PROVE  FormsNamed' /\ TokenOpensOwnAccount'
<1>1. NoForm.step = "none"
  BY DEF NoForm
<1>2. FormsNamed'
  BY <1>1 DEF AccountInv, FormsNamed
<1>3. TokenOpensOwnAccount'
  BY <1>1 DEF AccountInv, TokenOpensOwnAccount
<1>4. QED
  BY <1>2, <1>3

\* Entering the page with a name whose account is one's own.
LEMMA OwnAccountEntered ==
  ASSUME AccountInv, NEW t \in Tab, NEW u \in Names, Enter(t, u), account[u] = Of[t],
         UNCHANGED account
  PROVE  FormsNamed' /\ TokenOpensOwnAccount'
<1>1. TypeOK /\ Store(t, u)
  BY DEF AccountInv, Enter
<1>2. /\ token'[Of[t]] = u
      /\ \A b \in Person \ {Of[t]} : token'[b] = token[b]
  BY <1>1, StoreFacts
<1>3. \A s \in Tab : form'[s] \in {form[s], NoForm}
  BY <1>1, EnterFacts
<1>4. NoForm.step = "none"
  BY DEF NoForm
<1>5. FormsNamed'
  BY <1>3, <1>4 DEF AccountInv, FormsNamed
<1>6. TokenOpensOwnAccount'
  <2>1. ASSUME NEW b \in Person, token'[b] # NoName PROVE account'[token'[b]] = b
    BY <1>2, <2>1 DEF AccountInv, TokenOpensOwnAccount
  <2>2. ASSUME NEW s \in Tab, form'[s].step \in {"created", "phrase"}
        PROVE  account'[form'[s].name] = Of[s]
    BY <1>3, <1>4, <2>2 DEF AccountInv, TokenOpensOwnAccount
  <2>3. QED
    BY <2>1, <2>2 DEF TokenOpensOwnAccount
<1>7. QED
  BY <1>5, <1>6

\* A username that a signup creates was nobody's: whoever had an account has it still.
LEMMA CreatedOnce ==
  ASSUME AccountInv, NEW t \in Tab, SignupCreate(t),
         NEW b \in Person, NEW u \in Username, account[u] = b
  PROVE  account'[u] = b
<1>1. form[t].name \in Username
  BY DEF SignupCreate, AccountInv, FormsNamed
<1>2. b # Nobody
  BY ConstantsAssumption
<1>3. QED
  BY <1>1, <1>2, AccountFacts DEF SignupCreate

\* What a creation does to the forms.
LEMMA SignupCreateKeepsAccounts ==
  ASSUME AccountInv, NEW t \in Tab, SignupCreate(t)
  PROVE  FormsNamed' /\ TokenOpensOwnAccount'
<1> DEFINE u == form[t].name
<1>1. u \in Username
  BY DEF SignupCreate, AccountInv, FormsNamed
<1>2. CASE account[u] # Nobody
  <2>1. UNCHANGED <<account, token>> /\ \A s \in Tab : form'[s] \in {form[s], NoForm}
    BY <1>2, AccountFacts DEF SignupCreate
  <2>2. QED
    BY <2>1, NothingHandedOut
<1>3. CASE account[u] = Nobody
  <2>1. /\ UNCHANGED token
        /\ account'[u] = Of[t]
        /\ form'[t] = [step |-> "created", name |-> u]
        /\ \A s \in Tab \ {t} : form'[s] = form[s]
    BY <1>1, <1>3, AccountFacts DEF SignupCreate, Fill
  <2>2. FormsNamed'
    BY <1>1, <2>1 DEF AccountInv, FormsNamed
  <2>3. ASSUME NEW b \in Person, token[b] # NoName PROVE account'[token[b]] = b
    <3>1. token[b] \in Username /\ account[token[b]] = b
      BY <2>3, AccountFacts DEF Names, AccountInv, TokenOpensOwnAccount
    <3>2. QED
      BY <3>1, CreatedOnce
  <2>4. ASSUME NEW s \in Tab, form'[s].step \in {"created", "phrase"}
        PROVE  account'[form'[s].name] = Of[s]
    <3>1. CASE s = t
      BY <2>1, <3>1
    <3>2. CASE s # t
      <4>1. form'[s] = form[s]
        BY <2>1, <3>2
      <4>2. /\ form[s].name \in Username /\ account[form[s].name] = Of[s]
            /\ Of[s] \in Person
        BY <2>4, <4>1, AccountFacts DEF AccountInv, FormsNamed, TokenOpensOwnAccount
      <4>3. QED
        BY <4>1, <4>2, CreatedOnce
    <3>3. QED
      BY <3>1, <3>2
  <2>5. QED
    BY <2>1, <2>2, <2>3, <2>4 DEF TokenOpensOwnAccount
<1>4. QED
  BY <1>2, <1>3

\* AccountInv is inductive.
LEMMA NextKeepsAccounts == AccountInv /\ [Next]_vars => AccountInv'
<1> SUFFICES ASSUME AccountInv, [Next]_vars PROVE AccountInv'
  OBVIOUS
<1>1. TypeOK /\ TypeOK'
  BY NextTyped DEF AccountInv
<1>2. ASSUME UNCHANGED <<account, token>>, \A t \in Tab : form'[t] \in {form[t], NoForm}
      PROVE  FormsNamed' /\ TokenOpensOwnAccount'
  BY <1>2, NothingHandedOut
<1>3. ASSUME NEW t \in Tab, Reload(t) \/ InitAnswer(t) \/ PollStatus(t)
      PROVE  FormsNamed' /\ TokenOpensOwnAccount'
  <2>1. UNCHANGED <<account, token>>
    BY <1>3 DEF Reload, InitAnswer, PollStatus
  <2>2. \A s \in Tab : form'[s] \in {form[s], NoForm}
    BY <1>1, <1>3, ReloadFacts, InitAnswerFacts, PollStatusFacts
  <2>3. QED
    BY <1>2, <2>1, <2>2
<1>4. ASSUME UNCHANGED <<account, token, form>>
      PROVE  FormsNamed' /\ TokenOpensOwnAccount'
  BY <1>2, <1>4
<1>5. ASSUME NEW t \in Tab, InitAsk(t) PROVE UNCHANGED <<account, token, form>>
  BY <1>5 DEF InitAsk
<1>6. ASSUME NEW b \in Person, Expire(b) PROVE UNCHANGED <<account, token, form>>
  BY <1>6 DEF Expire
<1>7. ASSUME Start \/ UNCHANGED vars PROVE UNCHANGED <<account, token, form>>
  BY <1>7 DEF Start, vars
<1>8. ASSUME NEW t \in Tab, Logout(t) PROVE FormsNamed' /\ TokenOpensOwnAccount'
  <2>1. \A s \in Tab : form'[s] \in {form[s], NoForm}
    BY <1>1, <1>8, LogoutFacts
  <2>2. UNCHANGED account /\ \A b \in Person : token'[b] \in {NoName, token[b]}
    BY <1>8, AccountFacts DEF Logout, Store
  <2>3. QED
    BY <2>1, <2>2, NothingHandedOut
<1>9. ASSUME NEW t \in Tab, NEW u \in Username, SignupCheck(t, u)
      PROVE  FormsNamed' /\ TokenOpensOwnAccount'
  <2>1. /\ UNCHANGED <<account, token>>
        /\ form'[t] = [step |-> "checked", name |-> u]
        /\ \A s \in Tab \ {t} : form'[s] = form[s]
    BY <1>9, AccountFacts DEF SignupCheck, Fill
  <2>2. QED
    BY <2>1, NothingHandedOut
<1>10. ASSUME NEW t \in Tab, SignupAnswer(t) PROVE FormsNamed' /\ TokenOpensOwnAccount'
  <2>1. /\ UNCHANGED <<account, token>>
        /\ form[t].step = "created"
        /\ form'[t] = [step |-> "phrase", name |-> form[t].name]
        /\ \A s \in Tab \ {t} : form'[s] = form[s]
    BY <1>10, AccountFacts DEF SignupAnswer, Fill
  <2>2. QED
    BY <2>1, NothingHandedOut
<1>11. ASSUME Down PROVE FormsNamed' /\ TokenOpensOwnAccount'
  <2>1. UNCHANGED <<account, token>> /\ \A s \in Tab : form'[s] \in {form[s], NoForm}
    BY <1>11 DEF Down
  <2>2. QED
    BY <1>2, <2>1
<1>12. ASSUME NEW t \in Tab, NEW u \in Username, Login(t, u)
       PROVE  FormsNamed' /\ TokenOpensOwnAccount'
  <2>1. u \in Names /\ Enter(t, u) /\ account[u] = Of[t] /\ UNCHANGED account
    BY <1>12 DEF Login, PasswordOpens, Names
  <2>2. QED
    BY <2>1, OwnAccountEntered
<1>13. ASSUME NEW t \in Tab, Confirm(t) PROVE FormsNamed' /\ TokenOpensOwnAccount'
  <2>1. /\ form[t].name \in Names /\ Enter(t, form[t].name)
        /\ account[form[t].name] = Of[t] /\ UNCHANGED account
    BY <1>13 DEF Confirm, AccountInv, FormsNamed, TokenOpensOwnAccount, Names
  <2>2. QED
    BY <2>1, OwnAccountEntered
<1>14. FormsNamed' /\ TokenOpensOwnAccount'
  BY <1>3, <1>4, <1>5, <1>6, <1>7, <1>8, <1>9, <1>10, <1>11, <1>12, <1>13,
     SignupCreateKeepsAccounts DEF Next
<1>15. QED
  BY <1>1, <1>14 DEF AccountInv

\* Init starts without tokens and forms.
LEMMA InitAccounts == Init => AccountInv
<1>1. Init => FormsNamed /\ TokenOpensOwnAccount
  BY DEF Init, FormsNamed, TokenOpensOwnAccount, NoForm
<1>2. QED
  BY <1>1, InitTyped DEF AccountInv

\* The token a person holds, and the account a signup told them is theirs, belong to an
\* account they created, whoever asked for the same username at the same time.
THEOREM TokensOpenOwnAccounts == Spec => []TokenOpensOwnAccount
<1>1. AccountInv => TokenOpensOwnAccount
  BY DEF AccountInv
<1>2. QED
  BY <1>1, InitAccounts, NextKeepsAccounts, PTL DEF Spec
-----------------------------------------------------------------------------
(* Identities *)

\* What IdentityInv adds to AccountInv.
Told == (\A t \in Tab : Orderly(page[t])) /\ ToldOwn /\ ToldToken

\* A tab that is told of nothing it had not been told of keeps what it was told.
LEMMA NothingTold ==
  ASSUME IdentityInv, UNCHANGED <<account, token, moved>>,
         \A t \in Tab : /\ Orderly(page'[t])
                        /\ page'[t].answer \in {NoName, page[t].answer}
                        /\ page'[t].identity \in {NoName, page[t].answer, page[t].identity}
  PROVE  Told'
<1>1. ToldOwn'
  BY DEF IdentityInv, ToldOwn
<1>2. ToldToken'
  BY DEF IdentityInv, ToldToken
<1>3. QED
  BY <1>1, <1>2 DEF Told

\* The token that goes with a request is of an account of the person at the browser.
LEMMA InitAskTells ==
  ASSUME IdentityInv, NEW t \in Tab, InitAsk(t)
  PROVE  Told'
<1>1. /\ \A s \in Tab \ {t} : page'[s] = page[s]
      /\ page'[t].identity = page[t].identity
      /\ page[t].phase \in {"load", "ask"}
      /\ \/ page'[t].phase = "told" /\ page'[t].answer = token[Of[t]]
         \/ page'[t].phase = "denied" /\ page'[t].answer = page[t].answer
         \/ page'[t].phase = "ready" /\ page'[t].answer = NoName
  BY InitAskFacts DEF IdentityInv, AccountInv
<1>2. Orderly(page[t])
  BY DEF IdentityInv
<1>3. page[t].identity = NoName /\ page[t].answer = NoName
  BY <1>1, <1>2 DEF Orderly
<1>4. \A s \in Tab : Orderly(page'[s])
  BY <1>1, <1>3 DEF IdentityInv, Orderly
<1>5. UNCHANGED <<account, token>> /\ moved' = moved \ {t}
  BY DEF InitAsk
<1>6. token[Of[t]] # NoName => token[Of[t]] \in Username /\ account[token[Of[t]]] = Of[t]
  BY AccountFacts DEF IdentityInv, AccountInv, TokenOpensOwnAccount, Names
<1>7. page'[t].identity = NoName /\ page'[t].answer \in {NoName, token[Of[t]]}
  BY <1>1, <1>3
<1>8. ToldOwn'
  BY <1>1, <1>5, <1>6, <1>7 DEF IdentityInv, ToldOwn
<1>9. ToldToken'
  BY <1>1, <1>5, <1>7 DEF IdentityInv, ToldToken
<1>10. QED
  BY <1>4, <1>8, <1>9 DEF Told

\* A tab that changes the token was told of none; the other tabs of the browser count
\* as moved from then on.
LEMMA StoreForgets ==
  ASSUME IdentityInv, NEW t \in Tab, NEW u \in Names, Store(t, u), UNCHANGED account,
         \A s \in Tab \ {t} : page'[s] = page[s],
         Orderly(page'[t]), page'[t].answer = NoName, page'[t].identity = NoName
  PROVE  Told'
<1>1. \A s \in Tab : Orderly(page'[s])
  BY DEF IdentityInv
<1>2. ToldOwn'
  BY DEF IdentityInv, ToldOwn
<1>3. ToldToken'
  <2>1. ASSUME NEW s \in Tab \ moved'
        PROVE  {page'[s].answer, page'[s].identity} \subseteq {NoName, token'[Of[s]]}
    <3>1. CASE s = t
      BY <3>1
    <3>2. CASE s # t
      <4>1. /\ \A b \in Person \ {Of[t]} : token'[b] = token[b]
            /\ s \notin moved /\ Of[s] # Of[t]
        BY <3>2, StoreFacts DEF IdentityInv, AccountInv
      <4>2. Of[s] \in Person
        BY AccountFacts DEF IdentityInv
      <4>3. QED
        BY <3>2, <4>1, <4>2 DEF IdentityInv, ToldToken
    <3>3. QED
      BY <3>1, <3>2
  <2>2. QED
    BY <2>1 DEF ToldToken
<1>4. QED
  BY <1>1, <1>2, <1>3 DEF Told

\* A login or a confirmation begins on a login page, which has no identity.
LEMMA EnterTells ==
  ASSUME IdentityInv, NEW t \in Tab, NEW u \in Names, Enter(t, u), AsksLogin(t),
         UNCHANGED account
  PROVE  Told'
<1>1. page[t].phase = "ready" /\ page[t].needsAuth
  BY DEF AsksLogin, IsLogin, IsReady
<1>2. page[t].answer = NoName /\ page[t].identity = NoName
  BY <1>1 DEF IdentityInv, Orderly
<1>3. /\ \A s \in Tab \ {t} : page'[s] = page[s]
      /\ page'[t].phase = "ask" /\ page'[t].answer = NoName
      /\ page'[t].identity = NoName
  BY <1>2, EnterFacts DEF IdentityInv, AccountInv
<1>4. Store(t, u) /\ Orderly(page'[t])
  BY <1>3 DEF Enter, Orderly
<1>5. QED
  BY <1>3, <1>4, StoreForgets

\* IdentityInv is inductive.
LEMMA NextKeepsIdentities == IdentityInv /\ [Next]_vars => IdentityInv'
<1> SUFFICES ASSUME IdentityInv, [Next]_vars PROVE IdentityInv'
  OBVIOUS
<1>1. AccountInv /\ AccountInv' /\ TypeOK
  BY NextKeepsAccounts DEF IdentityInv, AccountInv
<1>2. \A t \in Tab : Orderly(page[t])
  BY DEF IdentityInv
<1>3. ASSUME NEW t \in Tab, Reload(t) PROVE Told'
  <2>1. UNCHANGED <<account, token, moved>>
    BY <1>3 DEF Reload
  <2>2. /\ \A s \in Tab \ {t} : page'[s] = page[s]
        /\ page'[t].phase = "load" /\ page'[t].answer = NoName
        /\ page'[t].identity = NoName
    BY <1>1, <1>3, ReloadFacts
  <2>3. Orderly(page'[t])
    BY <2>2 DEF Orderly
  <2>4. QED
    BY <1>2, <2>1, <2>2, <2>3, NothingTold
<1>4. ASSUME NEW t \in Tab, InitAnswer(t) PROVE Told'
  <2>1. UNCHANGED <<account, token, moved>>
    BY <1>4 DEF InitAnswer
  <2>2. /\ \A s \in Tab \ {t} : page'[s] = page[s]
        /\ page[t].phase \in {"told", "denied"}
        /\ page'[t].phase = "ready" /\ page'[t].answer = NoName
        /\ \/ ~page'[t].needsAuth /\ page'[t].identity = page[t].answer
           \/ page'[t].needsAuth /\ page'[t].identity = page[t].identity
    BY <1>1, <1>4, InitAnswerFacts
  <2>3. page[t].identity = NoName
    BY <1>2, <2>2 DEF Orderly
  <2>4. Orderly(page'[t])
    BY <2>2, <2>3 DEF Orderly
  <2>5. QED
    BY <1>2, <2>1, <2>2, <2>4, NothingTold
<1>5. ASSUME NEW t \in Tab, PollStatus(t) PROVE Told'
  <2>1. UNCHANGED <<account, token, moved>>
    BY <1>5 DEF PollStatus
  <2>2. /\ \A s \in Tab \ {t} : page'[s] = page[s]
        /\ page'[t].phase = page[t].phase /\ page'[t].answer = page[t].answer
        /\ page'[t].needsAuth = page[t].needsAuth
        /\ page'[t].identity = page[t].identity
    BY <1>1, <1>5, PollStatusFacts
  <2>3. Orderly(page'[t])
    BY <1>2, <2>2 DEF Orderly
  <2>4. QED
    BY <1>2, <2>1, <2>2, <2>3, NothingTold
<1>6. ASSUME NEW t \in Tab, Logout(t) PROVE Told'
  <2>1. page[t].phase = "ready"
    BY <1>6 DEF Logout, ShowsMail, IsMail, IsReady
  <2>2. page[t].answer = NoName
    BY <1>2, <2>1 DEF Orderly
  <2>3. /\ \A s \in Tab \ {t} : page'[s] = page[s]
        /\ page'[t].phase = "ready" /\ page'[t].answer = NoName
        /\ page'[t].identity = NoName
    BY <1>1, <1>6, <2>1, <2>2, LogoutFacts
  <2>4. Store(t, NoName) /\ UNCHANGED account /\ Orderly(page'[t]) /\ NoName \in Names
    BY <1>6, <2>3 DEF Logout, Orderly, Names
  <2>5. QED
    BY <2>3, <2>4, StoreForgets
<1>7. ASSUME NEW t \in Tab, NEW u \in Username, Login(t, u) PROVE Told'
  <2>1. u \in Names /\ Enter(t, u) /\ AsksLogin(t) /\ UNCHANGED account
    BY <1>7 DEF Login, Names
  <2>2. QED
    BY <2>1, EnterTells
<1>8. ASSUME NEW t \in Tab, Confirm(t) PROVE Told'
  <2>1. /\ form[t].name \in Names /\ Enter(t, form[t].name) /\ AsksLogin(t)
        /\ UNCHANGED account
    BY <1>1, <1>8 DEF Confirm, AccountInv, FormsNamed, Names
  <2>2. QED
    BY <2>1, EnterTells
<1>9. ASSUME NEW t \in Tab, SignupCreate(t) PROVE Told'
  <2>1. UNCHANGED <<token, page, moved>>
    BY <1>9 DEF SignupCreate
  <2>2. ToldOwn'
    <3>1. ASSUME NEW s \in Tab, NEW u \in {page[s].answer, page[s].identity} \ {NoName}
          PROVE  u \in Username /\ account'[u] = Of[s]
      <4>1. u \in Username /\ account[u] = Of[s] /\ Of[s] \in Person
        BY <1>1, AccountFacts DEF IdentityInv, ToldOwn
      <4>2. QED
        BY <1>1, <1>9, <4>1, CreatedOnce
    <3>2. QED
      BY <2>1, <3>1 DEF ToldOwn
  <2>3. ToldToken' /\ \A s \in Tab : Orderly(page'[s])
    BY <2>1 DEF IdentityInv, ToldToken
  <2>4. QED
    BY <2>2, <2>3 DEF Told
<1>10. ASSUME Down PROVE Told'
  <2>1. UNCHANGED <<account, token, moved>>
    BY <1>10 DEF Down
  <2>2. ASSUME NEW t \in Tab
        PROVE  /\ Orderly(page'[t])
               /\ page'[t].answer \in {NoName, page[t].answer}
               /\ page'[t].identity = page[t].identity
    <3>1. page[t] \in Page
      BY <1>1 DEF TypeOK
    <3>2. CASE page[t].phase \in {"told", "denied"}
      <4>1. page'[t] = Failed(page[t])
        BY <1>10, <3>2 DEF Down
      <4>2. /\ Failed(page[t]).phase = "ready" /\ Failed(page[t]).answer = NoName
            /\ Failed(page[t]).identity = page[t].identity
        BY <3>1 DEF Failed, Page
      <4>3. page[t].identity = NoName
        BY <1>2, <3>2 DEF Orderly
      <4>4. QED
        BY <4>1, <4>2, <4>3 DEF Orderly
    <3>3. CASE page[t].phase \notin {"told", "denied"}
      <4>1. page'[t] = page[t]
        BY <1>10, <3>3 DEF Down
      <4>2. QED
        BY <1>2, <4>1
    <3>4. QED
      BY <3>2, <3>3
  <2>3. QED
    BY <2>1, <2>2, NothingTold
<1>11. ASSUME UNCHANGED <<account, token, moved, page>> PROVE Told'
  BY <1>11, NothingTold DEF IdentityInv
<1>12. ASSUME NEW t \in Tab, SignupAnswer(t) \/ \E u \in Username : SignupCheck(t, u)
       PROVE  UNCHANGED <<account, token, moved, page>>
  BY <1>12 DEF SignupAnswer, SignupCheck
<1>13. ASSUME NEW b \in Person, Expire(b) PROVE UNCHANGED <<account, token, moved, page>>
  BY <1>13 DEF Expire
<1>14. ASSUME Start \/ UNCHANGED vars PROVE UNCHANGED <<account, token, moved, page>>
  BY <1>14 DEF Start, vars
<1>15. Told'
  BY <1>3, <1>4, <1>5, <1>6, <1>7, <1>8, <1>9, <1>10, <1>11, <1>12, <1>13, <1>14,
     InitAskTells DEF Next
<1>16. QED
  BY <1>1, <1>15 DEF IdentityInv, Told

\* The identity on a mail page is an account of the person at the browser, and the one
\* the stored token stands for until another tab logs in or out.
THEOREM IdentitiesAreOfTokens == Spec => []IdentityIsOfToken
<1>1. Init => IdentityInv
  <2>1. Init => /\ \A t \in Tab : Orderly(page[t])
                /\ ToldOwn /\ ToldToken
    BY DEF Init, Loaded, Orderly, ToldOwn, ToldToken
  <2>2. QED
    BY <2>1, InitAccounts DEF IdentityInv
<1>2. IdentityInv => IdentityIsOfToken
  BY DEF IdentityInv, IdentityIsOfToken, ShowsMail, IsMail, ToldOwn, ToldToken
<1>3. QED
  BY <1>1, <1>2, NextKeepsIdentities, PTL DEF Spec
=============================================================================
