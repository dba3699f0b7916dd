------------------------------ MODULE WebClient ------------------------------
(***************************************************************************)
(* Accounts of a multi-tenant server and the web pages that open them.     *)
(*                                                                         *)
(* The server creates an account in two steps, a look for the username and *)
(* an insertion, and gives out tokens that live for a day.  A page keeps   *)
(* the token in the browser's storage, which all tabs of the browser       *)
(* share, asks for the identity behind it when it is loaded and after a    *)
(* login, and polls the status every ten seconds; what it shows follows    *)
(* from a few flags that these requests set.                               *)
(*                                                                         *)
(* Each person has a browser with any number of tabs.  An account stands   *)
(* for its user id, password and keys, so a token is the account that it   *)
(* opens.                                                                  *)
(***************************************************************************)
EXTENDS Naturals, FiniteSets

CONSTANTS
  Person,    \* people with a browser
  Username,
  Tab,
  Of,        \* the person in whose browser a tab is open
  Nobody, NoName

ASSUME ConstantsAssumption ==
  /\ Of \in [Tab -> Person]
  /\ Nobody \notin Person
  /\ NoName \notin Username

VARIABLES
  account,  \* users table: who created the account with a username
  up,       \* whether the server runs
  token,    \* localStorage of a browser: the account the stored token is for
  stale,    \* people whose stored token has expired
  page,     \* a tab: the base URL, the identity asked for, React state of App
  form,     \* the signup form of a tab: its step and the username asked for
  moved     \* history: tabs whose token another tab replaced after they used it last

vars == <<account, up, token, stale, page, form, moved>>

Names == Username \cup {NoName}
Phases == {"load", "ask", "told", "denied", "ready"}
Page == [phase : Phases, answer : Names, astray : BOOLEAN, needsAuth : BOOLEAN,
         failed : BOOLEAN, identity : Names, signedIn : BOOLEAN]
Form == [step : {"none", "checked", "created", "phrase"}, name : Names]

Loaded ==
  [phase |-> "load", answer |-> NoName, astray |-> FALSE, needsAuth |-> FALSE,
   failed |-> FALSE, identity |-> NoName, signedIn |-> FALSE]
NoForm == [step |-> "none", name |-> NoName]

\* What App rendered last, in the order of its returns, the later ones of which read
\* isLoggedIn.
\* Onboarding is left for a page without an identity, whose words it cannot show:
\* React takes the page down and the tab stays blank.
IsReady(p) == p.phase = "ready" /\ ~p.failed
IsLogin(p) == IsReady(p) /\ p.needsAuth /\ ~p.signedIn
IsMail(p) == IsReady(p) /\ ~IsLogin(p) /\ p.identity # NoName
ShowsError(t) == page[t].phase = "ready" /\ page[t].failed
AsksLogin(t) == IsLogin(page[t])
ShowsMail(t) == IsMail(page[t])
Blank(t) == IsReady(page[t]) /\ ~AsksLogin(t) /\ ~ShowsMail(t)

\* A tab renders anew, while its browser holds tok; the forms live in the login page.
Show(t, p, tok) ==
  LET q == [p EXCEPT !.signedIn = IsReady(p) /\ tok # NoName]
  IN  /\ page' = [page EXCEPT ![t] = q]
      /\ form' = [form EXCEPT ![t] = IF IsLogin(q) THEN @ ELSE NoForm]
Fill(t, step, u) == form' = [form EXCEPT ![t] = [step |-> step, name |-> u]]

\* localStorage is shared by the tabs of a browser, which are not told of a change.
Siblings(t) == {s \in Tab \ {t} : Of[s] = Of[t]}
Store(t, u) ==
  /\ token' = [token EXCEPT ![Of[t]] = u]
  /\ stale' = stale \ {Of[t]}
  /\ moved' = (moved \cup Siblings(t)) \ {t}

Init ==
  /\ account = [u \in Username |-> Nobody]
  /\ up = TRUE
  /\ token = [b \in Person |-> NoName]
  /\ stale = {}
  /\ page = [t \in Tab |-> Loaded]
  /\ form = [t \in Tab |-> NoForm]
  /\ moved = {}
-----------------------------------------------------------------------------
(* The page *)

\* The tab is opened again: the state is gone, localStorage is not.
Reload(t) ==
  /\ page[t].phase = "ready"
  /\ Show(t, Loaded, token[Of[t]])
  /\ UNCHANGED <<account, up, token, stale, moved>>

\* resolveBase: the first request settles the base URL for as long as the page is
\* loaded; a server that does not answer then is looked for on the user's own machine.
GoesAstray(t) == IF page[t].phase = "load" THEN ~up ELSE page[t].astray
Reaches(t) == up /\ ~GoesAstray(t)

\* requireAuth lets through a request with a token that has not expired.
Authorized(b) == token[b] # NoName /\ b \notin stale

\* The screen of a page whose request for the identity failed.
Failed(p) == [p EXCEPT !.phase = "ready", !.answer = NoName, !.failed = TRUE]

\* initApp sends the token that is stored at this moment; handleMTIdentity answers its
\* account, requireAuth a 401; without an answer the error screen shows.
InitAsk(t) ==
  LET b == Of[t]
      p == [page[t] EXCEPT !.astray = GoesAstray(t)]
  IN  /\ page[t].phase \in {"load", "ask"}
      /\ \/ /\ Reaches(t) /\ Authorized(b)
            /\ page' = [page EXCEPT ![t] = [p EXCEPT !.phase = "told", !.answer = token[b]]]
         \/ /\ Reaches(t) /\ ~Authorized(b)
            /\ page' = [page EXCEPT ![t] = [p EXCEPT !.phase = "denied"]]
         \/ /\ ~Reaches(t)
            /\ page' = [page EXCEPT ![t] = Failed(p)]
      /\ moved' = moved \ {t}
      /\ UNCHANGED <<account, up, token, stale, form>>

\* The answer arrives: a 401 asks for a login, as the public status answers.
InitAnswer(t) ==
  LET p == [page[t] EXCEPT !.phase = "ready", !.answer = NoName, !.failed = FALSE]
  IN  /\ \/ /\ page[t].phase = "told"
            /\ Show(t, [p EXCEPT !.needsAuth = FALSE, !.identity = page[t].answer],
                    token[Of[t]])
         \/ /\ page[t].phase = "denied"
            /\ Show(t, [p EXCEPT !.needsAuth = TRUE], token[Of[t]])
      /\ UNCHANGED <<account, up, token, stale, moved>>

\* The status poll renders the page and shows or hides the error screen; what it says
\* while initApp runs, initApp says again at its end.
PollStatus(t) ==
  /\ page[t].phase = "ready"
  /\ ~Blank(t)
  /\ Show(t, [page[t] EXCEPT !.failed = ~Reaches(t)], token[Of[t]])
  /\ UNCHANGED <<account, up, token, stale, moved>>

\* handleLogin of the page, after a token was saved.
Enter(t, u) ==
  /\ Store(t, u)
  /\ Show(t, [page[t] EXCEPT !.needsAuth = FALSE, !.phase = "ask"], u)

\* Mutant of Logout: leaves the identity on the page.
LogoutKeepsIdentity(t) ==
  /\ ShowsMail(t)
  /\ page[t].signedIn
  /\ Store(t, NoName)
  /\ Show(t, [page[t] EXCEPT !.needsAuth = TRUE], NoName)
  /\ UNCHANGED <<account, up>>

\* Mutant of Logout: the token goes, what was known of it stays.
LogoutOfServerOnly(t) ==
  /\ ShowsMail(t)
  /\ page[t].signedIn
  /\ token' = [token EXCEPT ![Of[t]] = NoName]
  /\ moved' = (moved \cup Siblings(t)) \ {t}
  /\ Show(t, [page[t] EXCEPT !.needsAuth = TRUE, !.identity = NoName], NoName)
  /\ UNCHANGED <<account, up, stale>>

\* handleLogout, from the button that is there if the page was rendered with a token.
Logout(t) ==
  /\ ShowsMail(t)
  /\ page[t].signedIn
  /\ Store(t, NoName)
  /\ Show(t, [page[t] EXCEPT !.needsAuth = TRUE, !.identity = NoName], NoName)
  /\ UNCHANGED <<account, up>>
-----------------------------------------------------------------------------
(* Requests to the server *)

\* The password of the signup is the one that verifies and decrypts the private key.
PasswordOpens(b, u) == account[u] = b

\* POST /auth/login with the right password: the token is saved and the page entered.
Login(t, u) ==
  /\ AsksLogin(t)
  /\ form[t].step = "none"
  /\ Reaches(t)
  /\ PasswordOpens(Of[t], u)
  /\ Enter(t, u)
  /\ UNCHANGED <<account, up>>

\* POST /auth/signup finds no such user; a name that is taken is refused.
SignupCheck(t, u) ==
  /\ AsksLogin(t)
  /\ form[t].step = "none"
  /\ Reaches(t)
  /\ account[u] = Nobody
  /\ Fill(t, "checked", u)
  /\ UNCHANGED <<account, up, token, stale, page, moved>>

\* Mutant of SignupCreate: INSERT OR REPLACE.
SignupReplace(t) ==
  /\ form[t].step = "checked"
  /\ up
  /\ account' = [account EXCEPT ![form[t].name] = Of[t]]
  /\ Fill(t, "created", form[t].name)
  /\ UNCHANGED <<up, token, stale, page, moved>>

\* Mutant of SignupCreate: the form goes on waiting after a refusal.
SignupHangs(t) ==
  /\ form[t].step = "checked"
  /\ up
  /\ account[form[t].name] = Nobody
  /\ account' = [account EXCEPT ![form[t].name] = Of[t]]
  /\ Fill(t, "created", form[t].name)
  /\ UNCHANGED <<up, token, stale, page, moved>>

\* CreateUser: the UNIQUE username decides between signups that both found none.
SignupCreate(t) ==
  /\ form[t].step = "checked"
  /\ up
  /\ IF account[form[t].name] = Nobody
     THEN /\ account' = [account EXCEPT ![form[t].name] = Of[t]]
          /\ Fill(t, "created", form[t].name)
     ELSE /\ form' = [form EXCEPT ![t] = NoForm]
          /\ UNCHANGED account
  /\ UNCHANGED <<up, token, stale, page, moved>>

\* The 201 with token and recovery phrase arrives: Signup shows the phrase.
SignupAnswer(t) ==
  /\ form[t].step = "created"
  /\ up
  /\ Fill(t, "phrase", form[t].name)
  /\ UNCHANGED <<account, up, token, stale, page, moved>>

\* "I've Saved My Recovery Phrase": only now is the token stored.
Confirm(t) ==
  /\ AsksLogin(t)
  /\ form[t].step = "phrase"
  /\ Enter(t, form[t].name)
  /\ UNCHANGED <<account, up>>
-----------------------------------------------------------------------------
(* The clock and the server *)

\* A day after it was issued the token is refused.
Expire(b) ==
  /\ token[b] # NoName
  /\ b \notin stale
  /\ stale' = stale \cup {b}
  /\ UNCHANGED <<account, up, token, page, form, moved>>

\* The server dies: accounts survive, requests in flight fail.
Down ==
  /\ up
  /\ up' = FALSE
  /\ page' = [t \in Tab |-> IF page[t].phase \in {"told", "denied"}
                            THEN Failed(page[t]) ELSE page[t]]
  /\ form' = [t \in Tab |-> IF form[t].step = "phrase" THEN form[t] ELSE NoForm]
  /\ UNCHANGED <<account, token, stale, moved>>

Start ==
  /\ ~up
  /\ up' = TRUE
  /\ UNCHANGED <<account, token, stale, page, form, moved>>

Next ==
  \/ \E t \in Tab : \/ Reload(t) \/ InitAsk(t) \/ InitAnswer(t)
                    \/ PollStatus(t) \/ Logout(t)
                    \/ SignupCreate(t) \/ SignupAnswer(t) \/ Confirm(t)
                    \/ \E u \in Username : Login(t, u) \/ SignupCheck(t, u)
  \/ \E b \in Person : Expire(b)
  \/ Down \/ Start

Spec == Init /\ [][Next]_vars

\* Requests are answered; people reload a page that shows them nothing, which then has
\* no request under way; polls happen; and those who are asked to log in, or to
\* confirm, do so in the end.
Proceed(t) == \/ InitAsk(t) \/ InitAnswer(t)
              \/ SignupCreate(t) \/ SignupAnswer(t)
              \/ (Blank(t) \/ ShowsError(t)) /\ Reload(t)
Persist(t) == Confirm(t) \/ \E u \in Username : Login(t, u)

FairSpec ==
  /\ Spec
  /\ \A t \in Tab : /\ WF_vars(Proceed(t))
                    /\ WF_vars(PollStatus(t))
                    /\ SF_vars(Persist(t))
-----------------------------------------------------------------------------
(* Properties *)

TypeOK ==
  /\ account \in [Username -> Person \cup {Nobody}]
  /\ up \in BOOLEAN
  /\ token \in [Person -> Names]
  /\ stale \subseteq {b \in Person : token[b] # NoName}
  /\ page \in [Tab -> Page]
  /\ form \in [Tab -> Form]
  /\ moved \subseteq Tab

\* The account a person holds a token for, or was told is theirs by a signup, is the
\* one they created, whoever else asked for the same username at the same time.
TokenOpensOwnAccount ==
  /\ \A b \in Person : token[b] # NoName => account[token[b]] = b
  /\ \A t \in Tab :
       form[t].step \in {"created", "phrase"} => account[form[t].name] = Of[t]

\* The mail page shows the identity it was once told, while its requests carry the
\* token stored at that moment.  The identity is always an account of the person at
\* the browser, and the two are the same account, across logouts, logins as somebody
\* else, failed requests and reloads, until another tab logs in or out.
IdentityIsOfToken ==
  \A t \in Tab : ShowsMail(t) =>
    /\ account[page[t].identity] = Of[t]
    /\ t \notin moved => page[t].identity = token[Of[t]]

\* Whoever has an account gets to their mail in one of their tabs once the server
\* stays up, by logging in and reloading, whatever the other tabs do meanwhile, unless
\* an expired token stays behind in the browser.
AccountHolderGetsIn ==
  \A b \in Person :
    <>[](up /\ b \notin stale) =>
      ((\E u \in Username : account[u] = b) ~> \E t \in Tab : Of[t] = b /\ ShowsMail(t))
=============================================================================
