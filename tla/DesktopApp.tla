------------------------------ MODULE DesktopApp ------------------------------
(***************************************************************************)
(* The desktop application: the Electron supervisor, the daemon processes  *)
(* it starts, and the identity they take from the data directory.          *)
(*                                                                         *)
(* A launch of the application looks for a free port and then starts a     *)
(* daemon.  The supervisor restarts a daemon that exits, after a delay and *)
(* a limited number of times, and stops it when the user quits.  Nothing   *)
(* keeps the application from being launched while it runs: the second     *)
(* launch has a port, a daemon and a budget of restarts of its own, on the *)
(* same data directory.  A daemon that was told to stop may still be       *)
(* closing then, and one whose application has died goes on.               *)
(*                                                                         *)
(* A starting daemon reads its key from the keypair table, or generates    *)
(* one, and then stores it; a user may also start one by hand, with a      *)
(* recovery phrase or without.                                             *)
(***************************************************************************)
EXTENDS Integers, Sequences, SequencesExt

CONSTANTS
  App,          \* launches of the application, each a process of its own
  Process,      \* daemon processes that may be started, each once
  Manual,       \* those of them the user starts by hand
  Phrase,       \* the key of the user's recovery phrase
  NoProcess,
  NoApp,
  MaxRestarts,  \* MAX_RESTARTS
  Faults        \* "start": a start may fail; "crash": a daemon or an app may die

ASSUME ConstantsAssumption ==
  /\ Phrase \notin Process
  /\ NoProcess \notin Process
  /\ Manual \subseteq Process
  /\ NoApp \notin App
  /\ MaxRestarts \in Nat
  /\ Faults \subseteq {"start", "crash"}

VARIABLES
  keys,       \* keypair table in rowid order
  app,        \* app[i]: "unborn", "open", "quitting" or "gone"
  searching,  \* launches that wait for findFreePort
  handle,     \* daemonProcess[i]: the process launch i looks after
  restarts,   \* restartCount[i]
  timer,      \* timer[i]: the process whose restart is scheduled
  stopped,    \* stopped[i]: the process that stopDaemon told to stop
  owner,      \* owner[p]: the launch that started process p
  proc,       \* proc[p]: how far process p has come
  key,        \* key[p]: the key process p works with
  served      \* history: the keys of the daemons that came up

supervisor == <<app, searching, handle, restarts, timer, stopped, owner>>
daemon == <<keys, proc, key, served>>
vars == <<supervisor, daemon>>

Stages == {"unborn", "begun", "keyed", "stored", "serving", "closing", "dead"}
Key == Process \cup {Phrase}
Alive(p) == proc[p] \notin {"unborn", "dead"}
Become(p, stage) == proc' = [proc EXCEPT ![p] = stage]

\* The supervisor's processes are started, and the application is launched, in a fixed
\* order, as the names carry no meaning.
Unborn == {p \in Process \ Manual : proc[p] = "unborn"}
NextProcess == CHOOSE p \in Unborn : TRUE
NextLaunch == CHOOSE i \in App : app[i] = "unborn"

\* The application's own process is there: its events and timers fire.
Running(i) == app[i] \in {"open", "quitting"}

Init ==
  /\ keys = <<>>
  /\ app = [i \in App |-> "unborn"]
  /\ searching = {}
  /\ handle = [i \in App |-> NoProcess]
  /\ restarts = [i \in App |-> 0]
  /\ timer = [i \in App |-> NoProcess]
  /\ stopped = [i \in App |-> NoProcess]
  /\ owner = [p \in Process |-> NoApp]
  /\ proc = [p \in Process |-> "unborn"]
  /\ key = [p \in Process |-> NoProcess]
  /\ served = {}
-----------------------------------------------------------------------------
(* main.go and daemon.New *)

\* -mnemonic gives the key; else GetKeyPair, the first row, or else a new key.
FirstKey(p) == IF keys = <<>> THEN p ELSE Head(keys)

ReadKey(p) ==
  /\ proc[p] = "begun"
  /\ key' = [key EXCEPT ![p] = IF @ = Phrase THEN Phrase ELSE FirstKey(p)]
  /\ Become(p, "keyed")
  /\ UNCHANGED <<supervisor, keys, served>>

\* SaveKeyPair: INSERT OR REPLACE deletes the row with that key, if there is one, and
\* gives the new one a new rowid, so it comes last.
StoreKey(p) ==
  /\ proc[p] = "keyed"
  /\ \/ key[p] \notin ToSet(keys) /\ keys' = Append(keys, key[p])
     \/ \E i \in DOMAIN keys : /\ keys[i] = key[p]
                              /\ keys' = Append(RemoveAt(keys, i), key[p])
  /\ Become(p, "stored")
  /\ UNCHANGED <<supervisor, key, served>>

\* Mutant of Serve: the node runs before the key is stored.
ServeFirst(p) ==
  /\ proc[p] \in {"keyed", "stored"}
  /\ served' = served \cup {key[p]}
  /\ Become(p, "serving")
  /\ UNCHANGED <<supervisor, keys, key>>

\* node.New succeeds; the API answers and the poll loop runs.
Serve(p) ==
  /\ proc[p] = "stored"
  /\ served' = served \cup {key[p]}
  /\ Become(p, "serving")
  /\ UNCHANGED <<supervisor, keys, key>>

\* log.Fatalf at any step of a start, or later: a crash, or a port that somebody took
\* between the search and the start.
Die(p) ==
  /\ \/ proc[p] \in {"begun", "keyed", "stored"} /\ "start" \in Faults
     \/ proc[p] \in {"serving", "closing"} /\ "crash" \in Faults
  /\ Become(p, "dead")
  /\ UNCHANGED <<supervisor, keys, key, served>>

\* Shutdown and Close: five seconds for requests, then as long as the goroutines need.
Closed(p) ==
  /\ proc[p] = "closing"
  /\ Become(p, "dead")
  /\ UNCHANGED <<supervisor, keys, key, served>>

\* Mutant of Terminated: a start in progress goes on.
TerminatedLate(stage) == IF stage = "serving" THEN "closing" ELSE stage

\* SIGTERM: until main has asked for it, the signal kills the process at once.
Terminated(stage) ==
  CASE stage = "serving" -> "closing"
    [] stage \in {"begun", "keyed", "stored"} -> "dead"
    [] OTHER -> stage

\* The user runs dmaild by hand in the same data directory, with the recovery phrase
\* or without, whatever else runs there, and stops it.
RunByHand(p) ==
  /\ p \in Manual
  /\ proc[p] = "unborn"
  /\ Become(p, "begun")
  /\ \E given \in {Phrase, NoProcess} : key' = [key EXCEPT ![p] = given]
  /\ UNCHANGED <<supervisor, keys, served>>

StopByHand(p) ==
  /\ Alive(p)
  /\ p \in Manual
  /\ Become(p, Terminated(proc[p]))
  /\ UNCHANGED <<supervisor, keys, key, served>>
-----------------------------------------------------------------------------
(* electron/main.js *)

\* startDaemon: spawn the process and look after it.
StartDaemon(i, p) ==
  /\ p \in Unborn
  /\ p = NextProcess
  /\ Become(p, "begun")
  /\ handle' = [handle EXCEPT ![i] = p]
  /\ owner' = [owner EXCEPT ![p] = i]
  /\ UNCHANGED <<keys, key, served>>

\* The application is launched, whether it already runs or not, and looks for a port.
Launch(i) ==
  /\ app[i] = "unborn"
  /\ i = NextLaunch
  /\ app' = [app EXCEPT ![i] = "open"]
  /\ searching' = searching \cup {i}
  /\ UNCHANGED <<handle, restarts, timer, stopped, owner, daemon>>

\* Mutant of FirstStart: a daemon that is slow to answer is started again.
FirstStartAgain(i, p) ==
  /\ Running(i)
  /\ i \in searching
  /\ StartDaemon(i, p)
  /\ UNCHANGED <<app, searching, restarts, timer, stopped>>

\* findFreePort has answered: start the daemon, even if the user has quit meanwhile.
FirstStart(i, p) ==
  /\ Running(i)
  /\ i \in searching
  /\ searching' = searching \ {i}
  /\ StartDaemon(i, p)
  /\ UNCHANGED <<app, restarts, timer, stopped>>

\* Mutant of Exited: counts restarts but does not limit them.
ExitedUnlimited(i) ==
  /\ Running(i)
  /\ handle[i] # NoProcess
  /\ proc[handle[i]] = "dead"
  /\ timer[i] # handle[i]
  /\ restarts' = [restarts EXCEPT ![i] = @ + 1]
  /\ timer' = [timer EXCEPT ![i] = handle[i]]
  /\ UNCHANGED <<app, searching, handle, stopped, owner, daemon>>

\* Mutant of Exited: forgets the process before the delay instead of after it.
ExitedForgets(i) ==
  /\ Running(i)
  /\ handle[i] # NoProcess
  /\ proc[handle[i]] = "dead"
  /\ restarts[i] < MaxRestarts
  /\ restarts' = [restarts EXCEPT ![i] = @ + 1]
  /\ timer' = [timer EXCEPT ![i] = handle[i]]
  /\ handle' = [handle EXCEPT ![i] = NoProcess]
  /\ UNCHANGED <<app, searching, stopped, owner, daemon>>

\* The exit event: schedule a restart, unless the daemon was stopped or the budget is spent.
Exited(i) ==
  /\ Running(i)
  /\ handle[i] # NoProcess
  /\ proc[handle[i]] = "dead"
  /\ timer[i] # handle[i]
  /\ restarts[i] < MaxRestarts
  /\ restarts' = [restarts EXCEPT ![i] = @ + 1]
  /\ timer' = [timer EXCEPT ![i] = handle[i]]
  /\ UNCHANGED <<app, searching, handle, stopped, owner, daemon>>

\* Mutant of Restart: does not look again whether the daemon was stopped meanwhile.
RestartUnchecked(i, p) ==
  /\ Running(i)
  /\ timer[i] # NoProcess
  /\ timer' = [timer EXCEPT ![i] = NoProcess]
  /\ StartDaemon(i, p)
  /\ UNCHANGED <<app, searching, restarts, stopped>>

\* RESTART_DELAY later: start another daemon if that process is still looked after.
Restart(i, p) ==
  /\ Running(i)
  /\ timer[i] # NoProcess
  /\ handle[i] = timer[i]
  /\ timer' = [timer EXCEPT ![i] = NoProcess]
  /\ StartDaemon(i, p)
  /\ UNCHANGED <<app, searching, restarts, stopped>>

\* before-quit: stopDaemon forgets the process, if there is one, tells it to stop and
\* sets a timer.
Quit(i) ==
  /\ app[i] = "open"
  /\ app' = [app EXCEPT ![i] = "quitting"]
  /\ handle' = [handle EXCEPT ![i] = NoProcess]
  /\ stopped' = [stopped EXCEPT ![i] = handle[i]]
  /\ proc' = [p \in Process |-> IF p = handle[i] THEN Terminated(proc[p]) ELSE proc[p]]
  /\ UNCHANGED <<searching, restarts, timer, owner, keys, key, served>>

\* Five seconds later the stopped process is killed, if the app is still there.
Kill(i) ==
  /\ app[i] = "quitting"
  /\ stopped[i] # NoProcess
  /\ Alive(stopped[i])
  /\ Become(stopped[i], "dead")
  /\ UNCHANGED <<supervisor, keys, key, served>>

\* The app's own process ends, or dies, and its memory and timers with it.
Leave(i) ==
  /\ app[i] = "quitting" \/ (app[i] = "open" /\ "crash" \in Faults)
  /\ app' = [app EXCEPT ![i] = "gone"]
  /\ searching' = searching \ {i}
  /\ handle' = [handle EXCEPT ![i] = NoProcess]
  /\ restarts' = [restarts EXCEPT ![i] = 0]
  /\ timer' = [timer EXCEPT ![i] = NoProcess]
  /\ UNCHANGED <<stopped, owner, daemon>>

Run(p) == ReadKey(p) \/ StoreKey(p) \/ Serve(p) \/ Closed(p)
Supervise(i) == Exited(i) \/ \E p \in Process : FirstStart(i, p) \/ Restart(i, p)

Next ==
  \/ \E p \in Process : Run(p) \/ Die(p) \/ RunByHand(p) \/ StopByHand(p)
  \/ \E i \in App : Launch(i) \/ Supervise(i) \/ Quit(i) \/ Kill(i) \/ Leave(i)

Spec == Init /\ [][Next]_vars

\* Processes run, and a supervisor's events and timers fire while it lives; the user
\* need not quit, nothing must crash.
FairSpec ==
  /\ Spec
  /\ \A p \in Process : WF_vars(Run(p))
  /\ \A i \in App : WF_vars(Supervise(i))
-----------------------------------------------------------------------------
(* Properties *)

\* Every variable keeps its type, and the restarts of a launch stay within MAX_RESTARTS.
TypeOK ==
  /\ keys \in Seq(Key)
  /\ app \in [App -> {"unborn", "open", "quitting", "gone"}]
  /\ searching \subseteq App
  /\ {handle, timer, stopped} \subseteq [App -> Process \cup {NoProcess}]
  /\ restarts \in [App -> 0..MaxRestarts]
  /\ owner \in [Process -> App \cup {NoApp}]
  /\ proc \in [Process -> Stages]
  /\ key \in [Process -> Key \cup {NoProcess}]
  /\ served \subseteq Key

\* The restart timer is not cancelled by quitting: whatever it finds when it fires, an
\* application that has stopped its daemon, running or crashed, starts no other.
QuitStaysQuit ==
  [][\A p \in Process : owner[p] = NoApp /\ owner'[p] # NoApp =>
       stopped[owner'[p]] = NoProcess]_vars

\* Two daemons of one launch never start or serve at once; only one that was told to
\* stop may still be closing.
OneDaemonAtATime ==
  \A p, q \in Process :
    /\ owner[p] = owner[q] /\ owner[p] # NoApp
    /\ Alive(p) /\ Alive(q) /\ "closing" \notin {proc[p], proc[q]}
    => p = q

\* An open app that has its port looks after a daemon of its own that nothing has told to
\* stop, and a restart that is scheduled is that daemon's: when it fires it finds what it
\* expects, whatever the other launches do.
OpenAppHasItsDaemon ==
  \A i \in App : app[i] = "open" /\ i \notin searching =>
    /\ handle[i] # NoProcess
    /\ owner[handle[i]] = i
    /\ proc[handle[i]] # "closing"
    /\ timer[i] \in {NoProcess, handle[i]}

\* A key that a daemon has worked with stays in the data directory, whatever crashes,
\* restarts, launches, restores and daemons run by hand there are, at the same time or not.
IdentityIsKept == served \subseteq ToSet(keys)

\* A new identity is only ever made before any daemon has come up.  (Daemons that start
\* together on an empty table may make one each.)
NoLaterIdentity == [][\A p \in Process : key[p] # p /\ key'[p] = p => served = {}]_vars

\* While the app is open its daemon comes up, and again after a crash, until one has died
\* that no restart is left for (or the instance has no process left).
DaemonComesBack ==
  \A i \in App :
    (app[i] = "open") ~>
      \/ handle[i] # NoProcess /\ proc[handle[i]] = "serving"
      \/ app[i] # "open"
      \/ /\ restarts[i] = MaxRestarts /\ timer[i] = NoProcess
         /\ handle[i] # NoProcess /\ proc[handle[i]] = "dead"
      \/ Unborn = {}

\* Quitting ends the daemon, even if the app is gone before its timer can kill it.
QuitEndsDaemon ==
  \A p \in Process : (\E i \in App : stopped[i] = p) ~> (proc[p] = "dead")

\* USER_GUIDE: "Your original Dmail address is restored. New messages sent to that
\* address will arrive as usual."  Once a daemon came up with the phrase, one that
\* starts later, with nothing else running, takes it too.
RestoredAddressStays ==
  [][\A p \in Process :
       /\ Phrase \in served
       /\ proc[p] = "begun" /\ proc'[p] = "keyed"
       /\ \A q \in Process \ {p} : ~Alive(q)
       => key'[p] = Phrase]_vars
=============================================================================
