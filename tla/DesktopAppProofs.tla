--------------------------- MODULE DesktopAppProofs ---------------------------
(***************************************************************************)
(* Proofs about the supervisor of DesktopApp, for any number of launches,  *)
(* processes and restarts: who is started and looked after, and with which *)
(* key.                                                                    *)
(***************************************************************************)
EXTENDS DesktopApp, SequenceTheorems, TLAPS

\* What the processes and the supervisors' variables range over.
Typed ==
  /\ proc \in [Process -> Stages]
  /\ app \in [App -> {"unborn", "open", "quitting", "gone"}]
  /\ searching \subseteq App
  /\ {handle, timer, stopped} \subseteq [App -> Process \cup {NoProcess}]
  /\ owner \in [Process -> App \cup {NoApp}]

\* A process that uses the keypair table, or is about to.
Active(p) == Alive(p) /\ proc[p] # "closing"

\* What a process has to do with the launch that started it: it is not one that the user
\* starts, and if it is active the launch, unless it is gone, looks after it.
OwnedWell(p) ==
  owner[p] # NoApp =>
    /\ p \notin Manual /\ proc[p] # "unborn"
    /\ owner[p] \notin searching /\ app[owner[p]] # "unborn"
    /\ Active(p) => handle[owner[p]] = p \/ app[owner[p]] = "gone"

\* What a launch looks after is its own; a restart that is scheduled is that of a dead
\* process; and a launch that has stopped a daemon looks after none and awaits none.
LaunchWell(i) ==
  /\ handle[i] # NoProcess => owner[handle[i]] = i
  /\ timer[i] # NoProcess => proc[timer[i]] = "dead"
  /\ stopped[i] # NoProcess => handle[i] = NoProcess /\ i \notin searching
  /\ stopped[i] # NoProcess => proc[stopped[i]] # "unborn"
  /\ i \in searching => timer[i] = NoProcess
  /\ app[i] = "unborn" =>
       i \notin searching /\ stopped[i] = NoProcess /\ timer[i] = NoProcess

\* The supervisors' invariant: each launch minds its own daemons, one at a time.
SupervisorInv ==
  /\ Typed
  /\ \A p \in Process : OwnedWell(p)
  /\ \A i \in App : LaunchWell(i)
  /\ \A p, q \in Process :
       owner[p] = owner[q] /\ owner[p] # NoApp /\ Active(p) /\ Active(q) => p = q

\* Nothing but Init is needed to establish it.
LEMMA InitSupervised == Init => SupervisorInv
BY DEF Init, SupervisorInv, Typed, Stages, OwnedWell, LaunchWell

\* NextProcess is a process that has not begun.
LEMMA NextIsUnborn ==
  ASSUME NEW p \in Unborn
  PROVE  p \in Process \ Manual /\ proc[p] = "unborn"
BY DEF Unborn

\* A process that moves on, without the supervisor, and not back to life.
LEMMA MovedOn ==
  ASSUME SupervisorInv, NEW p \in Process, NEW stage \in Stages \ {"unborn"},
         Become(p, stage), UNCHANGED supervisor, proc[p] # "dead",
         \/ owner[p] = NoApp
         \/ stage \in {"closing", "dead"}
         \/ Active(p)
  PROVE  SupervisorInv'
<1>1. Typed
  BY DEF SupervisorInv
<1>2. /\ proc'[p] = stage
      /\ \A q \in Process \ {p} : proc'[q] = proc[q]
      /\ proc' \in [Process -> Stages]
  BY <1>1 DEF Become, Typed
<1>3. UNCHANGED <<app, searching, handle, timer, stopped, owner>>
  BY DEF supervisor
<1>4. Typed'
  BY <1>1, <1>2, <1>3 DEF Typed
<1>5. \A q \in Process : Active(q)' /\ owner[q] # NoApp => Active(q)
  BY <1>2 DEF Active, Alive
<1>6. \A q \in Process : OwnedWell(q)'
  BY <1>2, <1>3, <1>5 DEF SupervisorInv, OwnedWell
<1>7. ASSUME NEW i \in App PROVE LaunchWell(i)'
  <2>1. LaunchWell(i) /\ timer[i] \in Process \cup {NoProcess}
        /\ stopped[i] \in Process \cup {NoProcess}
    BY <1>1 DEF SupervisorInv, Typed
  <2>2. QED
    BY <1>2, <1>3, <2>1 DEF LaunchWell
<1>8. QED
  BY <1>3, <1>4, <1>5, <1>6, <1>7 DEF SupervisorInv

\* A daemon is started by a launch that has no other that is active.
LEMMA StartedAlone ==
  ASSUME SupervisorInv, NEW i \in App, NEW p \in Process, StartDaemon(i, p), Running(i),
         \A q \in Process : owner[q] = i => ~Active(q),
         stopped[i] = NoProcess, UNCHANGED <<app, stopped>>, searching' = searching \ {i},
         timer' = timer \/ timer' = [timer EXCEPT ![i] = NoProcess]
  PROVE  SupervisorInv'
<1>1. Typed
  BY DEF SupervisorInv
<1>2. proc[p] = "unborn" /\ p \notin Manual /\ i # NoApp
  BY NextIsUnborn, ConstantsAssumption DEF StartDaemon
<1>3. /\ proc'[p] = "begun"
      /\ \A q \in Process \ {p} : proc'[q] = proc[q]
      /\ proc' \in [Process -> Stages]
  BY <1>1 DEF StartDaemon, Become, Stages, Typed
<1>4. /\ handle' \in [App -> Process \cup {NoProcess}] /\ handle'[i] = p
      /\ \A j \in App \ {i} : handle'[j] = handle[j]
      /\ owner' \in [Process -> App \cup {NoApp}] /\ owner'[p] = i
      /\ \A q \in Process \ {p} : owner'[q] = owner[q]
  BY <1>1 DEF StartDaemon, Typed
<1>5. /\ timer' \in [App -> Process \cup {NoProcess}]
      /\ \A j \in App : timer'[j] \in {timer[j], NoProcess}
  BY <1>1 DEF Typed
<1>6. Typed'
  BY <1>1, <1>3, <1>4, <1>5 DEF Typed
<1>7. owner[p] = NoApp
  BY <1>2 DEF SupervisorInv, OwnedWell
<1>8. \A q \in Process \ {p} : Active(q)' <=> Active(q)
  BY <1>3 DEF Active, Alive
<1>9. ASSUME NEW q \in Process PROVE OwnedWell(q)'
  <2>1. CASE q = p
    BY <1>2, <1>3, <1>4, <2>1 DEF OwnedWell, Running
  <2>2. CASE q # p
    <3>1. OwnedWell(q) /\ owner[q] \in App \cup {NoApp}
      BY <1>1 DEF SupervisorInv, Typed
    <3>2. owner[q] = i => ~Active(q)
      OBVIOUS
    <3>3. owner[q] \in App \ {i} => handle'[owner[q]] = handle[owner[q]]
      BY <1>4
    <3>4. /\ proc'[q] = proc[q] /\ owner'[q] = owner[q] /\ (Active(q)' <=> Active(q))
          /\ app' = app /\ searching' \subseteq searching
      BY <1>3, <1>4, <1>8, <2>2
    <3>5. QED
      BY <3>1, <3>2, <3>3, <3>4 DEF OwnedWell
  <2>3. QED
    BY <2>1, <2>2
<1>10. ASSUME NEW j \in App PROVE LaunchWell(j)'
  <2>1. LaunchWell(j) /\ handle[j] \in Process \cup {NoProcess}
        /\ timer[j] \in Process \cup {NoProcess} /\ stopped[j] \in Process \cup {NoProcess}
    BY <1>1 DEF SupervisorInv, Typed
  <2>2. handle'[j] # NoProcess => owner'[handle'[j]] = j
    <3>1. CASE j = i
      BY <1>4, <3>1
    <3>2. CASE j # i
      <4>1. handle'[j] = handle[j]
        BY <1>4, <3>2
      <4>2. handle[j] # NoProcess => handle[j] \in Process \ {p}
        BY <1>2, <1>7, <2>1, ConstantsAssumption DEF LaunchWell
      <4>3. QED
        BY <1>4, <2>1, <4>1, <4>2 DEF LaunchWell
    <3>3. QED
      BY <3>1, <3>2
  <2>3. timer'[j] # NoProcess => proc'[timer'[j]] = "dead"
    BY <1>2, <1>3, <1>5, <2>1 DEF LaunchWell
  <2>4. stopped'[j] # NoProcess => /\ handle'[j] = NoProcess /\ j \notin searching'
                                   /\ proc'[stopped'[j]] # "unborn"
    BY <1>2, <1>3, <1>4, <2>1 DEF LaunchWell
  <2>5. /\ j \in searching' => timer'[j] = NoProcess
        /\ app'[j] = "unborn" =>
             j \notin searching' /\ stopped'[j] = NoProcess /\ timer'[j] = NoProcess
    BY <1>5, <2>1 DEF LaunchWell
  <2>6. QED
    BY <2>2, <2>3, <2>4, <2>5 DEF LaunchWell
<1>11. ASSUME NEW q \in Process, NEW r \in Process, owner'[q] = owner'[r],
              owner'[q] # NoApp, Active(q)', Active(r)'
       PROVE  q = r
  <2>1. CASE q = p /\ r # p
    BY <1>4, <1>8, <1>11, <2>1
  <2>2. CASE q # p /\ r = p
    BY <1>4, <1>8, <1>11, <2>2
  <2>3. CASE q # p /\ r # p
    BY <1>4, <1>8, <1>11, <2>3 DEF SupervisorInv
  <2>4. QED
    BY <2>1, <2>2, <2>3
<1>12. QED
  BY <1>6, <1>9, <1>10, <1>11 DEF SupervisorInv

\* Stopping a daemon, killing it and leaving only end processes and clear variables.
LEMMA SettledDown ==
  ASSUME SupervisorInv, NEW i \in App, Typed',
         UNCHANGED owner, searching' \subseteq searching, timer' = timer \/ timer'[i] = NoProcess,
         \A j \in App \ {i} : app'[j] = app[j] /\ handle'[j] = handle[j] /\ timer'[j] = timer[j]
                              /\ stopped'[j] = stopped[j],
         handle'[i] = NoProcess, app[i] # "unborn", app'[i] # "unborn",
         stopped'[i] = stopped[i] \/ stopped'[i] = handle[i],
         \A q \in Process : /\ proc'[q] = "unborn" <=> proc[q] = "unborn"
                            /\ proc[q] = "dead" => proc'[q] = "dead"
                            /\ Active(q)' => Active(q)
                            /\ owner[q] = i /\ Active(q)' => app'[i] = "gone",
         stopped'[i] # NoProcess => i \notin searching'
  PROVE  SupervisorInv'
<1>1. Typed
  BY DEF SupervisorInv
<1>2. ASSUME NEW q \in Process PROVE OwnedWell(q)'
  <2>1. OwnedWell(q) /\ owner[q] \in App \cup {NoApp} /\ owner' = owner
    BY <1>1 DEF SupervisorInv, Typed
  <2>2. CASE owner[q] = i
    BY <2>1, <2>2 DEF OwnedWell
  <2>3. CASE owner[q] # i
    BY <2>1, <2>3 DEF OwnedWell
  <2>4. QED
    BY <2>2, <2>3
<1>3. ASSUME NEW j \in App PROVE LaunchWell(j)'
  <2>1. /\ LaunchWell(j) /\ handle[j] \in Process \cup {NoProcess}
        /\ timer[j] \in Process \cup {NoProcess} /\ stopped[j] \in Process \cup {NoProcess}
        /\ \A q \in Process : owner[q] = i => proc[q] # "unborn"
        /\ owner' = owner
    BY <1>1, ConstantsAssumption DEF SupervisorInv, Typed, OwnedWell
  <2>2. CASE j = i
    BY <2>1, <2>2 DEF LaunchWell
  <2>3. CASE j # i
    BY <2>1, <2>3 DEF LaunchWell
  <2>4. QED
    BY <2>2, <2>3
<1>4. QED
  BY <1>2, <1>3 DEF SupervisorInv

\* A signal ends a start, lets a daemon that serves close, and brings nothing to life.
LEMMA TerminatedEnds ==
  ASSUME NEW stage \in Stages
  PROVE  /\ Terminated(stage) \in Stages
         /\ Terminated(stage) = "unborn" <=> stage = "unborn"
         /\ stage = "dead" => Terminated(stage) = "dead"
         /\ Terminated(stage) \in {"unborn", "closing", "dead"}
BY DEF Terminated, Stages

\* SupervisorInv is inductive.
LEMMA NextSupervised == SupervisorInv /\ [Next]_vars => SupervisorInv'
<1> SUFFICES ASSUME SupervisorInv, [Next]_vars PROVE SupervisorInv'
  OBVIOUS
<1>1. Typed /\ NoProcess \notin Process /\ NoApp \notin App
  BY ConstantsAssumption DEF SupervisorInv
<1>2. ASSUME NEW p \in Process, ReadKey(p) \/ StoreKey(p) \/ Serve(p) PROVE SupervisorInv'
  BY <1>2, MovedOn DEF ReadKey, StoreKey, Serve, Active, Alive, Stages
<1>3. ASSUME NEW p \in Process, Closed(p) \/ Die(p) PROVE SupervisorInv'
  BY <1>3, MovedOn DEF Closed, Die, Stages
<1>4. ASSUME NEW p \in Process, RunByHand(p) PROVE SupervisorInv'
  <2>1. owner[p] = NoApp /\ proc[p] # "dead"
    BY <1>4 DEF RunByHand, SupervisorInv, OwnedWell
  <2>2. QED
    BY <1>4, <2>1, MovedOn DEF RunByHand, Stages
<1>5. ASSUME NEW p \in Process, StopByHand(p) PROVE SupervisorInv'
  <2>1. owner[p] = NoApp
    BY <1>5 DEF StopByHand, SupervisorInv, OwnedWell
  <2>2. proc[p] \in Stages \ {"unborn", "dead"}
    BY <1>1, <1>5 DEF StopByHand, Alive, Typed
  <2>3. Terminated(proc[p]) \in Stages \ {"unborn"}
    BY <2>2, TerminatedEnds
  <2>4. QED
    BY <1>5, <2>1, <2>2, <2>3, MovedOn DEF StopByHand
<1>6. ASSUME NEW i \in App, Launch(i) PROVE SupervisorInv'
  <2>1. /\ app[i] = "unborn" /\ app' = [app EXCEPT ![i] = "open"]
        /\ searching' = searching \cup {i}
        /\ UNCHANGED <<handle, timer, stopped, owner, proc>>
    BY <1>6 DEF Launch, daemon
  <2>2. /\ app'[i] = "open" /\ \A j \in App \ {i} : app'[j] = app[j]
        /\ Typed'
    BY <1>1, <2>1 DEF Typed
  <2>3. \A p \in Process : owner[p] # i
    BY <1>1, <2>1 DEF SupervisorInv, OwnedWell
  <2>4. handle[i] = NoProcess
    BY <1>1, <2>3 DEF SupervisorInv, LaunchWell, Typed
  <2>5. ASSUME NEW p \in Process PROVE OwnedWell(p)'
    <3>1. owner[p] \in (App \ {i}) \cup {NoApp} /\ OwnedWell(p)
      BY <1>1, <2>3 DEF Typed, SupervisorInv
    <3>2. QED
      BY <2>1, <2>2, <3>1 DEF OwnedWell, Active, Alive
  <2>6. ASSUME NEW j \in App PROVE LaunchWell(j)'
    BY <2>1, <2>2, <2>4 DEF SupervisorInv, LaunchWell
  <2>7. QED
    BY <2>1, <2>2, <2>5, <2>6 DEF SupervisorInv, Active, Alive
<1>7. ASSUME NEW i \in App, NEW p \in Process, FirstStart(i, p) PROVE SupervisorInv'
  <2>1. \A q \in Process : owner[q] # i
    BY <1>1, <1>7 DEF FirstStart, SupervisorInv, OwnedWell
  <2>2. stopped[i] = NoProcess
    BY <1>7 DEF FirstStart, SupervisorInv, LaunchWell
  <2>3. QED
    BY <1>7, <2>1, <2>2, StartedAlone DEF FirstStart
<1>8. ASSUME NEW i \in App, NEW p \in Process, Restart(i, p) PROVE SupervisorInv'
  <2>1. /\ handle[i] # NoProcess /\ handle[i] \in Process
        /\ proc[handle[i]] = "dead" /\ owner[handle[i]] = i
    BY <1>1, <1>8 DEF Restart, SupervisorInv, LaunchWell, Typed
  <2>2. \A q \in Process : owner[q] = i => ~Active(q)
    BY <1>1, <1>8, <2>1 DEF Restart, Running, SupervisorInv, OwnedWell, Active, Alive
  <2>3. stopped[i] = NoProcess
    BY <2>1 DEF SupervisorInv, LaunchWell
  <2>4. searching' = searching \ {i}
    BY <1>1, <1>8, <2>1 DEF Restart, SupervisorInv, OwnedWell
  <2>5. QED
    BY <1>8, <2>2, <2>3, <2>4, StartedAlone DEF Restart
<1>9. ASSUME NEW i \in App, Exited(i) PROVE SupervisorInv'
  <2>1. /\ timer' = [timer EXCEPT ![i] = handle[i]] /\ proc[handle[i]] = "dead"
        /\ UNCHANGED <<app, searching, handle, stopped, owner, proc>>
    BY <1>9 DEF Exited, daemon
  <2>2. Typed' /\ \A j \in App : timer'[j] = IF j = i THEN handle[i] ELSE timer[j]
    BY <1>1, <2>1 DEF Typed
  <2>3. i \notin searching /\ app[i] # "unborn"
    BY <1>1, <1>9 DEF Exited, Running, SupervisorInv, OwnedWell, LaunchWell, Typed
  <2>4. \A p \in Process : OwnedWell(p)'
    BY <2>1 DEF SupervisorInv, OwnedWell, Active, Alive
  <2>5. \A j \in App : LaunchWell(j)'
    BY <2>1, <2>2, <2>3 DEF SupervisorInv, LaunchWell
  <2>6. QED
    BY <2>1, <2>2, <2>4, <2>5 DEF SupervisorInv, Active, Alive
<1>10. ASSUME NEW i \in App, Quit(i) PROVE SupervisorInv'
  <2>1. /\ app[i] = "open" /\ app' = [app EXCEPT ![i] = "quitting"]
        /\ handle' = [handle EXCEPT ![i] = NoProcess]
        /\ stopped' = [stopped EXCEPT ![i] = handle[i]]
        /\ proc' = [p \in Process |-> IF p = handle[i] THEN Terminated(proc[p]) ELSE proc[p]]
        /\ UNCHANGED <<searching, timer, owner>>
    BY <1>10 DEF Quit
  <2>2. \A q \in Process : /\ Terminated(proc[q]) \in Stages
                           /\ Terminated(proc[q]) = "unborn" <=> proc[q] = "unborn"
                           /\ proc[q] = "dead" => Terminated(proc[q]) = "dead"
                           /\ Terminated(proc[q]) \in {"unborn", "closing", "dead"}
    BY <1>1, TerminatedEnds DEF Typed
  <2>3. Typed'
    BY <1>1, <2>1, <2>2 DEF Typed
  <2>4. /\ handle'[i] = NoProcess /\ app'[i] = "quitting" /\ stopped'[i] = handle[i]
        /\ \A j \in App \ {i} : app'[j] = app[j] /\ handle'[j] = handle[j]
                                /\ stopped'[j] = stopped[j]
    BY <1>1, <2>1 DEF Typed
  <2>5. \A q \in Process : /\ proc'[q] = "unborn" <=> proc[q] = "unborn"
                           /\ proc[q] = "dead" => proc'[q] = "dead"
                           /\ Active(q)' => Active(q) /\ q # handle[i]
    BY <2>1, <2>2 DEF Active, Alive
  <2>6. \A q \in Process : owner[q] = i /\ Active(q)' => app'[i] = "gone"
    BY <1>1, <2>1, <2>5 DEF SupervisorInv, OwnedWell
  <2>7. stopped'[i] # NoProcess => i \notin searching'
    BY <1>1, <2>1, <2>4 DEF SupervisorInv, LaunchWell, OwnedWell, Typed
  <2>8. QED
    BY <2>1, <2>3, <2>4, <2>5, <2>6, <2>7, SettledDown
<1>11. ASSUME NEW i \in App, Kill(i) PROVE SupervisorInv'
  <2>1. stopped[i] \in Process
    BY <1>1, <1>11 DEF Kill, Typed
  <2>2. QED
    BY <1>11, <2>1, MovedOn DEF Kill, Alive, Stages
<1>12. ASSUME NEW i \in App, Leave(i) PROVE SupervisorInv'
  <2>1. /\ app[i] # "unborn" /\ app' = [app EXCEPT ![i] = "gone"]
        /\ searching' = searching \ {i}
        /\ handle' = [handle EXCEPT ![i] = NoProcess]
        /\ timer' = [timer EXCEPT ![i] = NoProcess]
        /\ UNCHANGED <<stopped, owner, proc>>
    BY <1>12 DEF Leave, daemon
  <2>2. Typed'
    BY <1>1, <2>1 DEF Typed
  <2>3. /\ handle'[i] = NoProcess /\ app'[i] = "gone" /\ timer'[i] = NoProcess
        /\ \A j \in App \ {i} : app'[j] = app[j] /\ handle'[j] = handle[j]
                                /\ timer'[j] = timer[j] /\ stopped'[j] = stopped[j]
    BY <1>1, <2>1 DEF Typed
  <2>4. \A q \in Process : Active(q)' => Active(q)
    BY <2>1 DEF Active, Alive
  <2>5. QED
    BY <2>1, <2>2, <2>3, <2>4, SettledDown
<1>13. CASE UNCHANGED vars
  BY <1>13 DEF vars, supervisor, daemon, SupervisorInv, Typed, OwnedWell, LaunchWell,
               Active, Alive
<1>14. QED
  BY <1>2, <1>3, <1>4, <1>5, <1>6, <1>7, <1>8, <1>9, <1>10, <1>11, <1>12, <1>13
     DEF Next, Run, Supervise

\* The invariant of every behaviour.
LEMMA Supervised == Spec => []SupervisorInv
BY InitSupervised, NextSupervised, PTL DEF Spec

\* Two daemons of one launch never start or serve at once, across crashes and restarts,
\* whatever other launches of the application and daemons started by hand do.
THEOREM OneDaemon == Spec => []OneDaemonAtATime
<1>1. SupervisorInv => OneDaemonAtATime
  BY DEF SupervisorInv, OneDaemonAtATime, Active
<1>2. QED
  BY <1>1, Supervised, PTL
-----------------------------------------------------------------------------
(* Quitting *)

\* What QuitStaysQuit says of a step.
NoStartAfterStop ==
  \A p \in Process : owner[p] = NoApp /\ owner'[p] # NoApp => stopped[owner'[p]] = NoProcess

\* A start that is due finds a daemon that is still looked after, or none so far.
LEMMA StartsOnlyBeforeStop == SupervisorInv /\ Next => NoStartAfterStop
<1> SUFFICES ASSUME SupervisorInv, Next PROVE NoStartAfterStop
  OBVIOUS
<1>1. CASE UNCHANGED owner
  BY <1>1 DEF NoStartAfterStop
<1>2. ASSUME NEW i \in App, NEW p \in Process, FirstStart(i, p) \/ Restart(i, p)
      PROVE  NoStartAfterStop
  <2>1. stopped[i] = NoProcess
    BY <1>2 DEF FirstStart, Restart, SupervisorInv, LaunchWell
  <2>2. \A q \in Process : owner'[q] = IF q = p THEN i ELSE owner[q]
    BY <1>2 DEF FirstStart, Restart, StartDaemon, SupervisorInv, Typed
  <2>3. QED
    BY <2>1, <2>2 DEF NoStartAfterStop
<1>3. QED
  BY <1>1, <1>2 DEF Next, Run, ReadKey, StoreKey, Serve, Closed, Die, RunByHand, StopByHand,
       Launch, Supervise, Exited, Quit, Kill, Leave, supervisor

\* A restart timer that quitting leaves running starts no daemon.
THEOREM QuittingIsFinal == Spec => QuitStaysQuit
<1>1. SupervisorInv /\ [Next]_vars => [NoStartAfterStop]_vars
  BY StartsOnlyBeforeStop
<1>2. QED
  BY <1>1, Supervised, PTL DEF Spec, QuitStaysQuit, NoStartAfterStop
-----------------------------------------------------------------------------
(* The daemon of an open application *)

\* No step leaves an open application without its daemon, or with another one's timer.
LEMMA OpenStep ==
  SupervisorInv /\ OpenAppHasItsDaemon /\ [Next]_vars => OpenAppHasItsDaemon'
<1> SUFFICES ASSUME SupervisorInv, OpenAppHasItsDaemon, [Next]_vars,
                    NEW i \in App, app'[i] = "open", i \notin searching'
             PROVE  /\ handle'[i] # NoProcess
                    /\ owner'[handle'[i]] = i
                    /\ proc'[handle'[i]] # "closing"
                    /\ timer'[i] \in {NoProcess, handle'[i]}
  BY DEF OpenAppHasItsDaemon
<1>1. Typed /\ NoProcess \notin Process /\ NoApp \notin App
  BY ConstantsAssumption DEF SupervisorInv
<1> DEFINE Same == app'[i] = app[i] /\ (i \in searching' <=> i \in searching)
                   /\ handle'[i] = handle[i] /\ timer'[i] = timer[i]
           Good == /\ handle'[i] # NoProcess
                   /\ owner'[handle'[i]] = i
                   /\ proc'[handle'[i]] # "closing"
                   /\ timer'[i] \in {NoProcess, handle'[i]}
<1>2. ASSUME Same, handle[i] \in Process => owner'[handle[i]] = owner[handle[i]],
             handle[i] \in Process /\ owner[handle[i]] = i =>
               proc'[handle[i]] = proc[handle[i]] \/ proc'[handle[i]] # "closing"
      PROVE  Good
  <2>1. handle[i] \in Process \cup {NoProcess}
    BY <1>1 DEF Typed
  <2>2. /\ handle[i] # NoProcess /\ owner[handle[i]] = i
        /\ proc[handle[i]] # "closing" /\ timer[i] \in {NoProcess, handle[i]}
    BY <1>2 DEF OpenAppHasItsDaemon
  <2>3. QED
    BY <1>2, <2>1, <2>2
<1>3. ASSUME NEW p \in Process,
             ReadKey(p) \/ StoreKey(p) \/ Serve(p) \/ Closed(p) \/ Die(p) \/ RunByHand(p)
      PROVE  Good
  BY <1>1, <1>2, <1>3 DEF ReadKey, StoreKey, Serve, Closed, Die, RunByHand, Become, Typed,
                          supervisor
<1>4. ASSUME NEW p \in Process, StopByHand(p) PROVE Good
  <2>1. owner[p] = NoApp
    BY <1>4 DEF StopByHand, SupervisorInv, OwnedWell
  <2>2. QED
    BY <1>1, <1>2, <1>4, <2>1 DEF StopByHand, Become, Typed, supervisor
<1>5. ASSUME NEW j \in App, Launch(j) PROVE Good
  <2>1. j # i
    BY <1>5 DEF Launch
  <2>2. app'[i] = app[i]
    BY <1>1, <1>5, <2>1 DEF Launch, Typed
  <2>3. QED
    BY <1>2, <1>5, <2>1, <2>2 DEF Launch, daemon
<1>6. ASSUME NEW j \in App, NEW p \in Process, FirstStart(j, p) \/ Restart(j, p) PROVE Good
  <2>1. proc[p] = "unborn" /\ owner[p] = NoApp
    BY <1>6, NextIsUnborn DEF FirstStart, Restart, StartDaemon, SupervisorInv, OwnedWell
  <2>2. /\ handle' = [handle EXCEPT ![j] = p] /\ owner' = [owner EXCEPT ![p] = j]
        /\ proc' = [proc EXCEPT ![p] = "begun"] /\ app' = app
    BY <1>6 DEF FirstStart, Restart, StartDaemon, Become
  <2>3. CASE j = i
    <3>1. timer'[i] \in {NoProcess}
      <4>1. CASE Restart(i, p)
        BY <1>1, <4>1 DEF Restart, Typed
      <4>2. CASE FirstStart(i, p)
        <5>1. i \in searching /\ timer' = timer
          BY <4>2 DEF FirstStart
        <5>2. timer[i] = NoProcess
          BY <5>1 DEF SupervisorInv, LaunchWell
        <5>3. QED
          BY <5>1, <5>2
      <4>3. QED
        BY <1>6, <2>3, <4>1, <4>2
    <3>2. QED
      BY <1>1, <2>2, <2>3, <3>1 DEF Typed
  <2>4. CASE j # i
    <3>1. Same
      BY <1>1, <1>6, <2>2, <2>4 DEF FirstStart, Restart, Typed
    <3>2. \A q \in Process \ {p} : owner'[q] = owner[q] /\ proc'[q] = proc[q]
      BY <1>1, <2>2 DEF Typed
    <3>3. handle[i] # p
      BY <1>1, <2>1 DEF SupervisorInv, LaunchWell
    <3>4. QED
      BY <1>2, <3>1, <3>2, <3>3
  <2>5. QED
    BY <2>3, <2>4
<1>7. ASSUME NEW j \in App, Exited(j) PROVE Good
  <2>1. timer' = [timer EXCEPT ![j] = handle[j]]
        /\ UNCHANGED <<app, searching, handle, owner, proc>>
    BY <1>7 DEF Exited, daemon
  <2>2. timer'[i] \in {timer[i], handle[i]}
    BY <1>1, <2>1 DEF Typed
  <2>3. QED
    BY <2>1, <2>2 DEF OpenAppHasItsDaemon
<1>8. ASSUME NEW j \in App, Quit(j) PROVE Good
  <2>1. j # i /\ app'[i] = app[i] /\ handle'[i] = handle[i]
        /\ UNCHANGED <<searching, timer, owner>>
    BY <1>1, <1>8 DEF Quit, Typed
  <2>2. handle[i] \in Process /\ owner[handle[i]] = i => handle[i] # handle[j]
    BY <1>1, <2>1 DEF SupervisorInv, LaunchWell
  <2>3. QED
    BY <1>2, <1>8, <2>1, <2>2 DEF Quit
<1>9. ASSUME NEW j \in App, Kill(j) PROVE Good
  BY <1>1, <1>2, <1>9 DEF Kill, Become, Typed, supervisor
<1>10. ASSUME NEW j \in App, Leave(j) PROVE Good
  <2>1. j # i
    BY <1>1, <1>10 DEF Leave, Typed
  <2>2. QED
    BY <1>1, <1>2, <1>10, <2>1 DEF Leave, Typed, daemon
<1>11. CASE UNCHANGED vars
  BY <1>2, <1>11 DEF vars, supervisor, daemon
<1>12. QED
  BY <1>3, <1>4, <1>5, <1>6, <1>7, <1>8, <1>9, <1>10, <1>11 DEF Next, Run, Supervise

\* While a launch is open and has its port it looks after a daemon of its own that nothing
\* has told to stop, and only that daemon's restart is scheduled.
THEOREM OpenAppMindsItsDaemon == Spec => []OpenAppHasItsDaemon
<1>1. Init => OpenAppHasItsDaemon
  BY DEF Init, OpenAppHasItsDaemon
<1>2. QED
  BY <1>1, Supervised, OpenStep, PTL DEF Spec
-----------------------------------------------------------------------------
(* The keypair table *)

\* What process p has to do with the table: it starts with the phrase or with no key, takes
\* the phrase, the first row or a key of its own, and has stored that key before it serves.
\* A process's own key is in the table only if that process made it.
KeyOf(p) ==
  /\ proc[p] = "unborn" => key[p] = NoProcess
  /\ proc[p] = "begun" => key[p] \in {Phrase, NoProcess}
  /\ proc[p] = "keyed" => key[p] \in ToSet(keys) \cup {Phrase, p}
  /\ proc[p] \in {"stored", "serving"} => key[p] \in ToSet(keys)
  /\ p \in ToSet(keys) => key[p] = p

\* The table holds every key that was served.
KeysInv ==
  /\ keys \in Seq(Key)
  /\ key \in [Process -> Key \cup {NoProcess}]
  /\ \A p \in Process : KeyOf(p)
  /\ served \subseteq ToSet(keys)

\* SaveKeyPair adds its key and loses none.
LEMMA StoreKeyAdds ==
  ASSUME keys \in Seq(Key), NEW p \in Process, key[p] \in Key, StoreKey(p)
  PROVE  keys' \in Seq(Key) /\ ToSet(keys') = ToSet(keys) \cup {key[p]}
<1>1. ASSUME NEW s \in Seq(Key), NEW k \in Key
      PROVE  Append(s, k) \in Seq(Key) /\ ToSet(Append(s, k)) = ToSet(s) \cup {k}
  <2> DEFINE r == Append(s, k)
             n == Len(s)
  <2>1. /\ r \in Seq(Key) /\ n \in Nat /\ DOMAIN s = 1 .. n /\ DOMAIN r = 1 .. n + 1
        /\ \A j \in 1 .. n : r[j] = s[j]
        /\ r[n + 1] = k
    BY AppendProperties
  <2> HIDE DEF r, n
  <2>2. 1 .. n + 1 = (1 .. n) \cup {n + 1}
    BY <2>1
  <2>3. {r[j] : j \in 1 .. n + 1} = {s[j] : j \in 1 .. n} \cup {k}
    BY <2>1, <2>2
  <2>4. QED
    BY <2>1, <2>3 DEF ToSet, r
<1>2. ASSUME NEW i \in DOMAIN keys, keys[i] = key[p]
      PROVE  /\ RemoveAt(keys, i) \in Seq(Key)
             /\ ToSet(RemoveAt(keys, i)) \cup {key[p]} = ToSet(keys)
  <2> DEFINE n == Len(keys)
             a == SubSeq(keys, 1, i - 1)
             b == SubSeq(keys, i + 1, n)
             r == RemoveAt(keys, i)
  <2>1. n \in Nat /\ i \in 1 .. n /\ DOMAIN keys = 1 .. n
    BY <1>2
  <2>2. /\ a \in Seq(Key) /\ Len(a) = i - 1
        /\ \A j \in 1 .. i - 1 : a[j] = keys[j]
    BY <2>1
  <2>3. /\ b \in Seq(Key) /\ Len(b) = n - i
        /\ \A j \in 1 .. n - i : b[j] = keys[i + j]
    BY <2>1
  <2>4. r = a \o b
    BY DEF RemoveAt
  <2> HIDE DEF n, a, b, r
  <2>5. /\ r \in Seq(Key) /\ Len(r) = Len(a) + Len(b)
        /\ \A j \in 1 .. Len(a) + Len(b) :
             r[j] = IF j <= Len(a) THEN a[j] ELSE b[j - Len(a)]
    BY <2>2, <2>3, <2>4, ConcatProperties
  <2>6. /\ Len(r) = n - 1
        /\ \A j \in 1 .. n - 1 : r[j] = IF j < i THEN keys[j] ELSE keys[j + 1]
    <3>1. Len(a) + Len(b) = n - 1
      BY <2>1, <2>2, <2>3
    <3>2. ASSUME NEW j \in 1 .. n - 1, j < i PROVE r[j] = keys[j]
      BY <2>1, <2>2, <2>5, <3>1, <3>2
    <3>3. ASSUME NEW j \in 1 .. n - 1, ~(j < i) PROVE r[j] = keys[j + 1]
      <4>1. j - (i - 1) \in 1 .. n - i /\ i + (j - (i - 1)) = j + 1 /\ ~(j <= i - 1)
        BY <2>1, <3>3
      <4>2. r[j] = b[j - (i - 1)]
        BY <2>2, <2>5, <3>1, <4>1
      <4>3. QED
        BY <2>3, <4>1, <4>2
    <3>4. QED
      BY <2>5, <3>1, <3>2, <3>3
  <2>7. DOMAIN r = 1 .. n - 1
    BY <2>1, <2>5, <2>6
  <2>8. ASSUME NEW j \in 1 .. n PROVE keys[j] \in ToSet(r) \cup {key[p]}
    <3>1. CASE j < i
      <4>1. j \in 1 .. n - 1 /\ r[j] = keys[j]
        BY <2>1, <2>6, <3>1
      <4>2. QED
        BY <2>7, <4>1 DEF ToSet
    <3>2. CASE j > i
      <4>1. j - 1 \in 1 .. n - 1 /\ ~(j - 1 < i) /\ (j - 1) + 1 = j
        BY <2>1, <3>2
      <4>2. r[j - 1] = keys[j]
        BY <2>6, <4>1
      <4>3. QED
        BY <2>7, <4>1, <4>2 DEF ToSet
    <3>3. CASE j = i
      BY <1>2, <3>3
    <3>4. QED
      BY <2>1, <3>1, <3>2, <3>3
  <2>9. ASSUME NEW j \in 1 .. n - 1 PROVE r[j] \in ToSet(keys)
    <3>1. j \in 1 .. n /\ j + 1 \in 1 .. n
      BY <2>1
    <3>2. QED
      BY <2>1, <2>6, <3>1 DEF ToSet
  <2>10. key[p] \in ToSet(keys)
    BY <1>2 DEF ToSet
  <2>11. QED
    BY <2>1, <2>5, <2>7, <2>8, <2>9, <2>10 DEF ToSet, r
<1>3. CASE key[p] \notin ToSet(keys) /\ keys' = Append(keys, key[p])
  BY <1>1, <1>3
<1>4. ASSUME NEW i \in DOMAIN keys, keys[i] = key[p], keys' = Append(RemoveAt(keys, i), key[p])
      PROVE  keys' \in Seq(Key) /\ ToSet(keys') = ToSet(keys) \cup {key[p]}
  BY <1>1, <1>2, <1>4
<1>5. QED
  BY <1>3, <1>4 DEF StoreKey

\* A process stays where it is, or, once begun, is on its way out.
Ending(q) == proc'[q] = proc[q] \/ (proc[q] # "unborn" /\ proc'[q] \in {"closing", "dead"})

\* Being told to stop, killed or ended are ends, and touch no key; nor do the supervisor's
\* own events.
LEMMA OtherSteps ==
  ASSUME Typed,
         \/ \E p \in Process : Closed(p) \/ Die(p) \/ StopByHand(p)
         \/ \E i \in App : Launch(i) \/ Exited(i) \/ Quit(i) \/ Kill(i) \/ Leave(i)
  PROVE  (\A q \in Process : Ending(q)) /\ UNCHANGED <<keys, key, served>>
<1> USE DEF Ending
<1>1. proc \in [Process -> Stages] /\ stopped \in [App -> Process \cup {NoProcess}]
  BY DEF Typed
<1>2. ASSUME NEW p \in Process, Closed(p) \/ Die(p)
      PROVE  (\A q \in Process : Ending(q)) /\ UNCHANGED <<keys, key, served>>
  BY <1>1, <1>2 DEF Closed, Die, Become
<1>3. ASSUME NEW p \in Process, StopByHand(p)
      PROVE  (\A q \in Process : Ending(q)) /\ UNCHANGED <<keys, key, served>>
  <2>1. /\ proc[p] \in Stages /\ proc[p] # "unborn"
        /\ Terminated(proc[p]) \in {"unborn", "closing", "dead"}
        /\ Terminated(proc[p]) # "unborn"
    BY <1>1, <1>3, TerminatedEnds DEF StopByHand, Alive
  <2>2. QED
    BY <1>1, <1>3, <2>1 DEF StopByHand, Become
<1>4. ASSUME NEW i \in App, Launch(i) \/ Exited(i) \/ Leave(i)
      PROVE  (\A q \in Process : Ending(q)) /\ UNCHANGED <<keys, key, served>>
  BY <1>4 DEF Launch, Exited, Leave, daemon
<1>5. ASSUME NEW i \in App, Quit(i)
      PROVE  (\A q \in Process : Ending(q)) /\ UNCHANGED <<keys, key, served>>
  <2>1. \A q \in Process : /\ Terminated(proc[q]) = "unborn" <=> proc[q] = "unborn"
                           /\ Terminated(proc[q]) \in {"unborn", "closing", "dead"}
    BY <1>1, TerminatedEnds
  <2>2. \A q \in Process : proc'[q] = proc[q] \/ proc'[q] = Terminated(proc[q])
    BY <1>5 DEF Quit
  <2>3. QED
    BY <1>5, <2>1, <2>2 DEF Quit
<1>6. ASSUME NEW i \in App, Kill(i)
      PROVE  (\A q \in Process : Ending(q)) /\ UNCHANGED <<keys, key, served>>
  BY <1>1, <1>6 DEF Kill, Alive, Become
<1>7. QED
  BY <1>2, <1>3, <1>4, <1>5, <1>6

\* KeysInv is inductive: SaveKeyPair loses no row, so what one process has read is still
\* there when it stores its key, however many are at the table.
LEMMA KeysStep == SupervisorInv /\ KeysInv /\ [Next]_vars => KeysInv'
<1> SUFFICES ASSUME SupervisorInv, KeysInv, [Next]_vars PROVE KeysInv'
  OBVIOUS
<1>1. /\ proc \in [Process -> Stages]
      /\ keys \in Seq(Key)
      /\ key \in [Process -> Key \cup {NoProcess}]
      /\ \A q \in Process : KeyOf(q)
      /\ Phrase \in Key /\ Process \subseteq Key
      /\ Phrase \notin Process /\ NoProcess \notin Process
  BY ConstantsAssumption DEF SupervisorInv, Typed, KeysInv, Key
<1>2. ASSUME UNCHANGED <<keys, key, served>>,
             \A q \in Process : \/ Ending(q)
                                \/ key[q] \in {Phrase, NoProcess} /\ proc'[q] = "begun"
      PROVE  KeysInv'
  <2>1. ASSUME NEW q \in Process PROVE KeyOf(q)'
    BY <1>1, <1>2, <2>1 DEF KeyOf, Ending
  <2>2. QED
    BY <1>2, <2>1 DEF KeysInv
<1>3. ASSUME NEW p \in Process, ReadKey(p) PROVE KeysInv'
  <2>1. /\ proc[p] = "begun" /\ proc'[p] = "keyed"
        /\ UNCHANGED <<keys, served>>
        /\ key' = [key EXCEPT ![p] = IF @ = Phrase THEN Phrase ELSE FirstKey(p)]
        /\ \A q \in Process \ {p} : proc'[q] = proc[q] /\ key'[q] = key[q]
    BY <1>1, <1>3 DEF ReadKey, Become
  <2>2. FirstKey(p) \in ToSet(keys) \cup {p}
    <3>1. keys # <<>> => Head(keys) = keys[1] /\ 1 \in DOMAIN keys
      BY <1>1
    <3>2. QED
      BY <3>1 DEF FirstKey, ToSet
  <2>3. ToSet(keys) \subseteq Key
    BY <1>1, ElementOfSeq DEF ToSet
  <2>4. key'[p] \in Key /\ (key'[p] = Phrase \/ key'[p] = FirstKey(p))
    BY <1>1, <2>1, <2>2, <2>3
  <2>5. key' \in [Process -> Key \cup {NoProcess}]
    BY <1>1, <2>1, <2>4
  <2>6. p \notin ToSet(keys)
    BY <1>1, <2>1 DEF KeyOf
  <2>7. KeyOf(p)'
    BY <2>1, <2>2, <2>4, <2>6 DEF KeyOf
  <2>8. \A q \in Process \ {p} : KeyOf(q)'
    BY <1>1, <2>1 DEF KeyOf
  <2>9. QED
    BY <1>1, <2>1, <2>5, <2>7, <2>8 DEF KeysInv
<1>4. ASSUME NEW p \in Process, StoreKey(p) PROVE KeysInv'
  <2>1. /\ proc[p] = "keyed" /\ proc'[p] = "stored"
        /\ UNCHANGED <<key, served>>
        /\ \A q \in Process \ {p} : proc'[q] = proc[q]
    BY <1>1, <1>4 DEF StoreKey, Become
  <2>2. key[p] \in ToSet(keys) \cup {Phrase, p}
    BY <1>1, <2>1 DEF KeyOf
  <2>3. key[p] \in Key
    BY <1>1, <2>2, ElementOfSeq DEF ToSet
  <2>4. keys' \in Seq(Key) /\ ToSet(keys') = ToSet(keys) \cup {key[p]}
    BY <1>1, <1>4, <2>3, StoreKeyAdds
  <2>5. \A q \in Process \ {p} : q \in ToSet(keys') => q \in ToSet(keys)
    BY <1>1, <2>2, <2>4
  <2>6. \A q \in Process \ {p} : KeyOf(q)'
    BY <1>1, <2>1, <2>4, <2>5 DEF KeyOf
  <2>7. KeyOf(p)'
    <3>1. p \in ToSet(keys') => key[p] = p
      BY <1>1, <2>4 DEF KeyOf
    <3>2. QED
      BY <2>1, <2>4, <3>1 DEF KeyOf
  <2>8. QED
    BY <1>1, <2>1, <2>4, <2>6, <2>7 DEF KeysInv
<1>5. ASSUME NEW p \in Process, Serve(p) PROVE KeysInv'
  <2>1. /\ proc[p] = "stored" /\ proc'[p] = "serving"
        /\ UNCHANGED <<keys, key>> /\ served' = served \cup {key[p]}
        /\ \A q \in Process \ {p} : proc'[q] = proc[q]
    BY <1>1, <1>5 DEF Serve, Become
  <2>2. key[p] \in ToSet(keys)
    BY <1>1, <2>1 DEF KeyOf
  <2>3. \A q \in Process : KeyOf(q)'
    BY <1>1, <2>1, <2>2 DEF KeyOf
  <2>4. QED
    BY <2>1, <2>2, <2>3 DEF KeysInv
<1>6. CASE \/ \E p \in Process : Closed(p) \/ Die(p) \/ StopByHand(p)
           \/ \E i \in App : Launch(i) \/ Exited(i) \/ Quit(i) \/ Kill(i) \/ Leave(i)
  BY <1>2, <1>6, OtherSteps DEF SupervisorInv
<1>7. ASSUME NEW p \in Process, RunByHand(p) PROVE KeysInv'
  <2>1. PICK given \in {Phrase, NoProcess} : key' = [key EXCEPT ![p] = given]
    BY <1>7 DEF RunByHand
  <2>2. /\ proc[p] = "unborn" /\ proc'[p] = "begun" /\ key'[p] = given
        /\ UNCHANGED <<keys, served>>
        /\ \A q \in Process \ {p} : proc'[q] = proc[q] /\ key'[q] = key[q]
    BY <1>1, <1>7, <2>1 DEF RunByHand, Become
  <2>3. \A q \in Process : KeyOf(q)'
    BY <1>1, <2>2 DEF KeyOf
  <2>4. QED
    BY <1>1, <2>1, <2>2, <2>3 DEF KeysInv
<1>8. ASSUME NEW i \in App, NEW p \in Process, FirstStart(i, p) \/ Restart(i, p)
      PROVE  KeysInv'
  <2>1. /\ proc[p] = "unborn" /\ Become(p, "begun")
        /\ UNCHANGED <<keys, key, served>>
    BY <1>8, NextIsUnborn DEF FirstStart, Restart, StartDaemon
  <2>2. key[p] = NoProcess
    BY <1>1, <2>1 DEF KeyOf
  <2>3. QED
    BY <1>1, <1>2, <2>1, <2>2 DEF Become, Ending
<1>9. CASE UNCHANGED vars
  BY <1>2, <1>9 DEF vars, daemon, Ending
<1>10. QED
  BY <1>3, <1>4, <1>5, <1>6, <1>7, <1>8, <1>9 DEF Next, Run, Supervise

\* The table's invariant, of every behaviour.
LEMMA KeysInvariant == Spec => []KeysInv
<1>1. Init => KeysInv
  BY DEF Init, KeysInv, KeyOf, ToSet
<1>2. QED
  BY <1>1, Supervised, KeysStep, PTL DEF Spec

\* A key that a daemon has served stays in the data directory, across crashes at any step
\* of a start, restarts, several launches at once, daemons run by hand and restores.
THEOREM IdentityStays == Spec => []IdentityIsKept
<1>1. KeysInv => IdentityIsKept
  BY DEF KeysInv, IdentityIsKept
<1>2. QED
  BY <1>1, KeysInvariant, PTL

\* What NoLaterIdentity says of a step.
NoneMadeLater == \A p \in Process : key[p] # p /\ key'[p] = p => served = {}

\* A start makes a key only if it finds none, so none was served.
LEMMA KeysAreMadeFirst == SupervisorInv /\ KeysInv /\ Next => NoneMadeLater
<1> SUFFICES ASSUME SupervisorInv, KeysInv, Next PROVE NoneMadeLater
  OBVIOUS
<1>1. /\ key \in [Process -> Key \cup {NoProcess}] /\ keys \in Seq(Key)
      /\ served \subseteq ToSet(keys) /\ \A q \in Process : KeyOf(q)
      /\ Phrase \notin Process /\ NoProcess \notin Process
  BY ConstantsAssumption DEF KeysInv
<1>2. CASE UNCHANGED key
  BY <1>2 DEF NoneMadeLater
<1>3. ASSUME NEW p \in Process, ReadKey(p) PROVE NoneMadeLater
  <2>1. /\ proc[p] = "begun"
        /\ key' = [key EXCEPT ![p] = IF @ = Phrase THEN Phrase ELSE FirstKey(p)]
    BY <1>3 DEF ReadKey
  <2>2. p \notin ToSet(keys)
    BY <1>1, <2>1 DEF KeyOf
  <2>3. keys # <<>> => FirstKey(p) \in ToSet(keys)
    <3>1. keys # <<>> => Head(keys) = keys[1] /\ 1 \in DOMAIN keys
      BY <1>1
    <3>2. QED
      BY <3>1 DEF FirstKey, ToSet
  <2>4. keys = <<>> => served = {}
    BY <1>1 DEF ToSet
  <2>5. \A q \in Process \ {p} : key'[q] = key[q]
    BY <1>1, <2>1
  <2>6. key'[p] = p => keys = <<>>
    BY <1>1, <2>1, <2>2, <2>3
  <2>7. QED
    BY <2>4, <2>5, <2>6 DEF NoneMadeLater
<1>4. ASSUME NEW p \in Process, RunByHand(p) PROVE NoneMadeLater
  <2>1. PICK given \in {Phrase, NoProcess} : key' = [key EXCEPT ![p] = given]
    BY <1>4 DEF RunByHand
  <2>2. QED
    BY <1>1, <2>1 DEF NoneMadeLater
<1>5. QED
  BY <1>2, <1>3, <1>4
     DEF Next, Run, StoreKey, Serve, Closed, Die, StopByHand, Launch, Supervise, FirstStart,
         Restart, StartDaemon, Exited, Quit, Kill, Leave, daemon

\* Once a daemon has come up no start makes another identity, whatever crashes and whoever
\* starts daemons at the same time.
THEOREM IdentityIsMadeFirst == Spec => NoLaterIdentity
<1>1. SupervisorInv /\ KeysInv /\ [Next]_vars => [NoneMadeLater]_vars
  BY KeysAreMadeFirst
<1>2. QED
  BY <1>1, Supervised, KeysInvariant, PTL DEF Spec, NoLaterIdentity, NoneMadeLater

\* Every reachable state is well typed; the restarts of a launch stay within MAX_RESTARTS.
THEOREM Typing == Spec => []TypeOK
<1> DEFINE Counted == restarts \in [App -> 0 .. MaxRestarts]
<1>1. Init => Counted
  BY ConstantsAssumption DEF Init
<1>2. Counted /\ [Next]_vars => Counted'
  <2> SUFFICES ASSUME Counted, [Next]_vars PROVE Counted'
    OBVIOUS
  <2>1. ASSUME NEW i \in App, Exited(i) PROVE Counted'
    <3>1. restarts[i] + 1 \in 0 .. MaxRestarts
      BY <2>1, ConstantsAssumption DEF Exited
    <3>2. restarts' = [restarts EXCEPT ![i] = restarts[i] + 1]
      BY <2>1 DEF Exited
    <3>3. QED
      BY <3>1, <3>2
  <2>2. ASSUME NEW i \in App, Leave(i) PROVE Counted'
    BY <2>2, ConstantsAssumption DEF Leave
  <2>3. CASE UNCHANGED restarts
    BY <2>3
  <2>4. QED
    BY <2>1, <2>2, <2>3
       DEF Next, Run, ReadKey, StoreKey, Serve, Closed, Die, RunByHand, StopByHand, Launch,
           Supervise, FirstStart, Restart, Quit, Kill, supervisor, vars
<1>3. SupervisorInv /\ KeysInv /\ Counted => TypeOK
  <2> SUFFICES ASSUME SupervisorInv, KeysInv, Counted PROVE TypeOK
    OBVIOUS
  <2>1. ToSet(keys) \subseteq Key
    BY ElementOfSeq DEF KeysInv, ToSet
  <2>2. QED
    BY <2>1 DEF SupervisorInv, Typed, KeysInv, TypeOK
<1>4. QED
  BY <1>1, <1>2, <1>3, Supervised, KeysInvariant, PTL DEF Spec
=============================================================================
