------------------------- MODULE PluginProcessProofs -------------------------
(***************************************************************************)
(* Proofs about PluginProcess, for any set of workers, any bound on the    *)
(* processes and any faults: no command overtakes the start of a process,  *)
(* no process is lost, and no two run side by side unless a start failed   *)
(* or Stop is overtaken.                                                   *)
(***************************************************************************)
EXTENDS PluginProcess, FiniteSetTheorems, TLAPS

-----------------------------------------------------------------------------
(* The inductive invariant.                                                *)

\* What a runtime's state is until the plugin's own Start has returned.
Early == {"new", "idle", "starting"}

\* Where Stop stands while it has a process in its hands, and until it returns.
Holding == {"stopping", "draining", "killed"}
InStop == Holding \cup {"clearing"}

\* Workers call, the registry starts and stops, and does so in an operation.
Roles ==
  /\ \A t \in Callers : pc[t] \in {"idle", "armed", "starting", "calling"}
  /\ pc[Registry] \notin {"armed", "calling"}
  /\ op = "none" => pc[Registry] = "idle"

\* One process starts at a time, and it is the current one: its runtime is not
\* asked to start before PluginStart is handled, and has started once that is
\* answered.
OneStart ==
  \A t \in Threads : pc[t] = "starting" =>
    /\ \A u \in Threads : pc[u] = "starting" => u = t
    /\ cur = tgt[t] /\ cur # 0
    /\ req[t] = "sent" => rt[cur] \in {"new", "idle", "gone"}
    /\ req[t] = "ok" => rt[cur] \notin Early

\* Unless a process starts, the current one has started.
CurrentHasStarted == MuFree /\ cur # 0 => rt[cur] \notin Early

CallersHaveProcess == \A t \in Callers : pc[t] = "calling" => tgt[t] # 0

\* A process that is still to be spawned has a runtime that did nothing.
UnspawnedAreNew == \A k \in Procs : k > spawned => rt[k] = "new"

\* While Stop is under way the current process is the one it stops, or one that
\* a late call has started meanwhile; when it clears the fields, what it stopped
\* has exited.
StopHasCurrent ==
  /\ pc[Registry] \in InStop => cur \in {0, tgt[Registry]} \cup inStop
  /\ pc[Registry] = "clearing" => tgt[Registry] \notin up

StartsInv ==
  /\ Roles /\ OneStart /\ CurrentHasStarted /\ CallersHaveProcess
  /\ UnspawnedAreNew /\ NoEarlyCommand
KeptInv == StopHasCurrent /\ NoProcessLost
IInv == TypeOK /\ StartsInv /\ KeptInv

\* Init holds nothing that the invariant is about.
LEMMA InitInv == Init => IInv
<1> SUFFICES ASSUME Init PROVE IInv
  OBVIOUS
<1>1. TypeOK
  <2> USE ThreadsAssumption DEF Init, Procs
  <2>1. spawned \in 0..MaxProcs /\ cur \in 0..spawned
    OBVIOUS
  <2>2. /\ up \subseteq 1..spawned /\ stdin \subseteq 1..spawned /\ closed \subseteq 1..spawned
        /\ inStop \subseteq 1..spawned /\ done \subseteq (1..spawned) \ up
    OBVIOUS
  <2>3. rt \in [Procs -> {"new", "idle", "starting", "started", "stopping",
                         "stopped", "quitting", "gone"}]
    OBVIOUS
  <2>4. pc \in [Threads -> {"idle", "armed", "enabling", "starting", "calling",
                           "registering", "stop", "stopping", "draining", "killed",
                           "clearing"}]
    OBVIOUS
  <2>5. tgt \in [Threads -> 0..spawned] /\ req \in [Threads -> {"none", "sent", "running", "ok", "err"}]
    OBVIOUS
  <2>6. /\ enabled \in BOOLEAN /\ registered \in BOOLEAN /\ stopErr \in BOOLEAN
        /\ op \in {"none", "enable", "disable", "remove", "undo"} /\ ending \in BOOLEAN
        /\ abandoned \subseteq 1..spawned
    OBVIOUS
  <2> QED
    BY <2>1, <2>2, <2>3, <2>4, <2>5, <2>6 DEF TypeOK
<1>2. UnspawnedAreNew
  BY DEF Init, UnspawnedAreNew
<1>3. Roles /\ OneStart /\ CallersHaveProcess /\ NoEarlyCommand
  BY DEF Init, Roles, OneStart, CallersHaveProcess, NoEarlyCommand, Threads
<1>4. CurrentHasStarted /\ StopHasCurrent /\ NoProcessLost
  BY DEF Init, CurrentHasStarted, StopHasCurrent, NoProcessLost, InStop, Holding, Threads
<1> QED
  BY <1>1, <1>2, <1>3, <1>4 DEF IInv, StartsInv, KeptInv

\* Whatever a step does to the types is a matter of its assignments, and that a
\* thread starts a process of OneStart.
LEMMA TypesInv == IInv /\ [Next]_vars => TypeOK'
<1> SUFFICES ASSUME IInv, TypeOK, [Next]_vars PROVE TypeOK'
  BY DEF IInv
<1> USE ThreadsAssumption DEF TypeOK, Threads, Procs, Goto
<1>1. ASSUME NEW t \in Threads, StartStep(t) PROVE TypeOK'
  <2>1. CASE Spawn(t)
    BY <2>1 DEF Spawn, regVars
  <2>2. CASE SpawnFails(t)
    BY <2>2 DEF SpawnFails, Return
  <2>3. CASE StartSucceeds(t)
    BY <2>3 DEF StartSucceeds, procVars, regVars
  <2>4. CASE StartFails(t)
    <3>1. /\ cur' = 0 /\ op' \in {"none", op} /\ abandoned' = abandoned \cup {tgt[t]}
          /\ UNCHANGED <<spawned, up, stdin, closed, done, rt, inStop, enabled, registered, stopErr,
                         ending>>
      BY <2>4 DEF StartFails, Forget
    <3>2. /\ pc' = [pc EXCEPT ![t] = "idle"] /\ tgt' = [tgt EXCEPT ![t] = 0]
          /\ req' = [req EXCEPT ![t] = "none"]
      BY <2>4 DEF StartFails, Forget, Return
    <3>3. tgt[t] \in 1..spawned
      BY <2>4 DEF StartFails, IInv, StartsInv, OneStart
    <3>4. /\ spawned' \in 0..MaxProcs /\ cur' \in 0..spawned' /\ up' \subseteq 1..spawned'
          /\ stdin' \subseteq 1..spawned' /\ closed' \subseteq 1..spawned'
          /\ inStop' \subseteq 1..spawned' /\ done' \subseteq (1..spawned') \ up'
          /\ spawned' = spawned
      BY <3>1
    <3>5. abandoned' \subseteq 1..spawned'
      <4>1. abandoned \subseteq 1..spawned
        OBVIOUS
      <4> QED
        BY <4>1, <3>1, <3>3, <3>4
    <3>6. /\ pc' \in [Threads -> {"idle", "armed", "enabling", "starting", "calling",
                                "registering", "stop", "stopping", "draining", "killed",
                                "clearing"}]
          /\ tgt' \in [Threads -> 0..spawned']
          /\ req' \in [Threads -> {"none", "sent", "running", "ok", "err"}]
      BY <3>1, <3>2
    <3> QED
      BY <3>1, <3>4, <3>6, <3>5
  <2> QED
    BY <1>1, <2>1, <2>2, <2>3, <2>4 DEF StartStep
<1>2. ASSUME NEW t \in Threads, CallStep(t) PROVE TypeOK'
  <2> USE DEF procVars, regVars
  <2>1. CASE FindHandler(t)
    BY <2>1 DEF FindHandler
  <2>2. CASE TakePeer(t)
    BY <2>2 DEF TakePeer
  <2>3. CASE CallReturns(t)
    BY <2>3 DEF CallReturns, Return
  <2> QED
    BY <1>2, <2>1, <2>2, <2>3 DEF CallStep
<1>3. CASE RegistryStep
  <2> USE DEF procVars
  <2>1. CASE HostEnds \/ \E why \in Operations \cap {"enable", "undo"} : Enable(why)
    BY <2>1 DEF HostEnds, Enable, threadVars
  <2>2. CASE AlreadyStarted
    BY <2>2 DEF AlreadyStarted, regVars
  <2>3. CASE RegisterCommands
    BY <2>3 DEF RegisterCommands, Return
  <2>4. CASE RegisterFails
    BY <2>4 DEF RegisterFails, regVars
  <2>5. CASE \E why \in Operations \ {"enable"} : Disable(why)
    BY <2>5, FaultsAssumption DEF Disable
  <2>6. CASE RemoveDisabled
    BY <2>6 DEF RemoveDisabled, threadVars
  <2>7. CASE StopNothing
    BY <2>7 DEF StopNothing, Finish, Return
  <2>8. CASE StopTakes
    BY <2>8 DEF StopTakes, regVars
  <2>9. CASE StopCallEnds
    BY <2>9 DEF StopCallEnds
  <2>10. CASE StopKills
    BY <2>10 DEF StopKills
  <2>11. CASE StopSeesDone
    BY <2>11 DEF StopSeesDone, regVars
  <2>12. CASE StopClears
    <3>1. registered' \in BOOLEAN
      BY <2>12 DEF StopClears, Finish
    <3>2. /\ cur' = 0 /\ op' = "none" /\ stopErr' = FALSE
          /\ UNCHANGED <<spawned, up, stdin, closed, done, rt, inStop, abandoned, enabled, ending>>
      BY <2>12 DEF StopClears, Finish
    <3>3. /\ pc' = [pc EXCEPT ![Registry] = "idle"] /\ tgt' = [tgt EXCEPT ![Registry] = 0]
          /\ req' = [req EXCEPT ![Registry] = "none"]
      BY <2>12 DEF StopClears, Finish, Return
    <3>4. /\ cur' \in 0..spawned' /\ tgt' \in [Threads -> 0..spawned']
          /\ pc' \in [Threads -> {"idle", "armed", "enabling", "starting", "calling",
                                "registering", "stop", "stopping", "draining", "killed",
                                "clearing"}]
          /\ req' \in [Threads -> {"none", "sent", "running", "ok", "err"}]
      BY <3>2, <3>3
    <3>5. /\ spawned' \in 0..MaxProcs /\ up' \subseteq 1..spawned'
          /\ stdin' \subseteq 1..spawned' /\ closed' \subseteq 1..spawned'
          /\ inStop' \subseteq 1..spawned' /\ done' \subseteq (1..spawned') \ up'
          /\ rt' = rt /\ enabled' \in BOOLEAN /\ stopErr' \in BOOLEAN /\ op' = "none"
          /\ abandoned' \subseteq 1..spawned' /\ ending' \in BOOLEAN
      BY <3>2
    <3> QED
      BY <3>1, <3>4, <3>5
  <2> QED
    BY <1>3, <2>1, <2>2, <2>3, <2>4, <2>5, <2>6, <2>7, <2>8, <2>9, <2>10, <2>11, <2>12 DEF RegistryStep
<1>4. ASSUME NEW k \in Procs, PeerCloses(k) \/ WaitReturns(k) PROVE TypeOK'
  <2> USE DEF threadVars, regVars
  <2>1. CASE PeerCloses(k)
    BY <2>1 DEF PeerCloses
  <2>2. CASE WaitReturns(k)
    BY <2>2 DEF WaitReturns
  <2> QED
    BY <1>4, <2>1, <2>2
<1>5. ASSUME NEW k \in Procs, PluginStep(k) PROVE TypeOK'
  <2> USE DEF PluginUnchanged, Rt, regVars
  <2>1. CASE Ready(k)
    BY <2>1 DEF Ready
  <2>2. CASE StartReturns(k)
    BY <2>2 DEF StartReturns, Reply
  <2>3. CASE StopReturns(k)
    BY <2>3 DEF StopReturns, Reply
  <2>4. CASE RunStops(k)
    BY <2>4 DEF RunStops
  <2>5. CASE RunReturns(k)
    BY <2>5 DEF RunReturns, Dies
  <2>6. CASE Exits(k) \/ Crash(k)
    BY <2>6 DEF Exits, Crash, Dies
  <2>7. ASSUME NEW t \in Threads, HandleStart(t, k) PROVE TypeOK'
    BY <2>7 DEF HandleStart
  <2>8. ASSUME NEW t \in Threads, HandleStop(t, k) PROVE TypeOK'
    BY <2>8 DEF HandleStop
  <2>9. ASSUME NEW t \in Threads, HandleCommand(t, k) \/ CommandReturns(t, k) PROVE TypeOK'
    BY <2>9 DEF HandleCommand, CommandReturns
  <2> QED
    BY <1>5, <2>1, <2>2, <2>3, <2>4, <2>5, <2>6, <2>7, <2>8, <2>9 DEF PluginStep
<1>6. CASE UNCHANGED vars
  BY <1>6 DEF vars, procVars, threadVars, regVars
<1> QED
  BY <1>1, <1>2, <1>3, <1>4, <1>5, <1>6 DEF Next

\* A step keeps what is said of starts and of commands.
LEMMA StartsStep == TypeOK /\ TypeOK' /\ StartsInv /\ [Next]_vars => StartsInv'
<1> SUFFICES ASSUME TypeOK, TypeOK', StartsInv, [Next]_vars PROVE StartsInv'
  OBVIOUS
<1> USE ThreadsAssumption DEF TypeOK, StartsInv, Roles, OneStart, CurrentHasStarted, CallersHaveProcess,
           UnspawnedAreNew, NoEarlyCommand, Early, Threads, Procs, MuFree, Goto
<1>1. ASSUME NEW t \in Threads, StartStep(t) PROVE StartsInv'
  <2>1. CASE Spawn(t)
    BY <2>1 DEF Spawn, regVars, NoProcess
  <2>2. CASE SpawnFails(t)
    BY <2>2 DEF SpawnFails, Return, NoProcess
  <2>3. CASE StartSucceeds(t)
    BY <2>3 DEF StartSucceeds, procVars, regVars
  <2>4. CASE StartFails(t)
    BY <2>4 DEF StartFails, Forget, Return
  <2> QED
    BY <1>1, <2>1, <2>2, <2>3, <2>4 DEF StartStep
<1>2. ASSUME NEW t \in Threads, CallStep(t) PROVE StartsInv'
  <2> USE DEF procVars, regVars
  <2>1. CASE FindHandler(t)
    BY <2>1 DEF FindHandler
  <2>2. CASE TakePeer(t)
    BY <2>2 DEF TakePeer, NoProcess
  <2>3. CASE CallReturns(t)
    BY <2>3 DEF CallReturns, Return
  <2> QED
    BY <1>2, <2>1, <2>2, <2>3 DEF CallStep
<1>3. CASE RegistryStep
  <2> USE DEF procVars
  <2>1. CASE HostEnds \/ \E why \in Operations \cap {"enable", "undo"} : Enable(why)
    BY <2>1 DEF HostEnds, Enable, threadVars
  <2>2. CASE AlreadyStarted
    BY <2>2 DEF AlreadyStarted, regVars
  <2>3. CASE RegisterCommands
    BY <2>3 DEF RegisterCommands, Return
  <2>4. CASE RegisterFails
    BY <2>4 DEF RegisterFails, regVars
  <2>5. CASE \E why \in Operations \ {"enable"} : Disable(why)
    BY <2>5, FaultsAssumption DEF Disable
  <2>6. CASE RemoveDisabled
    BY <2>6 DEF RemoveDisabled, threadVars
  <2>7. CASE StopNothing
    BY <2>7 DEF StopNothing, Finish, Return
  <2>8. CASE StopTakes
    BY <2>8 DEF StopTakes, regVars
  <2>9. CASE StopCallEnds
    BY <2>9 DEF StopCallEnds
  <2>10. CASE StopKills
    BY <2>10 DEF StopKills
  <2>11. CASE StopSeesDone
    BY <2>11 DEF StopSeesDone, regVars
  <2>12. CASE StopClears
    BY <2>12 DEF StopClears, Finish, Return
  <2> QED
    BY <1>3, <2>1, <2>2, <2>3, <2>4, <2>5, <2>6, <2>7, <2>8, <2>9, <2>10, <2>11, <2>12 DEF RegistryStep
<1>4. ASSUME NEW k \in Procs, PeerCloses(k) \/ WaitReturns(k) PROVE StartsInv'
  <2> USE DEF threadVars, regVars
  <2>1. CASE PeerCloses(k)
    BY <2>1 DEF PeerCloses
  <2>2. CASE WaitReturns(k)
    BY <2>2 DEF WaitReturns
  <2> QED
    BY <1>4, <2>1, <2>2
<1>5. ASSUME NEW k \in Procs, PluginStep(k) PROVE StartsInv'
  <2> USE DEF PluginUnchanged, Rt, regVars
  <2>1. CASE Ready(k)
    BY <2>1 DEF Ready
  <2>2. CASE StartReturns(k)
    BY <2>2 DEF StartReturns, Reply
  <2>3. CASE StopReturns(k)
    BY <2>3 DEF StopReturns, Reply
  <2>4. CASE RunStops(k)
    BY <2>4 DEF RunStops
  <2>5. CASE RunReturns(k)
    BY <2>5 DEF RunReturns, Dies
  <2>6. CASE Exits(k) \/ Crash(k)
    BY <2>6 DEF Exits, Crash, Dies
  <2>7. ASSUME NEW t \in Threads, HandleStart(t, k) PROVE StartsInv'
    BY <2>7 DEF HandleStart, Arrives, RuntimeFree
  <2>8. ASSUME NEW t \in Threads, HandleStop(t, k) PROVE StartsInv'
    BY <2>8 DEF HandleStop, Arrives
  <2>9. ASSUME NEW t \in Threads, HandleCommand(t, k) PROVE StartsInv'
    BY <2>9 DEF HandleCommand, Arrives
  <2>10. ASSUME NEW t \in Threads, CommandReturns(t, k) PROVE StartsInv'
    BY <2>10 DEF CommandReturns
  <2> QED
    BY <1>5, <2>1, <2>2, <2>3, <2>4, <2>5, <2>6, <2>7, <2>8, <2>9, <2>10 DEF PluginStep
<1>6. CASE UNCHANGED vars
  BY <1>6 DEF vars, procVars, threadVars, regVars
<1> QED
  BY <1>1, <1>2, <1>3, <1>4, <1>5, <1>6 DEF Next

\* A step keeps what is said of the processes that run.
LEMMA KeptStep == IInv /\ TypeOK' /\ [Next]_vars => KeptInv'
<1> SUFFICES ASSUME IInv, TypeOK', [Next]_vars PROVE KeptInv'
  OBVIOUS
<1> USE ThreadsAssumption DEF IInv, TypeOK, StartsInv, Roles, OneStart, KeptInv, StopHasCurrent,
           NoProcessLost, InStop, Holding, Threads, Procs, MuFree, Goto
<1>1. ASSUME NEW t \in Threads, StartStep(t) PROVE KeptInv'
  <2>1. CASE Spawn(t)
    BY <2>1 DEF Spawn, regVars, NoProcess
  <2>2. CASE SpawnFails(t)
    BY <2>2 DEF SpawnFails, Return, NoProcess
  <2>3. CASE StartSucceeds(t)
    BY <2>3 DEF StartSucceeds, procVars, regVars
  <2>4. CASE StartFails(t)
    BY <2>4 DEF StartFails, Forget, Return
  <2> QED
    BY <1>1, <2>1, <2>2, <2>3, <2>4 DEF StartStep
<1>2. ASSUME NEW t \in Threads, CallStep(t) PROVE KeptInv'
  <2> USE DEF procVars, regVars
  <2>1. CASE FindHandler(t)
    BY <2>1 DEF FindHandler
  <2>2. CASE TakePeer(t)
    BY <2>2 DEF TakePeer, NoProcess
  <2>3. CASE CallReturns(t)
    BY <2>3 DEF CallReturns, Return
  <2> QED
    BY <1>2, <2>1, <2>2, <2>3 DEF CallStep
<1>3. CASE RegistryStep
  <2> USE DEF procVars
  <2>1. CASE HostEnds \/ \E why \in Operations \cap {"enable", "undo"} : Enable(why)
    BY <2>1 DEF HostEnds, Enable, threadVars
  <2>2. CASE AlreadyStarted
    BY <2>2 DEF AlreadyStarted, regVars
  <2>3. CASE RegisterCommands
    BY <2>3 DEF RegisterCommands, Return
  <2>4. CASE RegisterFails
    BY <2>4 DEF RegisterFails, regVars
  <2>5. CASE \E why \in Operations \ {"enable"} : Disable(why)
    BY <2>5, FaultsAssumption DEF Disable
  <2>6. CASE RemoveDisabled
    BY <2>6 DEF RemoveDisabled, threadVars
  <2>7. CASE StopNothing
    BY <2>7 DEF StopNothing, Finish, Return
  <2>8. CASE StopTakes
    BY <2>8 DEF StopTakes, regVars
  <2>9. CASE StopCallEnds
    BY <2>9 DEF StopCallEnds
  <2>10. CASE StopKills
    BY <2>10 DEF StopKills
  <2>11. CASE StopSeesDone
    BY <2>11 DEF StopSeesDone, regVars
  <2>12. CASE StopClears
    BY <2>12 DEF StopClears, Finish, Return
  <2> QED
    BY <1>3, <2>1, <2>2, <2>3, <2>4, <2>5, <2>6, <2>7, <2>8, <2>9, <2>10, <2>11, <2>12 DEF RegistryStep
<1>4. ASSUME NEW k \in Procs, PeerCloses(k) \/ WaitReturns(k) PROVE KeptInv'
  <2> USE DEF threadVars, regVars
  <2>1. CASE PeerCloses(k)
    BY <2>1 DEF PeerCloses
  <2>2. CASE WaitReturns(k)
    BY <2>2 DEF WaitReturns
  <2> QED
    BY <1>4, <2>1, <2>2
<1>5. ASSUME NEW k \in Procs, PluginStep(k) PROVE KeptInv'
  <2> USE DEF PluginUnchanged, Rt, regVars
  <2>1. CASE Ready(k)
    BY <2>1 DEF Ready
  <2>2. CASE StartReturns(k)
    BY <2>2 DEF StartReturns, Reply
  <2>3. CASE StopReturns(k)
    BY <2>3 DEF StopReturns, Reply
  <2>4. CASE RunStops(k)
    BY <2>4 DEF RunStops
  <2>5. CASE RunReturns(k)
    BY <2>5 DEF RunReturns, Dies
  <2>6. CASE Exits(k) \/ Crash(k)
    BY <2>6 DEF Exits, Crash, Dies
  <2>7. ASSUME NEW t \in Threads, HandleStart(t, k) PROVE KeptInv'
    BY <2>7 DEF HandleStart, Arrives, RuntimeFree
  <2>8. ASSUME NEW t \in Threads, HandleStop(t, k) PROVE KeptInv'
    BY <2>8 DEF HandleStop, Arrives
  <2>9. ASSUME NEW t \in Threads, HandleCommand(t, k) PROVE KeptInv'
    BY <2>9 DEF HandleCommand, Arrives
  <2>10. ASSUME NEW t \in Threads, CommandReturns(t, k) PROVE KeptInv'
    BY <2>10 DEF CommandReturns
  <2> QED
    BY <1>5, <2>1, <2>2, <2>3, <2>4, <2>5, <2>6, <2>7, <2>8, <2>9, <2>10 DEF PluginStep
<1>6. CASE UNCHANGED vars
  BY <1>6 DEF vars, procVars, threadVars, regVars
<1> QED
  BY <1>1, <1>2, <1>3, <1>4, <1>5, <1>6 DEF Next

LEMMA StepInv == IInv /\ [Next]_vars => IInv'
  BY TypesInv, StartsStep, KeptStep DEF IInv

\* All of the invariant holds, in every interleaving of workers, registry and
\* process.
THEOREM Invariance == Spec => []IInv
  BY InitInv, StepInv, PTL DEF Spec

\* The types, and that done is closed only after the process has exited
\* (external.go:253-261).
THEOREM TypeCorrect == Spec => []TypeOK
<1>1. IInv => TypeOK
  BY DEF IInv
<1> QED
  BY <1>1, Invariance, PTL

\* No command overtakes the start: External.mu is held until PluginStart is
\* answered (external.go:185-200).
THEOREM CommandsComeLater == Spec => []NoEarlyCommand
<1>1. IInv => NoEarlyCommand
  BY DEF IInv, StartsInv
<1> QED
  BY <1>1, Invariance, PTL

\* Every process that runs is the current one, in the hands of Stop or killed
\* because its start failed, except one that a late call starts while Stop is
\* under way (external.go:191-198, 270-277).
THEOREM ProcessesAreKept == Spec => []NoProcessLost
<1>1. IInv => NoProcessLost
  BY DEF IInv, KeptInv
<1> QED
  BY <1>1, Invariance, PTL

\* With that exception at most one process runs that has not been killed for a
\* failed start: a restart waits for the exit of any other, and while Stop has one
\* in its hands the current one is the same or in inStop (external.go:129-135).
THEOREM RestartsWait == Spec => []OneProcess
<1>1. IInv => OneProcess
  <2> SUFFICES ASSUME IInv PROVE OneProcess
    OBVIOUS
  <2> DEFINE running == up \ (inStop \cup abandoned)
  <2>1. \A j, k \in running : j = k
    BY ThreadsAssumption DEF IInv, TypeOK, KeptInv, StopHasCurrent, NoProcessLost, InStop, Holding
  <2>2. CASE running = {}
    BY <2>2, FS_EmptySet DEF OneProcess
  <2>3. ASSUME NEW k \in running PROVE OneProcess
    <3>1. running = {k}
      BY <2>1, <2>3
    <3> QED
      BY <3>1, FS_Singleton DEF OneProcess
  <2> QED
    BY <2>2, <2>3
<1> QED
  BY <1>1, Invariance, PTL
=============================================================================
