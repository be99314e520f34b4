---------------------------- MODULE PluginProcess ----------------------------
(***************************************************************************)
(* One plugin's child process: its supervisor in the host                  *)
(* (internal/pluginexternal), the registry operations that start and stop  *)
(* it (internal/plugin), the workers whose calls restart it, and the       *)
(* runtime inside the process (internal/pluginruntime).                    *)
(*                                                                         *)
(* External.mu is held across the whole start of a process, PluginStart    *)
(* included, and released while a process is called or stopped.  The       *)
(* registry holds its own mutex across Enable and Disable, so one thread   *)
(* stands for all of its operations.  The message loop takes that mutex for *)
(* every message, so it stands still while an operation is under way.      *)
(*                                                                         *)
(* A call over the peer is abstracted to a request that is sent, handled   *)
(* and answered, or that fails because the peer is closed: PluginRpc shows *)
(* that nothing else happens to it.                                        *)
(***************************************************************************)
EXTENDS Naturals, FiniteSets

CONSTANTS
  Callers,       \* the workers that may be calling the plugin at one time
  Registry,      \* the thread of the registry operation in progress
  MaxProcs,      \* the processes that may be started
  Operations,    \* the registry operations that are used
  Hangs,         \* which of the plugin's own functions may never return
  Faults         \* what may go wrong: "crash", "garbage", "spawn"

Threads == Callers \cup {Registry}
Procs == 1..MaxProcs

ASSUME ThreadsAssumption ==
  Registry \notin Callers /\ MaxProcs \in Nat \ {0}

ASSUME FaultsAssumption ==
  /\ Operations \subseteq {"enable", "disable", "remove", "undo"}
  /\ Hangs \subseteq {"start", "stop", "command"}
  /\ Faults \subseteq {"crash", "garbage", "spawn"}

VARIABLES
  cur,        \* the process behind External.command, peer, stdin, done; 0: nil
  spawned,    \* processes started so far
  up,         \* the processes that run
  stdin,      \* the processes whose stdin the host has not closed
  closed,     \* the processes whose host-side peer is closed
  done,       \* the processes whose done channel is closed
  rt,         \* runtimeState of each process
  inStop,     \* history: the processes started while Stop was under way
  abandoned,  \* the processes whose start failed: killed, and not waited for
  pc,         \* where each thread stands
  tgt,        \* the process whose peer each thread has taken
  req,        \* the request each thread has made of that process
  enabled,    \* the registry entry's enabled flag, and its router entries
  registered, \* whether the registry has the entry
  op,         \* the registry operation in progress
  stopErr,    \* the error Stop is going to return
  ending      \* whether the host ends: jobs are cancelled, Shutdown has 10 s

procVars == <<cur, spawned, up, stdin, closed, done, rt, inStop, abandoned>>
threadVars == <<pc, tgt, req>>
regVars == <<enabled, registered, op, stopErr, ending>>
vars == <<procVars, threadVars, regVars>>

Init ==
  /\ cur = 0 /\ spawned = 0
  /\ up = {} /\ stdin = {} /\ closed = {} /\ done = {}
  /\ inStop = {} /\ abandoned = {}
  /\ rt = [k \in Procs |-> "new"]
  /\ pc = [t \in Threads |-> "idle"]
  /\ tgt = [t \in Threads |-> 0]
  /\ req = [t \in Threads |-> "none"]
  /\ enabled = FALSE /\ registered = TRUE
  /\ op = "none" /\ stopErr = FALSE /\ ending = FALSE

\* A process ends; what its runtime was doing no longer matters.
Dies(k) ==
  /\ up' = up \ {k}
  /\ rt' = IF k \in up THEN [rt EXCEPT ![k] = "gone"] ELSE rt

Goto(t, label) == pc' = [pc EXCEPT ![t] = label]

\* Thread t is done with its process, and with its operation.
Return(t) ==
  /\ Goto(t, "idle")
  /\ tgt' = [tgt EXCEPT ![t] = 0]
  /\ req' = [req EXCEPT ![t] = "none"]

\* Mutant: the mutex is not held across the start.
MuNotHeld == TRUE

\* External.mu is held from one step to the next only while a process starts.
MuFree == \A t \in Threads : pc[t] # "starting"

-----------------------------------------------------------------------------
(* startLocked, under call and under Start.                                *)

NoProcess == cur = 0 \/ cur \in done

\* A process is wanted and none runs: forget the old one, start another and
\* send PluginStart, still holding the mutex.
Spawn(t) ==
  /\ pc[t] \in {"armed", "enabling"}
  /\ MuFree /\ NoProcess
  /\ spawned < MaxProcs
  /\ LET k == spawned + 1 IN
       /\ spawned' = k /\ cur' = k
       /\ up' = up \cup {k} /\ stdin' = stdin \cup {k}
       /\ inStop' = IF pc[Registry] \in {"stopping", "draining", "killed",
                                         "clearing"}
                      THEN inStop \cup {k} ELSE inStop
       /\ tgt' = [tgt EXCEPT ![t] = k]
  /\ req' = [req EXCEPT ![t] = "sent"]
  /\ Goto(t, "starting")
  /\ UNCHANGED <<closed, done, rt, abandoned, regVars>>

\* The work directory, the pipes or the executable fail (or the model's bound
\* on processes is reached).
SpawnFails(t) ==
  /\ pc[t] \in {"armed", "enabling"}
  /\ MuFree /\ NoProcess
  /\ "spawn" \in Faults \/ spawned = MaxProcs
  /\ cur' = 0
  /\ Return(t)
  /\ op' = IF t = Registry THEN "none" ELSE op
  /\ UNCHANGED <<spawned, up, stdin, closed, done, rt, inStop, abandoned,
                 enabled, registered, stopErr, ending>>

\* PluginStart is answered: a call goes on to its own request, Enable to
\* registering the commands.
StartSucceeds(t) ==
  /\ pc[t] = "starting" /\ req[t] = "ok"
  /\ req' = [req EXCEPT ![t] = IF t = Registry THEN "none" ELSE "sent"]
  /\ Goto(t, IF t = Registry THEN "registering" ELSE "calling")
  /\ UNCHANGED <<procVars, tgt, regVars>>

\* The error path of a start: forget the process and return.
Forget(t) ==
  /\ cur' = 0
  /\ Return(t)
  /\ op' = IF t = Registry THEN "none" ELSE op
  /\ UNCHANGED <<spawned, up, stdin, closed, done, rt, inStop,
                 enabled, registered, stopErr, ending>>

\* Mutant: the process of a failed start is not killed.
StartFailsWithoutKill(t) ==
  pc[t] = "starting" /\ Forget(t) /\ UNCHANGED abandoned

\* Mutant: PluginStart is sent without its own timeout.
StartFailsOnlyOnError(t) ==
  /\ pc[t] = "starting"
  /\ req[t] = "err" \/ tgt[t] \in closed
  /\ abandoned' = abandoned \cup {tgt[t]}
  /\ Forget(t)

\* PluginStart fails, its 20 seconds pass or the caller's context ends: kill the
\* process and forget it, without waiting for its exit.
StartFails(t) ==
  /\ pc[t] = "starting"
  /\ abandoned' = abandoned \cup {tgt[t]}
  /\ Forget(t)

-----------------------------------------------------------------------------
(* External.call.                                                          *)

\* A worker finds the plugin's handler in the router or in the list of
\* listeners.  It may use it long after the plugin is disabled.
FindHandler(t) ==
  /\ t \in Callers /\ pc[t] = "idle"
  /\ enabled
  /\ Goto(t, "armed")
  /\ UNCHANGED <<procVars, tgt, req, regVars>>

\* Take the running process's peer and call it without the mutex.
TakePeer(t) ==
  /\ t \in Callers /\ pc[t] = "armed"
  /\ MuFree /\ ~NoProcess
  /\ tgt' = [tgt EXCEPT ![t] = cur]
  /\ req' = [req EXCEPT ![t] = "sent"]
  /\ Goto(t, "calling")
  /\ UNCHANGED <<procVars, regVars>>

\* The call is answered, its peer is closed, or the job's context ends, which it
\* does only when the host ends.
CallReturns(t) ==
  /\ t \in Callers /\ pc[t] = "calling"
  /\ req[t] \in {"ok", "err"} \/ tgt[t] \in closed \/ ending
  /\ Return(t)
  /\ UNCHANGED <<procVars, regVars>>

-----------------------------------------------------------------------------
(* Registry.Enable and External.Start.                                     *)

\* Enable and Disable run under the context of the job of the owner's command,
\* which has no deadline and ends when the host does; "undo" is one of the
\* Controller's roll-backs, whose context (context.WithoutCancel) never ends.
ContextEnds == ending /\ op # "undo"

Enable(why) ==
  /\ op = "none" /\ registered /\ ~enabled
  /\ op' = why
  /\ Goto(Registry, "enabling")
  /\ UNCHANGED <<procVars, tgt, req, enabled, registered, stopErr, ending>>

\* A late call has started the process already.
AlreadyStarted ==
  /\ pc[Registry] = "enabling"
  /\ MuFree /\ ~NoProcess
  /\ Goto(Registry, "registering")
  /\ UNCHANGED <<procVars, tgt, req, regVars>>

RegisterCommands ==
  /\ pc[Registry] = "registering"
  /\ enabled' = TRUE /\ op' = "none"
  /\ Return(Registry)
  /\ UNCHANGED <<procVars, registered, stopErr, ending>>

\* A command name is taken: stop the process again.
RegisterFails ==
  /\ pc[Registry] = "registering"
  /\ Goto(Registry, "stop")
  /\ UNCHANGED <<procVars, tgt, req, regVars>>

-----------------------------------------------------------------------------
(* Registry.Disable, Remove and Shutdown, and External.Stop.               *)

\* The host ends: the pool cancels its jobs, and Shutdown, which does to a plugin
\* what Disable does, follows with a context of ten seconds.
HostEnds ==
  /\ ~ending /\ ending' = TRUE
  /\ UNCHANGED <<procVars, threadVars, enabled, registered, op, stopErr>>

Disable(why) ==
  /\ op = "none" /\ registered /\ enabled
  /\ op' = why
  /\ enabled' = FALSE
  /\ Goto(Registry, "stop")
  /\ UNCHANGED <<procVars, tgt, req, registered, stopErr, ending>>

\* Remove of a plugin that is not enabled stops nothing.
RemoveDisabled ==
  /\ op = "none" /\ registered /\ ~enabled
  /\ registered' = FALSE
  /\ UNCHANGED <<procVars, threadVars, enabled, op, stopErr, ending>>

\* Stop returns; Remove deletes the entry unless Stop failed.
Finish(failed) ==
  /\ registered' = (registered /\ ~(op = "remove" /\ ~failed))
  /\ op' = "none" /\ stopErr' = FALSE
  /\ Return(Registry)
  /\ UNCHANGED <<enabled, ending>>

StopNothing ==
  /\ pc[Registry] = "stop" /\ MuFree /\ cur = 0
  /\ Finish(FALSE)
  /\ UNCHANGED procVars

\* Take the process and send it PluginStop, without the mutex.
StopTakes ==
  /\ pc[Registry] = "stop" /\ MuFree /\ cur # 0
  /\ tgt' = [tgt EXCEPT ![Registry] = cur]
  /\ req' = [req EXCEPT ![Registry] = "sent"]
  /\ Goto(Registry, "stopping")
  /\ UNCHANGED <<procVars, regVars>>

\* Mutant: Stop does not wait for the process.
StopWithoutWaiting ==
  /\ pc[Registry] = "stopping"
  /\ \/ req[Registry] = "ok" /\ stopErr' = FALSE
     \/ req[Registry] = "err" /\ stopErr' = TRUE
     \/ tgt[Registry] \in closed /\ stopErr' \in BOOLEAN
     \/ ContextEnds /\ stopErr' = TRUE
  /\ stdin' = stdin \ {tgt[Registry]}
  /\ req' = [req EXCEPT ![Registry] = "none"]
  /\ Goto(Registry, "clearing")
  /\ UNCHANGED <<cur, spawned, up, closed, done, rt, inStop, abandoned, tgt,
                 enabled, registered, op, ending>>

\* PluginStop is answered, or fails (ErrClosed is not an error here, another
\* error of a broken peer is), or the context ends; then stdin is closed.
StopCallEnds ==
  /\ pc[Registry] = "stopping"
  /\ \/ req[Registry] = "ok" /\ stopErr' = FALSE
     \/ req[Registry] = "err" /\ stopErr' = TRUE
     \/ tgt[Registry] \in closed /\ stopErr' \in BOOLEAN
     \/ ContextEnds /\ stopErr' = TRUE
  /\ stdin' = stdin \ {tgt[Registry]}
  /\ req' = [req EXCEPT ![Registry] = "none"]
  /\ Goto(Registry, "draining")
  /\ UNCHANGED <<cur, spawned, up, closed, done, rt, inStop, abandoned, tgt,
                 enabled, registered, op, ending>>

\* Mutant: the process is not killed when the context ends.
StopWaitsOn ==
  /\ pc[Registry] = "draining" /\ ContextEnds /\ ~stopErr
  /\ stopErr' = TRUE
  /\ UNCHANGED <<procVars, threadVars, enabled, registered, op, ending>>

\* The context ends before the process does: kill it, and wait on.
StopKills ==
  /\ pc[Registry] = "draining" /\ ContextEnds
  /\ stopErr' = TRUE
  /\ Goto(Registry, "killed")
  /\ UNCHANGED <<procVars, tgt, req, enabled, registered, op, ending>>

StopSeesDone ==
  /\ pc[Registry] \in {"draining", "killed"}
  /\ tgt[Registry] \in done
  /\ Goto(Registry, "clearing")
  /\ UNCHANGED <<procVars, tgt, req, regVars>>

\* The fields are cleared whatever process they hold by now.
StopClears ==
  /\ pc[Registry] = "clearing" /\ MuFree
  /\ cur' = 0
  /\ Finish(stopErr)
  /\ UNCHANGED <<spawned, up, stdin, closed, done, rt, inStop, abandoned>>

-----------------------------------------------------------------------------
(* The host's view of a process.                                           *)

\* The read loop meets the end of stdout, or something that is not JSON.
PeerCloses(k) ==
  /\ k \in 1..spawned /\ k \notin closed
  /\ k \notin up \/ "garbage" \in Faults
  /\ closed' = closed \cup {k}
  /\ UNCHANGED <<cur, spawned, up, stdin, done, rt, inStop, abandoned, threadVars,
                 regVars>>

\* Mutant: done is closed when the peer is, before the process has exited.
WaitReturnsEarly(k) ==
  /\ k \in (1..spawned) \ done
  /\ k \in closed /\ MuFree
  /\ done' = done \cup {k}
  /\ UNCHANGED <<cur, spawned, up, stdin, closed, rt, inStop, abandoned,
                 threadVars, regVars>>

\* The Wait goroutine records the exit under the mutex and closes done.
WaitReturns(k) ==
  /\ k \in (1..spawned) \ done
  /\ k \notin up /\ MuFree
  /\ done' = done \cup {k}
  /\ UNCHANGED <<cur, spawned, up, stdin, closed, rt, inStop, abandoned,
                 threadVars, regVars>>

-----------------------------------------------------------------------------
(* Inside the process: pluginruntime.                                      *)

\* runtimeState.mu is held while the plugin's own Start or Stop runs.
RuntimeFree(k) == rt[k] \in {"idle", "started", "stopped"}

Rt(k, state) == rt' = [rt EXCEPT ![k] = state]

PluginUnchanged ==
  UNCHANGED <<cur, spawned, stdin, closed, done, inStop, abandoned, pc, tgt,
              regVars>>

\* The runtime is wired and handlers may proceed.
Ready(k) ==
  /\ k \in up /\ rt[k] = "new"
  /\ Rt(k, "idle")
  /\ UNCHANGED <<up, req>> /\ PluginUnchanged

\* A request of thread t, made at label, reaches the process.
Arrives(t, k, label) ==
  /\ k \in up /\ RuntimeFree(k)
  /\ pc[t] = label /\ tgt[t] = k /\ req[t] = "sent"

HandleStart(t, k) ==
  /\ Arrives(t, k, "starting") /\ rt[k] # "started"
  /\ Rt(k, "starting")
  /\ req' = [req EXCEPT ![t] = "running"]
  /\ UNCHANGED up /\ PluginUnchanged

\* PluginStop of a plugin that is not started does nothing.
HandleStop(t, k) ==
  /\ Arrives(t, k, "stopping")
  /\ IF rt[k] = "started"
       THEN /\ Rt(k, "stopping")
            /\ req' = [req EXCEPT ![t] = "running"]
       ELSE /\ req' = [req EXCEPT ![t] = "ok"]
            /\ UNCHANGED rt
  /\ UNCHANGED up /\ PluginUnchanged

\* A command or a message is refused unless the plugin is started; its handler
\* runs outside the runtime's mutex.
HandleCommand(t, k) ==
  /\ Arrives(t, k, "calling")
  /\ req' = [req EXCEPT ![t] = IF rt[k] = "started" THEN "running" ELSE "err"]
  /\ UNCHANGED <<up, rt>> /\ PluginUnchanged

\* Reply to whoever still waits at label for process k.
Reply(k, label, answer) ==
  req' = [t \in Threads |->
            IF pc[t] = label /\ tgt[t] = k /\ req[t] = "running"
              THEN answer ELSE req[t]]

StartReturns(k) ==
  /\ k \in up /\ rt[k] = "starting"
  /\ \/ Rt(k, "started") /\ Reply(k, "starting", "ok")
     \/ Rt(k, "idle") /\ Reply(k, "starting", "err")
  /\ UNCHANGED up /\ PluginUnchanged

StopReturns(k) ==
  /\ k \in up /\ rt[k] = "stopping"
  /\ Rt(k, "stopped")
  /\ \E answer \in {"ok", "err"} : Reply(k, "stopping", answer)
  /\ UNCHANGED up /\ PluginUnchanged

CommandReturns(t, k) ==
  /\ k \in up /\ pc[t] = "calling" /\ tgt[t] = k /\ req[t] = "running"
  /\ \E answer \in {"ok", "err"} : req' = [req EXCEPT ![t] = answer]
  /\ UNCHANGED <<up, rt>> /\ PluginUnchanged

\* Stdin ends: Run stops the plugin if it is started, and returns.
RunStops(k) ==
  /\ k \in up \ stdin /\ rt[k] = "started"
  /\ Rt(k, "quitting")
  /\ UNCHANGED <<up, req>> /\ PluginUnchanged

RunReturns(k) ==
  /\ k \in up \ stdin /\ rt[k] \in {"idle", "stopped", "quitting"}
  /\ Dies(k)
  /\ UNCHANGED req /\ PluginUnchanged

\* A process that was killed exits, some time after.
Exits(k) ==
  /\ k \in up
  /\ k \in abandoned \/ (pc[Registry] = "killed" /\ k = tgt[Registry])
  /\ Dies(k)
  /\ UNCHANGED req /\ PluginUnchanged

Crash(k) ==
  /\ "crash" \in Faults /\ k \in up
  /\ Dies(k)
  /\ UNCHANGED req /\ PluginUnchanged

-----------------------------------------------------------------------------
StartStep(t) == Spawn(t) \/ SpawnFails(t) \/ StartSucceeds(t) \/ StartFails(t)

CallStep(t) == FindHandler(t) \/ TakePeer(t) \/ CallReturns(t)

RegistryStep ==
  \/ \E why \in Operations \cap {"enable", "undo"} : Enable(why)
  \/ AlreadyStarted \/ RegisterCommands \/ RegisterFails
  \/ \E why \in Operations \ {"enable"} : Disable(why)
  \/ RemoveDisabled \/ HostEnds
  \/ StopNothing \/ StopTakes \/ StopCallEnds \/ StopKills \/ StopSeesDone
  \/ StopClears

PluginStep(k) ==
  \/ Ready(k) \/ StartReturns(k) \/ StopReturns(k) \/ RunStops(k)
  \/ RunReturns(k) \/ Exits(k) \/ Crash(k)
  \/ \E t \in Threads :
       HandleStart(t, k) \/ HandleStop(t, k) \/ HandleCommand(t, k)
         \/ CommandReturns(t, k)

Next ==
  \/ \E t \in Threads : StartStep(t) \/ CallStep(t)
  \/ RegistryStep
  \/ \E k \in Procs : PeerCloses(k) \/ WaitReturns(k) \/ PluginStep(k)

\* A thread that can go on does so, and mutexes are handed over in arrival
\* order (hence SF); timers fire; a process that is killed exits; the plugin's
\* own functions return unless they are among Hangs.  Nothing forces a command, a
\* registry operation, a message, a fault or the end of the host.
Fairness ==
  /\ \A t \in Threads :
       /\ SF_vars(Spawn(t) \/ SpawnFails(t) \/ TakePeer(t))
       /\ WF_vars(StartSucceeds(t) \/ StartFails(t) \/ CallReturns(t))
  /\ SF_vars(AlreadyStarted \/ StopNothing \/ StopTakes \/ StopClears)
  /\ WF_vars(RegisterCommands \/ RegisterFails)
  /\ WF_vars(StopCallEnds \/ StopKills \/ StopSeesDone)
  /\ \A k \in Procs :
       /\ WF_vars(k \notin up /\ PeerCloses(k))
       /\ SF_vars(WaitReturns(k))
       /\ WF_vars(Ready(k) \/ RunStops(k)) /\ WF_vars(Exits(k))
       /\ "start" \notin Hangs => WF_vars(StartReturns(k))
       /\ "stop" \notin Hangs =>
            WF_vars(StopReturns(k)) /\ WF_vars(RunReturns(k))
       /\ WF_vars(rt[k] # "quitting" /\ RunReturns(k))
       /\ \A t \in Threads :
            /\ WF_vars(HandleStart(t, k) \/ HandleStop(t, k) \/ HandleCommand(t, k))
            /\ "command" \notin Hangs => WF_vars(CommandReturns(t, k))

Spec == Init /\ [][Next]_vars
FairSpec == Spec /\ Fairness

-----------------------------------------------------------------------------
(* Properties.                                                             *)

\* Besides the types: a done channel is closed only after its process exited.
TypeOK ==
  /\ spawned \in 0..MaxProcs /\ cur \in 0..spawned
  /\ up \subseteq 1..spawned /\ stdin \subseteq 1..spawned
  /\ closed \subseteq 1..spawned /\ inStop \subseteq 1..spawned
  /\ abandoned \subseteq 1..spawned
  /\ done \subseteq (1..spawned) \ up
  /\ rt \in [Procs -> {"new", "idle", "starting", "started", "stopping",
                       "stopped", "quitting", "gone"}]
  /\ pc \in [Threads -> {"idle", "armed", "enabling", "starting", "calling",
                         "registering", "stop", "stopping", "draining", "killed",
                         "clearing"}]
  /\ tgt \in [Threads -> 0..spawned]
  /\ req \in [Threads -> {"none", "sent", "running", "ok", "err"}]
  /\ enabled \in BOOLEAN /\ registered \in BOOLEAN /\ stopErr \in BOOLEAN
  /\ op \in {"none", "enable", "disable", "remove", "undo"}
  /\ ending \in BOOLEAN

\* No command overtakes the start: whatever workers and registry do, a command
\* is only sent to a process whose plugin has finished starting, or is being
\* stopped (external.go:185-200, 265-278).
NoEarlyCommand ==
  \A t \in Callers : pc[t] = "calling" =>
    rt[tgt[t]] \notin {"new", "idle", "starting"}

\* No process is lost: one that runs is the current one, is in the hands of Stop,
\* or has been killed because its start failed.  The only processes that can
\* escape are those a late call starts while Stop is under way, because Stop
\* clears the fields whatever they hold (external.go:129-135, 191-198).
NoProcessLost ==
  \A k \in up \ inStop :
    \/ k = cur \/ k \in abandoned
    \/ k = tgt[Registry] /\ pc[Registry] \in {"stopping", "draining", "killed"}

\* With the same exception, no two processes of one plugin run side by side in
\* its work directory: a restart waits for the exit of the old process.  Only one
\* whose start failed is not waited for (external.go:270-277): it has been killed
\* and may still run when the next is started.
OneProcess == Cardinality(up \ (inStop \cup abandoned)) <= 1

\* "Remove stops an enabled plugin and removes it from the registry"
\* (registry.go:106): a plugin that has been removed does not run.
RemovedDoesNotRun == ~registered => up = {}

\* The plugin's own Stop runs, in the request or as Run ends, and holds the
\* runtime's mutex.
InOwnStop(k) == rt[k] \in {"stopping", "quitting"}

\* A registry operation, which keeps the message loop and every other plugin's
\* operations from the registry, ends, whatever the plugin does in Start, Stop or
\* a command, and once the host ends even if its own Stop does not return.  The
\* one thing it waits for without a limit is the plugin's own Stop, under a
\* context that has no end: that of a command while the host runs, or that of a
\* roll-back (registry.go:58-142; external.go:119-127; admin.go:223).
RegistryIsReleased ==
  []<>(\/ op = "none"
       \/ /\ pc[Registry] \in {"stopping", "draining"} /\ InOwnStop(tgt[Registry])
          /\ ~ContextEnds)

\* "A single plugin's failure must not end the message loop or affect other
\* plugins" (docs/architecture.md:9): the registry's mutex, which the message
\* loop takes for every message, is always free again.  No run checks this: a
\* plugin that hangs in Stop while a command disables it refutes it.
LoopIsFree == []<>(op = "none")

\* Every call returns, again and again, or is in the hands of the plugin's own
\* handler, although it may have to wait for others to start a plugin that hangs
\* in Start; or it waits behind the plugin's own Stop, which a command that has
\* no deadline waits for too (external.go:179-202, 263-277; runtime.go:119-128).
CallsReturn ==
  \A t \in Callers :
    []<>(\/ pc[t] = "idle"
         \/ /\ pc[t] = "calling"
            /\ req[t] = "running" \/ (req[t] = "sent" /\ InOwnStop(tgt[t]))
            /\ ~ending)
=============================================================================
