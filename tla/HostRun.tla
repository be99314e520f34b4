------------------------------ MODULE HostRun ------------------------------
(***************************************************************************)
(* The life of the host (internal/app): plugins are enabled, the update    *)
(* loop turns messages into jobs for the command pool (internal/dispatch), *)
(* and when the context ends the deferred calls of App.Run stop the pool,  *)
(* then the plugins (plugin.Registry.Shutdown), and close the database.    *)
(*                                                                         *)
(* A plugin is up or not; PluginProcess has the steps between, and why     *)
(* starting and stopping one ends.  The registry's mutex is held through   *)
(* both.  A handler may run for as long as it likes, whatever its context  *)
(* says.  The core plugin and the scheduler, to which nothing adds a job,  *)
(* have nothing to wait for and are left out.                              *)
(***************************************************************************)
EXTENDS Naturals, Sequences, FiniteSets, SequencesExt

CONSTANTS
  Workers,      \* the workers of the pool
  Plugins,      \* the plugins, but for core
  Capacity,     \* of the queue
  MaxCommands   \* how many commands enable or disable a plugin

Main == "main"
Nobody == "nobody"
Listeners == UNION {[1..n -> Plugins] : n \in 0..Cardinality(Plugins)}

ASSUME HostAssumption ==
  /\ IsFiniteSet(Plugins) /\ IsFiniteSet(Workers)
  /\ Workers \cap {Main, Nobody} = {}
  /\ Capacity \in Nat /\ Capacity >= Cardinality(Workers)
  /\ MaxCommands \in Nat

VARIABLES
  ended,     \* whether the context has ended: a signal, or a restart
  main,      \* where App.Run is
  todo,      \* the plugins App.Run has still to enable, or to stop
  order,     \* Registry.order: the enabled plugins
  up,        \* the plugins that run
  mutex,     \* who holds Registry.mu for writing
  loop,      \* the update loop, handling a message or not
  commands,  \* how many commands have enabled or disabled a plugin
  queue,     \* of the pool: a job is the listeners it will call
  accepting,
  worker,    \* what each worker does
  closed,    \* whether the database is closed
  overdue,   \* history: Pool.Stop gave up after ten seconds
  strays     \* history: plugins a late call started while they were disabled

registry == <<order, up, mutex>>
pool == <<queue, accepting, worker>>
vars == <<ended, main, todo, registry, loop, commands, pool, closed,
          overdue, strays>>

IdleLoop == [pc |-> "idle", listeners |-> <<>>]
IdleWorker == [pc |-> "idle", listeners |-> <<>>]

Init ==
  /\ ended = FALSE
  /\ main = "load" /\ todo \in SetToSeqs(Plugins)
  /\ order = <<>> /\ up = {} /\ mutex = Nobody
  /\ loop = IdleLoop /\ commands = 0
  /\ queue = <<>> /\ accepting = FALSE
  /\ worker = [w \in Workers |-> IdleWorker]
  /\ closed = FALSE /\ overdue = FALSE /\ strays = {}

Alive == main # "exited"

\* Shutdown takes the plugins one by one and forgets their order at its end.
Enabled(p) ==
  /\ \E i \in DOMAIN order : order[i] = p
  /\ main = "stop" => \E i \in DOMAIN todo : todo[i] = p

Stopping == main \notin {"load", "run"}

\* A signal, or the restart command.
End ==
  /\ Alive /\ ~ended
  /\ ended' = TRUE
  /\ UNCHANGED <<main, todo, registry, loop, commands, pool, closed,
                 overdue, strays>>

-----------------------------------------------------------------------------
(* App.Run.                                                                *)

\* A plugin that does not start is passed over.
LoadNext ==
  /\ main = "load" /\ todo # <<>>
  /\ todo' = Tail(todo)
  /\ \/ order' = Append(order, Head(todo)) /\ up' = up \cup {Head(todo)}
     \/ UNCHANGED <<order, up>>
  /\ UNCHANGED <<ended, main, mutex, loop, commands, pool, closed,
                 overdue, strays>>

StartPool ==
  /\ main = "load" /\ todo = <<>>
  /\ main' = "run"
  /\ accepting' = TRUE
  /\ UNCHANGED <<ended, todo, registry, loop, commands, queue, worker,
                 closed, overdue, strays>>

\* client.Run returns, because the context has ended or with an error, and the
\* deferred calls begin: the pool refuses jobs and cancels its context.
StopPool ==
  /\ main = "run"
  /\ main' = "waitPool"
  /\ accepting' = FALSE
  /\ UNCHANGED <<ended, todo, registry, loop, commands, queue, worker,
                 closed, overdue, strays>>

PoolIsDone == \A w \in Workers : worker[w].pc = "exited"

\* Mutant: the pool refuses jobs and nobody waits for those that run.
PoolIsStopped ==
  /\ main = "waitPool"
  /\ main' = "lock"
  /\ UNCHANGED <<ended, todo, registry, loop, commands, pool, closed,
                 overdue, strays>>

PoolStopped ==
  /\ main = "waitPool" /\ PoolIsDone
  /\ main' = "lock"
  /\ UNCHANGED <<ended, todo, registry, loop, commands, pool, closed,
                 overdue, strays>>

\* Mutant: Stop waits for the workers however long it takes.
PoolNeverOverdue ==
  /\ main = "waitPool" /\ PoolIsDone
  /\ main' = "lock" /\ overdue' = TRUE
  /\ UNCHANGED <<ended, todo, registry, loop, commands, pool, closed,
                 strays>>

PoolOverdue ==
  /\ main = "waitPool" /\ ~PoolIsDone
  /\ main' = "lock" /\ overdue' = TRUE
  /\ UNCHANGED <<ended, todo, registry, loop, commands, pool, closed,
                 strays>>

\* Mutant: the plugins are stopped without the mutex.
ShutdownWithoutLock ==
  /\ main = "lock"
  /\ main' = "stop" /\ todo' = Reverse(order)
  /\ UNCHANGED <<ended, registry, loop, commands, pool, closed,
                 overdue, strays>>

\* Registry.Shutdown, which takes the mutex whatever its context says.
LockForShutdown ==
  /\ main = "lock" /\ mutex = Nobody
  /\ mutex' = Main
  /\ main' = "stop" /\ todo' = Reverse(order)
  /\ UNCHANGED <<ended, order, up, loop, commands, pool, closed,
                 overdue, strays>>

StopNext ==
  /\ main = "stop" /\ todo # <<>>
  /\ todo' = Tail(todo)
  /\ up' = up \ {Head(todo)} /\ strays' = strays \ {Head(todo)}
  /\ UNCHANGED <<ended, main, order, mutex, loop, commands, pool,
                 closed, overdue>>

ShutdownEnds ==
  /\ main = "stop" /\ todo = <<>>
  /\ order' = <<>> /\ mutex' = Nobody
  /\ main' = "close"
  /\ UNCHANGED <<ended, todo, up, loop, commands, pool, closed,
                 overdue, strays>>

Close ==
  /\ main = "close"
  /\ closed' = TRUE
  /\ main' = "exited"
  /\ UNCHANGED <<ended, todo, registry, loop, commands, pool,
                 overdue, strays>>

Shutdown ==
  \/ PoolStopped \/ PoolOverdue
  \/ LockForShutdown \/ StopNext \/ ShutdownEnds \/ Close

-----------------------------------------------------------------------------
(* App.handleMessage, on the update loop.                                  *)

Receive ==
  /\ main = "run" /\ loop.pc = "idle"
  /\ loop' = [loop EXCEPT !.pc = "collect"]
  /\ UNCHANGED <<ended, main, todo, registry, commands, pool, closed, overdue,
                 strays>>

\* Registry.MessageListeners reads the registry under its mutex.
Collect ==
  /\ Alive /\ loop.pc = "collect" /\ mutex = Nobody
  /\ loop' = [pc |-> "submit", listeners |-> order]
  /\ UNCHANGED <<ended, main, todo, registry, commands, pool, closed,
                 overdue, strays>>

\* Mutant: a full queue is waited for.
SubmitWaits ==
  /\ Alive /\ loop.pc = "submit"
  /\ accepting => Len(queue) < Capacity
  /\ queue' = IF accepting THEN Append(queue, loop.listeners) ELSE queue
  /\ loop' = IdleLoop
  /\ UNCHANGED <<ended, main, todo, registry, commands, accepting,
                 worker, closed, overdue, strays>>

\* Mutant: the queue has no bound.
Admits == accepting

\* Pool.Submit takes a job if the pool is running and the queue has room.
CanAccept == accepting /\ Len(queue) < Capacity

Submit ==
  /\ Alive /\ loop.pc = "submit"
  /\ queue' = IF CanAccept THEN Append(queue, loop.listeners) ELSE queue
  /\ loop' = IdleLoop
  /\ UNCHANGED <<ended, main, todo, registry, commands, accepting,
                 worker, closed, overdue, strays>>

Handle == Receive \/ Collect \/ Submit

-----------------------------------------------------------------------------
(* The workers.                                                            *)

On(w, pc) == Alive /\ main # "load" /\ worker[w].pc = pc
To(w, pc) == worker' = [worker EXCEPT ![w].pc = pc]

Take(w) ==
  /\ On(w, "idle") /\ queue # <<>>
  /\ worker' = [worker EXCEPT ![w] =
                  [pc |-> "listeners", listeners |-> Head(queue)]]
  /\ queue' = Tail(queue)
  /\ UNCHANGED <<ended, main, todo, registry, loop, commands,
                 accepting, closed, overdue, strays>>

\* Of a queued job and the end of the context, select takes either.
Leave(w) ==
  /\ On(w, "idle") /\ (ended \/ Stopping)
  /\ To(w, "exited")
  /\ UNCHANGED <<ended, main, todo, registry, loop, commands, queue,
                 accepting, closed, overdue, strays>>

\* The next listener is called, which starts its process if there is none.
CallListener(w) ==
  /\ On(w, "listeners") /\ worker[w].listeners # <<>>
  /\ LET p == Head(worker[w].listeners) IN
       \/ /\ up' = up \cup {p}
          /\ strays' = IF Enabled(p) THEN strays ELSE strays \cup {p}
       \/ UNCHANGED <<up, strays>>
  /\ To(w, "handler")
  /\ UNCHANGED <<ended, main, todo, order, mutex, loop, commands,
                 queue, accepting, closed, overdue>>

HandlerReturns(w) ==
  /\ On(w, "handler")
  /\ worker' = [worker EXCEPT ![w] =
                  [pc |-> "listeners", listeners |-> Tail(@.listeners)]]
  /\ UNCHANGED <<ended, main, todo, registry, loop, commands, queue,
                 accepting, closed, overdue, strays>>

\* The job ends, or goes on with a command of the core plugin.
JobEnds(w) ==
  /\ On(w, "listeners") /\ worker[w].listeners = <<>>
  /\ To(w, "idle")
  /\ UNCHANGED <<ended, main, todo, registry, loop, commands, queue,
                 accepting, closed, overdue, strays>>

\* A command enables or disables a plugin.
Administer(w) ==
  /\ On(w, "listeners") /\ worker[w].listeners = <<>>
  /\ commands < MaxCommands
  /\ commands' = commands + 1
  /\ To(w, "admin")
  /\ UNCHANGED <<ended, main, todo, registry, loop, queue, accepting,
                 closed, overdue, strays>>

LockRegistry(w) ==
  /\ On(w, "admin") /\ mutex = Nobody
  /\ mutex' = w
  /\ To(w, "change")
  /\ UNCHANGED <<ended, main, todo, order, up, loop, commands, queue,
                 accepting, closed, overdue, strays>>

\* Registry.Enable: Start ends, in time or with the context.
EnablePlugin(w, p) ==
  /\ On(w, "change") /\ ~Enabled(p)
  /\ \/ order' = Append(order, p) /\ up' = up \cup {p}
     \/ UNCHANGED order /\ up' = up \ {p}
  /\ strays' = strays \ {p}
  /\ mutex' = Nobody
  /\ To(w, "idle")
  /\ UNCHANGED <<ended, main, todo, loop, commands, queue, accepting,
                 closed, overdue>>

\* Registry.Disable: Stop ends with the process.
DisablePlugin(w, p) ==
  /\ On(w, "change") /\ Enabled(p)
  /\ \E i \in DOMAIN order : order[i] = p /\ order' = RemoveAt(order, i)
  /\ up' = up \ {p} /\ strays' = strays \ {p}
  /\ mutex' = Nobody
  /\ To(w, "idle")
  /\ UNCHANGED <<ended, main, todo, loop, commands, queue, accepting,
                 closed, overdue>>

Change(w) == \E p \in Plugins : EnablePlugin(w, p) \/ DisablePlugin(w, p)

Work(w) ==
  \/ Take(w) \/ Leave(w) \/ CallListener(w) \/ HandlerReturns(w)
  \/ JobEnds(w) \/ Administer(w) \/ LockRegistry(w) \/ Change(w)

Next ==
  \/ End
  \/ LoadNext \/ StartPool \/ StopPool \/ Shutdown
  \/ Handle
  \/ \E w \in Workers : Work(w)

\* Handlers need not return, and nothing makes the context end or a message
\* arrive; what waits for a mutex gets it in the end.
Fairness ==
  /\ WF_vars(LoadNext \/ StartPool \/ (ended /\ StopPool) \/ Shutdown)
  /\ SF_vars(LockForShutdown)
  /\ SF_vars(Collect)
  /\ WF_vars(Submit)
  /\ \A w \in Workers :
       /\ WF_vars(Take(w) \/ Leave(w) \/ CallListener(w) \/ JobEnds(w))
       /\ SF_vars(LockRegistry(w))
       /\ WF_vars(Change(w))

Spec == Init /\ [][Next]_vars /\ Fairness

-----------------------------------------------------------------------------
(* Properties.                                                             *)

\* Types; the queue is bounded by its capacity (pool.go:18-19), the mutex is
\* held by whoever changes the registry, and nothing is enabled twice.
TypeOK ==
  /\ ended \in BOOLEAN /\ accepting \in BOOLEAN
  /\ closed \in BOOLEAN /\ overdue \in BOOLEAN
  /\ main \in {"load", "run", "waitPool", "lock", "stop", "close", "exited"}
  /\ todo \in Listeners /\ order \in Listeners
  /\ up \subseteq Plugins /\ strays \subseteq Plugins
  /\ mutex \in Workers \cup {Main, Nobody}
  /\ loop \in [pc : {"idle", "collect", "submit"}, listeners : Listeners]
  /\ commands \in 0..MaxCommands
  /\ queue \in Seq(Listeners) /\ Len(queue) <= Capacity
  /\ worker \in [Workers -> [pc : {"idle", "listeners", "handler", "admin",
                                   "change", "exited"},
                             listeners : Listeners]]
  /\ \A w \in Workers : mutex = w <=> worker[w].pc = "change"
  /\ mutex = Main <=> main = "stop"
  /\ IsInjective(order)

\* The deferred calls run in an order that leaves nothing behind: unless the
\* pool could not be stopped in time, no job is running and no plugin is up
\* when the database is closed and the host exits (app.go:196-245).  The
\* exception are plugins a job called after they had been disabled: nobody
\* stops the process that call has started.
QuietAtClose ==
  closed /\ ~overdue =>
    /\ \A w \in Workers : worker[w].pc = "exited"
    /\ up \subseteq strays

\* Whatever workers that would not stop do meanwhile, Shutdown leaves no plugin
\* up, but for those such a late call has started (registry.go:128-144).
ShutdownStopsAll ==
  [][main = "stop" => main' = "stop" \/ up' \subseteq strays']_vars

\* "The pool keeps slow plugin commands away from the update loop" (pool.go:18):
\* as long as starting and stopping a plugin ends, the loop finishes every
\* message, with every worker in a handler that never returns and the queue
\* full.
LoopGoesOn == (loop.pc # "idle") ~> (loop.pc = "idle" \/ ~Alive)

\* Once the context has ended or the client has returned, the host exits, even if
\* handlers hang (app.go:217, 240: ten seconds each; Shutdown waits for the mutex
\* without a deadline).
HostExits == ended \/ Stopping ~> ~Alive
=============================================================================
