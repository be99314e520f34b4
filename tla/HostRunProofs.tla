---------------------------- MODULE HostRunProofs ----------------------------
(***************************************************************************)
(* Theorems about the pool of workers and the commands that run on it.     *)
(*                                                                         *)
(* HostRun, for any number of workers and plugins, any capacity of the     *)
(* queue and any number of commands: nothing is left behind.  IInv says    *)
(* that a plugin that runs is one the registry will stop, or one a late    *)
(* call started, at every step of Enable, Disable and Shutdown.  For that  *)
(* the order of the registry must have each plugin once, and nobody but    *)
(* the holder of the mutex may be about to change it: TypeOK has both.     *)
(*                                                                         *)
(* AiPlugin, whose commands share their settings and histories, for any    *)
(* workers, chats, settings, predecessors and commands: nothing told is    *)
(* forgotten and no half answer is made.  AiInv says what each command may *)
(* still write, what the one with the mutex has read, and what is left of  *)
(* the import.                                                             *)
(***************************************************************************)
EXTENDS HostRun, AiPlugin, TLAPS, SequenceTheorems, FiniteSetTheorems

Ended == main \in {"lock", "stop", "close", "exited"}
Gone  == main \in {"close", "exited"}

\* A worker in a handler still has the listener it called at the head.
HandlerInv == \A w \in Workers : worker[w].pc = "handler" => worker[w].listeners # <<>>

\* At the start each plugin is enabled once.
LoadInv ==
  main = "load" => IsInjective(todo) /\ Range(todo) \cap Range(order) = {}
UpInv == \A p \in up \ strays : Enabled(p)
OrderlyInv ==
  /\ ~overdue /\ Ended => PoolIsDone
  /\ ~overdue /\ Gone => order = <<>>
  /\ closed => main = "exited"
IInv == TypeOK /\ HandlerInv /\ LoadInv /\ UpInv /\ OrderlyInv

-----------------------------------------------------------------------------
(* Sequences of plugins.                                                   *)

LEMMA ListenersAreSeqs == ASSUME NEW s \in Listeners PROVE s \in Seq(Plugins)
<1>1. PICK n \in 0 .. Cardinality(Plugins) : s \in [1 .. n -> Plugins]
  BY DEF Listeners
<1>2. n \in Nat OBVIOUS
<1> QED BY <1>1, <1>2

LEMMA PluginCount == Cardinality(Plugins) \in Nat
  BY HostAssumption, FS_CardinalityType

\* A sequence that has each plugin at most once is not longer than Plugins.
LEMMA InjectiveIsListeners ==
  ASSUME NEW s \in Seq(Plugins), IsInjective(s) PROVE s \in Listeners
<1>1. Len(s) \in Nat /\ s \in [1 .. Len(s) -> Plugins] OBVIOUS
<1>2. s \in Injection(1 .. Len(s), Plugins) BY <1>1 DEF Injection
<1>3. Cardinality(1 .. Len(s)) <= Cardinality(Plugins)
  BY <1>2, HostAssumption, FS_Injection
<1>4. Cardinality(1 .. Len(s)) = Len(s) BY <1>1, FS_Interval
<1>5. Len(s) \in 0 .. Cardinality(Plugins) BY <1>1, <1>3, <1>4, PluginCount
<1> QED BY <1>1, <1>5 DEF Listeners

LEMMA TailOfListeners ==
  ASSUME NEW s \in Listeners, s # <<>>
  PROVE  /\ Tail(s) \in Listeners /\ Head(s) \in Plugins
         /\ Range(Tail(s)) \cup {Head(s)} = Range(s)
         /\ IsInjective(s) => IsInjective(Tail(s)) /\ Head(s) \notin Range(Tail(s))
<1>1. PICK n \in 0 .. Cardinality(Plugins) : s \in [1 .. n -> Plugins]
  BY DEF Listeners
<1>2. s \in Seq(Plugins) /\ Len(s) = n /\ n \in Nat BY <1>1, ListenersAreSeqs
<1>3. n \in Nat \ {0} BY <1>2
<1>4. Tail(s) \in [1 .. n - 1 -> Plugins] /\ \A i \in 1 .. n - 1 : Tail(s)[i] = s[i + 1]
  <2>1. s # <<>> /\ Tail(s) \in Seq(Plugins) /\ Len(Tail(s)) = n - 1 BY <1>2
  <2>2. \A i \in 1 .. n - 1 : Tail(s)[i] = s[i + 1] BY <1>2, <1>3
  <2>3. Tail(s) \in [1 .. n - 1 -> Plugins] BY <2>1, LenProperties
  <2> QED BY <2>2, <2>3
<1>5. n - 1 \in 0 .. Cardinality(Plugins) BY <1>3, PluginCount
<1>6. Tail(s) \in Listeners BY <1>4, <1>5 DEF Listeners
<1>7. Head(s) = s[1] /\ s[1] \in Plugins BY <1>2, <1>3
<1>8. ASSUME NEW i \in 1 .. n, i # 1 PROVE s[i] = Tail(s)[i - 1] /\ i - 1 \in 1 .. n - 1
  BY <1>3, <1>4, <1>8
<1>9. Range(Tail(s)) \cup {Head(s)} = Range(s)
  <2>1. DOMAIN s = 1 .. n /\ DOMAIN Tail(s) = 1 .. n - 1 /\ 1 \in 1 .. n BY <1>1, <1>3, <1>4
  <2>2. ASSUME NEW i \in 1 .. n - 1 PROVE i + 1 \in 1 .. n BY <1>3
  <2>3. Range(Tail(s)) \subseteq Range(s) BY <1>4, <2>1, <2>2 DEF Range
  <2>4. Head(s) \in Range(s) BY <1>7, <2>1 DEF Range
  <2>5. ASSUME NEW x \in Range(s), x # Head(s) PROVE x \in Range(Tail(s))
    <3>1. PICK i \in 1 .. n : s[i] = x BY <2>1 DEF Range
    <3>2. i # 1 BY <1>7, <2>5, <3>1
    <3> QED BY <1>8, <2>1, <3>1, <3>2 DEF Range
  <2> QED BY <2>3, <2>4, <2>5
<1>10. ASSUME IsInjective(s) PROVE IsInjective(Tail(s)) /\ Head(s) \notin Range(Tail(s))
  BY <1>1, <1>3, <1>4, <1>7, <1>10 DEF IsInjective, Range
<1> QED BY <1>6, <1>7, <1>9, <1>10

LEMMA ReverseOfListeners ==
  ASSUME NEW s \in Listeners
  PROVE  Reverse(s) \in Listeners /\ Range(Reverse(s)) = Range(s)
<1>1. PICK n \in 0 .. Cardinality(Plugins) : s \in [1 .. n -> Plugins]
  BY DEF Listeners
<1>2. n \in Nat /\ Len(s) = n BY <1>1, ListenersAreSeqs
<1>3. ASSUME NEW i \in 1 .. n PROVE n - i + 1 \in 1 .. n /\ n - (n - i + 1) + 1 = i
  BY <1>2
<1>4. Reverse(s) = [i \in 1 .. n |-> s[n - i + 1]] BY <1>2 DEF Reverse
<1>5. Reverse(s) \in [1 .. n -> Plugins] BY <1>1, <1>3, <1>4
<1>6. Range(Reverse(s)) = Range(s)
  <2>1. DOMAIN s = 1 .. n /\ DOMAIN Reverse(s) = 1 .. n BY <1>1, <1>4
  <2>2. \A i \in 1 .. n : Reverse(s)[i] = s[n - i + 1] BY <1>4
  <2>3. ASSUME NEW i \in 1 .. n PROVE s[i] = Reverse(s)[n - i + 1]
    BY <1>3, <2>2
  <2> QED BY <1>3, <2>1, <2>2, <2>3 DEF Range
<1> QED BY <1>5, <1>6 DEF Listeners

LEMMA AppendToOrder ==
  ASSUME NEW s \in Listeners, IsInjective(s), NEW p \in Plugins, p \notin Range(s)
  PROVE  /\ Append(s, p) \in Listeners /\ IsInjective(Append(s, p))
         /\ Range(Append(s, p)) = Range(s) \cup {p}
<1>1. s \in Seq(Plugins) BY ListenersAreSeqs
<1> DEFINE n == Len(s) t == Append(s, p)
<1>2. /\ n \in Nat /\ DOMAIN s = 1 .. n /\ DOMAIN t = 1 .. n + 1
      /\ t[n + 1] = p /\ \A i \in 1 .. n : t[i] = s[i]
  BY <1>1
<1>3. t \in Seq(Plugins) BY <1>1
<1>4. \A i \in 1 .. n : s[i] # p BY <1>2 DEF Range
<1> HIDE DEF n, t
<1>5. \A i \in 1 .. n + 1 : i = n + 1 \/ i \in 1 .. n BY <1>2
<1>6. IsInjective(t)
  BY <1>2, <1>4, <1>5 DEF IsInjective
<1>7. Range(t) = Range(s) \cup {p}
  <2>1. n + 1 \in 1 .. n + 1 /\ 1 .. n \subseteq 1 .. n + 1 BY <1>2
  <2> QED BY <1>2, <1>5, <2>1 DEF Range
<1>8. t \in Listeners BY <1>3, <1>6, InjectiveIsListeners
<1> QED BY <1>6, <1>7, <1>8 DEF t

\* What removeFromOrder makes of the order: all but the one that is removed.
LEMMA RemoveFromOrder ==
  ASSUME NEW s \in Listeners, IsInjective(s), NEW i \in DOMAIN s
  PROVE  /\ RemoveAt(s, i) \in Listeners /\ IsInjective(RemoveAt(s, i))
         /\ Range(RemoveAt(s, i)) = Range(s) \ {s[i]}
<1>1. s \in Seq(Plugins) BY ListenersAreSeqs
<1> DEFINE n == Len(s) t == RemoveAt(s, i) a == SubSeq(s, 1, i - 1) b == SubSeq(s, i + 1, n)
<1>2. n \in Nat /\ i \in 1 .. n /\ DOMAIN s = 1 .. n BY <1>1
<1>3. a \in Seq(Plugins) /\ Len(a) = i - 1 /\ \A j \in 1 .. i - 1 : a[j] = s[j]
  BY <1>1, <1>2
<1>4. b \in Seq(Plugins) /\ Len(b) = n - i /\ \A j \in 1 .. n - i : b[j] = s[i + j]
  BY <1>1, <1>2
<1>5. t = a \o b BY DEF RemoveAt
<1> HIDE DEF a, b, n
<1>6. /\ t \in Seq(Plugins) /\ DOMAIN t = 1 .. n - 1
      /\ \A j \in 1 .. n - 1 : t[j] = IF j < i THEN s[j] ELSE s[j + 1]
  <2>1. t \in Seq(Plugins) /\ Len(t) = n - 1
    <3>1. t \in Seq(Plugins) /\ Len(t) = Len(a) + Len(b)
      BY <1>3, <1>4, <1>5, ConcatProperties
    <3> QED BY <1>2, <1>3, <1>4, <3>1
  <2>2. ASSUME NEW j \in 1 .. n - 1 PROVE t[j] = IF j < i THEN s[j] ELSE s[j + 1]
    <3>1. CASE j < i
      <4>1. j \in 1 .. i - 1 BY <1>2, <3>1
      <4>2. t[j] = a[j] BY <1>2, <1>3, <1>4, <1>5, <4>1
      <4> QED BY <1>3, <3>1, <4>1, <4>2
    <3>2. CASE ~(j < i)
      <4>1. j - (i - 1) \in 1 .. n - i /\ j > i - 1 /\ j <= n - 1 BY <1>2, <3>2
      <4>2. t[j] = b[j - (i - 1)] BY <1>2, <1>3, <1>4, <1>5, <4>1
      <4>3. i + (j - (i - 1)) = j + 1 BY <1>2
      <4> QED BY <1>4, <3>2, <4>1, <4>2, <4>3
    <3> QED BY <3>1, <3>2
  <2>3. DOMAIN t = 1 .. n - 1 BY <2>1
  <2> QED BY <2>1, <2>2, <2>3
<1> HIDE DEF t
<1>7. IsInjective(t)
  <2> SUFFICES ASSUME NEW j \in 1 .. n - 1, NEW k \in 1 .. n - 1, t[j] = t[k] PROVE j = k
    BY <1>6 DEF IsInjective
  <2> DEFINE old(x) == IF x < i THEN x ELSE x + 1
  <2>1. old(j) \in 1 .. n /\ old(k) \in 1 .. n BY <1>2
  <2>2. t[j] = s[old(j)] /\ t[k] = s[old(k)] BY <1>6
  <2>3. old(j) = old(k) BY <1>2, <2>1, <2>2 DEF IsInjective
  <2> QED BY <1>2, <2>3
<1>8. Range(t) = Range(s) \ {s[i]}
  <2>1. ASSUME NEW j \in 1 .. n - 1 PROVE t[j] \in Range(s) \ {s[i]}
    <3> DEFINE x == IF j < i THEN j ELSE j + 1
    <3>1. x \in 1 .. n /\ x # i BY <1>2
    <3>2. t[j] = s[x] BY <1>6
    <3> QED BY <1>2, <3>1, <3>2 DEF Range, IsInjective
  <2>2. ASSUME NEW x \in 1 .. n, x # i PROVE s[x] \in Range(t)
    <3> DEFINE j == IF x < i THEN x ELSE x - 1
    <3>1. j \in 1 .. n - 1 /\ (j < i <=> x < i) /\ (j < i => j = x) /\ (~(j < i) => j + 1 = x)
      BY <1>2, <2>2
    <3>2. t[j] = s[x] BY <1>6, <3>1
    <3> QED BY <1>6, <3>1, <3>2 DEF Range
  <2> QED BY <1>2, <1>6, <2>1, <2>2 DEF Range
<1>9. t \in Listeners BY <1>6, <1>7, InjectiveIsListeners
<1> QED BY <1>7, <1>8, <1>9 DEF t

-----------------------------------------------------------------------------
(* The types, and who holds the mutex.                                     *)

Places == {"idle", "listeners", "handler", "admin", "change", "exited"}
WorkersForm == worker \in [Workers -> [pc : Places, listeners : Listeners]]

\* What a step of a worker does to the workers.
Moves(w, pc) ==
  /\ WorkersForm' /\ worker'[w].pc = pc
  /\ \A v \in Workers : v # w => worker'[v] = worker[v]

LEMMA Moving ==
  ASSUME TypeOK, NEW w \in Workers, NEW pc \in Places, To(w, pc)
  PROVE  Moves(w, pc) /\ worker'[w].listeners = worker[w].listeners
  BY DEF TypeOK, To, Moves, WorkersForm, Places

LEMMA TakeMoves == ASSUME TypeOK, NEW w \in Workers, Take(w)
                   PROVE Moves(w, "listeners") /\ queue' \in Seq(Listeners) /\ Len(queue') <= Capacity
<1>1. queue \in Seq(Listeners) /\ queue # <<>> /\ Len(queue) <= Capacity /\ Capacity \in Nat
  BY HostAssumption DEF TypeOK, Take
<1>2. Head(queue) \in Listeners /\ Tail(queue) \in Seq(Listeners) /\ Len(Tail(queue)) = Len(queue) - 1
  BY <1>1
<1>3. Moves(w, "listeners") BY <1>2 DEF Take, TypeOK, Moves, WorkersForm, Places
<1>4. Len(queue) \in Nat BY <1>1
<1> QED BY <1>1, <1>2, <1>3, <1>4 DEF Take

LEMMA ReturnMoves ==
  ASSUME TypeOK, HandlerInv, NEW w \in Workers, HandlerReturns(w) PROVE Moves(w, "listeners")
<1>1. worker[w].pc = "handler" /\ worker[w].listeners # <<>> /\ worker \in [Workers -> [pc : Places, listeners : Listeners]]
  BY DEF TypeOK, HandlerReturns, On, HandlerInv, Places
<1>2. Tail(worker[w].listeners) \in Listeners BY <1>1, TailOfListeners
<1>3. worker' = [worker EXCEPT ![w] = [pc |-> "listeners", listeners |-> Tail(worker[w].listeners)]]
  BY DEF HandlerReturns
<1> QED BY <1>1, <1>2, <1>3 DEF Moves, WorkersForm, Places

LEMMA InitType == Init => TypeOK /\ HandlerInv /\ LoadInv
<1> SUFFICES ASSUME Init PROVE TypeOK /\ HandlerInv /\ LoadInv
  OBVIOUS
<1>1. Cardinality(Plugins) \in Nat /\ Capacity \in Nat /\ MaxCommands \in Nat
  BY PluginCount, HostAssumption
<1>2. <<>> \in Listeners
  <2>1. <<>> \in [1 .. 0 -> Plugins] /\ 0 \in 0 .. Cardinality(Plugins) BY <1>1
  <2> QED BY <2>1 DEF Listeners
<1>3. todo \in Listeners /\ IsInjective(todo)
  <2>1. Cardinality(Plugins) \in 0 .. Cardinality(Plugins) BY <1>1
  <2> QED BY <2>1 DEF Init, SetToSeqs, Listeners, IsInjective
<1>4. Range(order) = {} /\ IsInjective(order) BY DEF Init, Range, IsInjective
<1>5. queue \in Seq(Listeners) /\ Len(queue) <= Capacity BY <1>1 DEF Init
<1>6. (\A w \in Workers : w # Main /\ w # Nobody) /\ Main # Nobody
  BY HostAssumption DEF Main, Nobody
<1>7. /\ loop \in [pc : {"idle", "collect", "submit"}, listeners : Listeners]
      /\ worker \in [Workers -> [pc : {"idle", "listeners", "handler", "admin", "change", "exited"},
                                 listeners : Listeners]]
      /\ \A w \in Workers : worker[w].pc = "idle"
  BY <1>2 DEF Init, IdleLoop, IdleWorker
<1>8. (\A w \in Workers : mutex = w <=> worker[w].pc = "change") /\ (mutex = Main <=> main = "stop")
  BY <1>6, <1>7 DEF Init
<1>9. TypeOK
  <2>1. /\ ended \in BOOLEAN /\ accepting \in BOOLEAN /\ closed \in BOOLEAN /\ overdue \in BOOLEAN
        /\ main = "load" /\ order = <<>> /\ up \subseteq Plugins /\ strays \subseteq Plugins
    BY DEF Init
  <2>2. mutex \in Workers \cup {Main, Nobody} /\ commands \in 0 .. MaxCommands
    BY <1>1 DEF Init
  <2> QED BY <1>2, <1>3, <1>4, <1>5, <1>7, <1>8, <2>1, <2>2 DEF TypeOK
<1> QED BY <1>3, <1>4, <1>7, <1>9 DEF LoadInv, HandlerInv

AppForm ==
  /\ ended \in BOOLEAN /\ closed \in BOOLEAN /\ overdue \in BOOLEAN
  /\ main \in {"load", "run", "waitPool", "lock", "stop", "close", "exited"}
  /\ commands \in 0 .. MaxCommands
  /\ loop \in [pc : {"idle", "collect", "submit"}, listeners : Listeners]
RegistryForm ==
  /\ todo \in Listeners /\ order \in Listeners /\ IsInjective(order)
  /\ up \subseteq Plugins /\ strays \subseteq Plugins
PoolForm ==
  /\ accepting \in BOOLEAN /\ WorkersForm
  /\ queue \in Seq(Listeners) /\ Len(queue) <= Capacity
MutexForm ==
  /\ mutex \in Workers \cup {Main, Nobody}
  /\ \A w \in Workers : mutex = w <=> worker[w].pc = "change"
  /\ mutex = Main <=> main = "stop"

LEMMA TypeParts == TypeOK <=> AppForm /\ RegistryForm /\ PoolForm /\ MutexForm
  BY DEF TypeOK, AppForm, RegistryForm, PoolForm, WorkersForm, Places, MutexForm

\* What the steps of a worker have in common.
Around(w) == UNCHANGED <<ended, main, todo, loop, closed, overdue>>

LEMMA WorkMoves ==
  ASSUME TypeOK, HandlerInv, NEW w \in Workers, Work(w)
  PROVE  /\ Around(w) /\ accepting' = accepting /\ main # "load" /\ Alive
         /\ \E pc \in Places : Moves(w, pc)
         /\ worker[w].pc # "exited"
<1> SUFFICES /\ Around(w) /\ accepting' = accepting /\ main # "load" /\ Alive
             /\ worker[w].pc # "exited"
             /\ ~Take(w) /\ ~HandlerReturns(w) => \E pc \in Places : To(w, pc)
  BY Moving, TakeMoves, ReturnMoves DEF Places
<1> QED
  BY DEF Work, Take, Leave, CallListener, HandlerReturns, JobEnds, Administer, LockRegistry,
     Change, EnablePlugin, DisablePlugin, On, Around, pool, registry, Places

\* A worker that neither takes nor gives back the mutex.
Outside(w) ==
  Take(w) \/ Leave(w) \/ CallListener(w) \/ HandlerReturns(w) \/ JobEnds(w) \/ Administer(w)

LEMMA OutsideMutex ==
  ASSUME TypeOK, HandlerInv, NEW w \in Workers, Outside(w)
  PROVE  MutexForm' /\ UNCHANGED <<mutex, order>>
<1>1. MutexForm BY TypeParts
<1>2. PICK pc \in Places : Moves(w, pc) /\ pc # "change" /\ worker[w].pc # "change"
  BY Moving, TakeMoves, ReturnMoves
     DEF Outside, Take, Leave, CallListener, HandlerReturns, JobEnds, Administer, On, Places
<1>3. UNCHANGED <<mutex, main, order>>
  BY DEF Outside, Take, Leave, CallListener, HandlerReturns, JobEnds, Administer, registry
<1> QED BY <1>1, <1>2, <1>3 DEF MutexForm, Moves

LEMMA MutexStep ==
  ASSUME IInv, [Next]_vars PROVE MutexForm'
<1> USE DEF IInv
<1>1. MutexForm BY TypeParts
<1>2. (\A w \in Workers : w # Main /\ w # Nobody) /\ Main # Nobody
  BY HostAssumption DEF Main, Nobody
<1>3. ASSUME NEW w \in Workers, Outside(w) PROVE MutexForm' BY <1>3, OutsideMutex
<1>4. ASSUME NEW w \in Workers, LockRegistry(w) PROVE MutexForm'
  <2>1. Moves(w, "change") /\ mutex = Nobody /\ mutex' = w /\ main' = main
    BY <1>4, Moving DEF LockRegistry, Places
  <2> QED BY <1>1, <1>2, <2>1 DEF MutexForm, Moves
<1>5. ASSUME NEW w \in Workers, Change(w) PROVE MutexForm'
  <2>1. Moves(w, "idle") /\ worker[w].pc = "change" /\ mutex' = Nobody /\ main' = main
    BY <1>5, Moving DEF Change, EnablePlugin, DisablePlugin, On, Places
  <2> QED BY <1>1, <1>2, <2>1 DEF MutexForm, Moves
<1>6. CASE LockForShutdown
  BY <1>1, <1>2, <1>6 DEF LockForShutdown, pool, MutexForm
<1>7. CASE ShutdownEnds
  BY <1>1, <1>2, <1>7 DEF ShutdownEnds, pool, MutexForm
<1>8. CASE UNCHANGED <<mutex, worker>> /\ (main' = "stop" <=> main = "stop")
  BY <1>1, <1>8 DEF MutexForm
<1> QED
  BY <1>3, <1>4, <1>5, <1>6, <1>7, <1>8
     DEF Next, Work, Outside, Shutdown, Handle, End, LoadNext, StartPool, StopPool, PoolStopped,
         PoolOverdue, StopNext, Close, Receive, Collect, Submit, vars, registry, pool

LEMMA HandlerStep == ASSUME IInv, [Next]_vars PROVE HandlerInv'
<1> USE DEF IInv
<1>1. CASE UNCHANGED worker BY <1>1 DEF HandlerInv
<1>2. ASSUME NEW w \in Workers, Work(w) PROVE HandlerInv'
  <2>1. CASE CallListener(w)
    BY <2>1, Moving DEF CallListener, On, Places, HandlerInv, Moves
  <2>2. CASE ~CallListener(w)
    <3>1. PICK pc \in Places : Moves(w, pc) /\ pc # "handler"
      BY <1>2, <2>2, Moving, TakeMoves, ReturnMoves
         DEF Work, Leave, JobEnds, Administer, LockRegistry, Change, EnablePlugin, DisablePlugin, Places
    <3> QED BY <3>1 DEF Moves, HandlerInv
  <2> QED BY <2>1, <2>2
<1> QED
  BY <1>1, <1>2
     DEF Next, Shutdown, Handle, End, LoadNext, StartPool, StopPool, PoolStopped, PoolOverdue,
         LockForShutdown, ShutdownEnds, StopNext, Close, Receive, Collect, Submit, vars, registry, pool

LEMMA PoolStep == ASSUME IInv, [Next]_vars PROVE PoolForm'
<1> USE DEF IInv
<1>1. PoolForm BY TypeParts
<1>2. CASE UNCHANGED <<worker, queue>> /\ accepting' \in BOOLEAN
  BY <1>1, <1>2 DEF PoolForm, WorkersForm
<1>3. CASE Submit
  <2>1. loop.listeners \in Listeners /\ Len(queue) \in Nat /\ Capacity \in Nat
    BY <1>1, HostAssumption DEF TypeOK, PoolForm
  <2> QED BY <1>1, <1>3, <2>1 DEF Submit, CanAccept, PoolForm, WorkersForm
<1>4. ASSUME NEW w \in Workers, Take(w) PROVE PoolForm'
  BY <1>1, <1>4, TakeMoves DEF PoolForm, Moves, Take
<1>5. ASSUME NEW w \in Workers, Work(w), ~Take(w) PROVE PoolForm'
  <2>1. queue' = queue
    BY <1>5 DEF Work, Leave, CallListener, HandlerReturns, JobEnds, Administer, LockRegistry,
                Change, EnablePlugin, DisablePlugin
  <2> QED BY <1>1, <1>5, <2>1, WorkMoves DEF PoolForm, Moves
<1> QED
  BY <1>1, <1>2, <1>3, <1>4, <1>5
     DEF Next, Shutdown, Handle, End, LoadNext, StartPool, StopPool, PoolStopped, PoolOverdue,
         LockForShutdown, ShutdownEnds, StopNext, Close, Receive, Collect, vars, registry, pool, PoolForm

LEMMA AppStep == ASSUME IInv, [Next]_vars PROVE AppForm'
<1> USE DEF IInv
<1>1. AppForm /\ order \in Listeners BY DEF TypeOK, AppForm
<1>2. CASE UNCHANGED <<commands, loop>>
  BY <1>1, <1>2, WorkMoves
     DEF Next, Shutdown, Handle, End, LoadNext, StartPool, StopPool, PoolStopped, PoolOverdue,
         LockForShutdown, ShutdownEnds, StopNext, Close, Receive, Collect, Submit, vars, Around, AppForm
<1>3. CASE Receive \/ Collect
  BY <1>1, <1>3 DEF Receive, Collect, AppForm
<1>4. CASE Submit
  <2>1. <<>> \in Listeners
    <3>1. <<>> \in [1 .. 0 -> Plugins] /\ 0 \in 0 .. Cardinality(Plugins) BY PluginCount
    <3> QED BY <3>1 DEF Listeners
  <2> QED BY <1>1, <1>4, <2>1 DEF Submit, AppForm, IdleLoop
<1>5. ASSUME NEW w \in Workers, Administer(w) PROVE AppForm'
  BY <1>1, <1>5, HostAssumption DEF Administer, AppForm
<1> QED
  BY <1>2, <1>3, <1>4, <1>5
     DEF Next, Shutdown, Handle, End, LoadNext, StartPool, StopPool, PoolStopped, PoolOverdue,
         LockForShutdown, ShutdownEnds, StopNext, Close, Work, Take, Leave, CallListener,
         HandlerReturns, JobEnds, LockRegistry, Change, EnablePlugin, DisablePlugin, vars

-----------------------------------------------------------------------------
(* The plugins that run, and those the registry knows.                     *)

LEMMA IsEnabled ==
  ASSUME NEW p PROVE Enabled(p) <=> p \in Range(order) /\ (main = "stop" => p \in Range(todo))
  BY DEF Enabled, Range

\* Adding to the order and taking away from it.
LEMMA EnableTurn ==
  ASSUME IInv, NEW w \in Workers, NEW p \in Plugins, EnablePlugin(w, p)
  PROVE  /\ main' = main /\ main \notin {"load", "stop"} /\ todo' = todo
         /\ RegistryForm'
         /\ \/ Range(order') = Range(order) \cup {p} /\ up' = up \cup {p}
            \/ order' = order /\ up' = up \ {p}
         /\ strays' = strays \ {p}
<1> USE DEF IInv
<1>1. RegistryForm /\ MutexForm BY TypeParts
<1>2. worker[w].pc = "change" /\ main # "load" /\ ~Enabled(p) BY DEF EnablePlugin, On
<1>3. main # "stop" BY <1>1, <1>2, HostAssumption DEF MutexForm
<1>4. p \notin Range(order) BY <1>2, <1>3, IsEnabled
<1>5. /\ Append(order, p) \in Listeners /\ IsInjective(Append(order, p))
      /\ Range(Append(order, p)) = Range(order) \cup {p}
  BY <1>1, <1>4, AppendToOrder DEF RegistryForm
<1> QED BY <1>1, <1>2, <1>3, <1>5 DEF EnablePlugin, RegistryForm

LEMMA DisableTurn ==
  ASSUME IInv, NEW w \in Workers, NEW p \in Plugins, DisablePlugin(w, p)
  PROVE  /\ main' = main /\ main \notin {"load", "stop"} /\ todo' = todo
         /\ RegistryForm'
         /\ Range(order') = Range(order) \ {p} /\ up' = up \ {p}
         /\ strays' = strays \ {p}
<1> USE DEF IInv
<1>1. RegistryForm /\ MutexForm BY TypeParts
<1>2. worker[w].pc = "change" /\ main # "load" BY DEF DisablePlugin, On
<1>3. main # "stop" BY <1>1, <1>2, HostAssumption DEF MutexForm
<1>4. PICK i \in DOMAIN order : order[i] = p /\ order' = RemoveAt(order, i) BY DEF DisablePlugin
<1>5. order' \in Listeners /\ IsInjective(order') /\ Range(order') = Range(order) \ {p}
  BY <1>1, <1>4, RemoveFromOrder DEF RegistryForm
<1> QED BY <1>1, <1>2, <1>3, <1>5 DEF DisablePlugin, RegistryForm

LEMMA CallTurn ==
  ASSUME IInv, NEW w \in Workers, CallListener(w)
  PROVE  \E p \in Plugins :
           /\ UNCHANGED <<main, todo, order>>
           /\ \/ up' = up \cup {p} /\ strays' = IF Enabled(p) THEN strays ELSE strays \cup {p}
              \/ UNCHANGED <<up, strays>>
<1>1. worker[w].listeners \in Listeners /\ worker[w].listeners # <<>>
  BY DEF IInv, TypeOK, CallListener
<1>2. Head(worker[w].listeners) \in Plugins BY <1>1, TailOfListeners
<1> QED BY <1>2 DEF CallListener

LEMMA LoadTurn ==
  ASSUME IInv, LoadNext
  PROVE  /\ main = "load" /\ main' = main /\ strays' = strays
         /\ RegistryForm' /\ LoadInv'
         /\ \/ order' = order /\ up' = up
            \/ Range(order') = Range(order) \cup {Head(todo)} /\ up' = up \cup {Head(todo)}
<1> USE DEF IInv
<1>1. RegistryForm /\ main = "load" /\ todo # <<>> BY TypeParts DEF LoadNext
<1>2. IsInjective(todo) /\ Range(todo) \cap Range(order) = {} BY <1>1 DEF LoadInv
<1>3. /\ Tail(todo) \in Listeners /\ Head(todo) \in Plugins
      /\ Range(Tail(todo)) \cup {Head(todo)} = Range(todo)
      /\ IsInjective(Tail(todo)) /\ Head(todo) \notin Range(Tail(todo))
  BY <1>1, <1>2, TailOfListeners DEF RegistryForm
<1>4. Head(todo) \notin Range(order) BY <1>2, <1>3
<1>5. /\ Append(order, Head(todo)) \in Listeners /\ IsInjective(Append(order, Head(todo)))
      /\ Range(Append(order, Head(todo))) = Range(order) \cup {Head(todo)}
  BY <1>1, <1>3, <1>4, AppendToOrder DEF RegistryForm
<1>6. main' = main /\ strays' = strays /\ todo' = Tail(todo) BY DEF LoadNext
<1>7. CASE UNCHANGED <<order, up>>
  BY <1>1, <1>2, <1>3, <1>6, <1>7 DEF RegistryForm, LoadInv
<1>8. CASE order' = Append(order, Head(todo)) /\ up' = up \cup {Head(todo)}
  BY <1>1, <1>2, <1>3, <1>5, <1>6, <1>8 DEF RegistryForm, LoadInv
<1> QED BY <1>1, <1>6, <1>7, <1>8 DEF LoadNext

\* A step of App.Run or of the update loop that leaves the plugins alone.
StepsAside ==
  /\ UNCHANGED <<todo, order, up, strays>>
  /\ main' # "load" \/ main' = main
  /\ main' # "stop" \/ main' = main

LEMMA RegistrySteps ==
  ASSUME IInv, [Next]_vars
  PROVE  \/ StepsAside \/ LoadNext \/ LockForShutdown \/ StopNext \/ ShutdownEnds
         \/ \E w \in Workers : CallListener(w)
         \/ \E w \in Workers, p \in Plugins : EnablePlugin(w, p) \/ DisablePlugin(w, p)
<1> QED
  BY DEF Next, Shutdown, Handle, End, StartPool, StopPool, PoolStopped, PoolOverdue, Close,
         Receive, Collect, Submit, Work, Take, Leave, HandlerReturns, JobEnds, Administer,
         LockRegistry, Change, vars, registry, pool, StepsAside

LEMMA StopTurn ==
  ASSUME IInv, StopNext
  PROVE  /\ UNCHANGED <<main, order>> /\ main = "stop" /\ RegistryForm'
         /\ Range(todo') \cup {Head(todo)} = Range(todo)
         /\ up' = up \ {Head(todo)}
         /\ strays' = strays \ {Head(todo)}
<1>1. RegistryForm BY TypeParts DEF IInv
<1>2. Tail(todo) \in Listeners /\ Range(Tail(todo)) \cup {Head(todo)} = Range(todo)
  BY <1>1, TailOfListeners DEF RegistryForm, StopNext
<1> QED BY <1>1, <1>2 DEF StopNext, RegistryForm

LEMMA LockTurn ==
  ASSUME IInv, LockForShutdown
  PROVE  /\ UNCHANGED <<order, up, strays>> /\ main = "lock" /\ main' = "stop" /\ RegistryForm'
         /\ Range(todo') = Range(order)
<1>1. RegistryForm BY TypeParts DEF IInv
<1>2. Reverse(order) \in Listeners /\ Range(Reverse(order)) = Range(order)
  BY <1>1, ReverseOfListeners DEF RegistryForm
<1> QED BY <1>1, <1>2 DEF LockForShutdown, RegistryForm

\* Every plugin has been stopped when Shutdown lets go of the mutex.
LEMMA EndTurn ==
  ASSUME IInv, ShutdownEnds
  PROVE  /\ UNCHANGED <<todo, up, strays>> /\ main' = "close" /\ RegistryForm'
         /\ order' = <<>> /\ up \subseteq strays
<1>1. RegistryForm BY TypeParts DEF IInv
<1>2. main = "stop" /\ todo = <<>> /\ order' = <<>> BY DEF ShutdownEnds
<1>3. <<>> \in Listeners /\ IsInjective(<<>>) BY <1>1, <1>2 DEF RegistryForm, IsInjective
<1>4. ASSUME NEW p \in up, p \notin strays PROVE FALSE
  BY <1>2, <1>4 DEF IInv, UpInv, Enabled
<1> QED BY <1>1, <1>2, <1>3, <1>4 DEF ShutdownEnds, RegistryForm

LEMMA RegistryStep == ASSUME IInv, [Next]_vars PROVE RegistryForm' /\ LoadInv'
<1>1. RegistryForm /\ LoadInv BY TypeParts DEF IInv
<1>2. CASE StepsAside BY <1>1, <1>2 DEF StepsAside, RegistryForm, LoadInv
<1>3. CASE LoadNext BY <1>3, LoadTurn
<1>4. CASE LockForShutdown BY <1>4, LockTurn DEF LoadInv
<1>5. CASE StopNext BY <1>5, StopTurn DEF LoadInv
<1>6. CASE ShutdownEnds BY <1>6, EndTurn DEF LoadInv
<1>7. ASSUME NEW w \in Workers, CallListener(w) PROVE RegistryForm' /\ LoadInv'
  <2>1. PICK p \in Plugins :
          /\ UNCHANGED <<main, todo, order>>
          /\ \/ up' = up \cup {p} /\ strays' = IF Enabled(p) THEN strays ELSE strays \cup {p}
             \/ UNCHANGED <<up, strays>>
    BY <1>7, CallTurn
  <2> QED BY <1>1, <2>1 DEF RegistryForm, LoadInv
<1>8. ASSUME NEW w \in Workers, NEW p \in Plugins, EnablePlugin(w, p) \/ DisablePlugin(w, p)
      PROVE  RegistryForm' /\ LoadInv'
  BY <1>8, EnableTurn, DisableTurn DEF LoadInv
<1> QED BY <1>2, <1>3, <1>4, <1>5, <1>6, <1>7, <1>8, RegistrySteps

LEMMA UpStep == ASSUME IInv, [Next]_vars PROVE UpInv'
<1>1. \A p \in up : p \in strays \/ (p \in Range(order) /\ (main = "stop" => p \in Range(todo)))
  BY IsEnabled DEF IInv, UpInv
<1> SUFFICES ASSUME NEW q \in up', q \notin strays'
             PROVE  q \in Range(order)' /\ (main' = "stop" => q \in Range(todo)')
  BY DEF UpInv, Enabled, Range
<1>2. CASE StepsAside BY <1>1, <1>2 DEF StepsAside
<1>3. CASE LoadNext BY <1>1, <1>3, LoadTurn
<1>4. CASE LockForShutdown BY <1>1, <1>4, LockTurn
<1>5. CASE StopNext
  <2>1. q \in up /\ q # Head(todo) /\ q \notin strays BY <1>5, StopTurn
  <2> QED BY <1>1, <1>5, <2>1, StopTurn
<1>6. CASE ShutdownEnds BY <1>6, EndTurn
<1>7. ASSUME NEW w \in Workers, CallListener(w)
      PROVE  q \in Range(order)' /\ (main' = "stop" => q \in Range(todo)')
  <2>1. PICK p \in Plugins :
          /\ UNCHANGED <<main, todo, order>>
          /\ \/ up' = up \cup {p} /\ strays' = IF Enabled(p) THEN strays ELSE strays \cup {p}
             \/ UNCHANGED <<up, strays>>
    BY <1>7, CallTurn
  <2>2. q \notin strays BY <2>1
  <2>3. CASE q \in up BY <1>1, <2>1, <2>2, <2>3
  <2>4. CASE q \notin up
    <3>1. q = p /\ Enabled(p) BY <2>1, <2>4
    <3> QED BY <2>1, <3>1, IsEnabled
  <2> QED BY <2>3, <2>4
<1>8. ASSUME NEW w \in Workers, NEW p \in Plugins, EnablePlugin(w, p)
      PROVE  q \in Range(order)' /\ (main' = "stop" => q \in Range(todo)')
  <2>1. q = p \/ (q \in up /\ q \notin strays) BY <1>8, EnableTurn
  <2> QED BY <1>1, <1>8, <2>1, EnableTurn
<1>9. ASSUME NEW w \in Workers, NEW p \in Plugins, DisablePlugin(w, p)
      PROVE  q \in Range(order)' /\ (main' = "stop" => q \in Range(todo)')
  BY <1>1, <1>9, DisableTurn
<1> QED BY <1>2, <1>3, <1>4, <1>5, <1>6, <1>7, <1>8, <1>9, RegistrySteps

\* A pool that was stopped in time does nothing more.
LEMMA OrderlyStep == ASSUME IInv, [Next]_vars PROVE OrderlyInv'
<1> USE DEF IInv
<1>1. ASSUME NEW w \in Workers, Work(w) PROVE OrderlyInv'
  <2>1. Around(w) /\ worker[w].pc # "exited" /\ main # "exited" BY <1>1, WorkMoves DEF Alive
  <2>2. ~(~overdue /\ Ended) BY <2>1 DEF OrderlyInv, PoolIsDone
  <2> QED BY <2>1, <2>2 DEF OrderlyInv, Around, Ended, Gone
<1>2. CASE PoolStopped
  BY <1>2 DEF PoolStopped, OrderlyInv, Ended, Gone, PoolIsDone, pool
<1>3. CASE ShutdownEnds
  BY <1>3 DEF ShutdownEnds, OrderlyInv, Ended, Gone, PoolIsDone, pool
<1>4. CASE LockForShutdown \/ StopNext \/ Close
  BY <1>4 DEF LockForShutdown, StopNext, Close, OrderlyInv, Ended, Gone, PoolIsDone, pool, registry
<1>5. CASE End \/ LoadNext \/ StartPool \/ StopPool \/ PoolOverdue \/ Handle
  BY <1>5 DEF End, LoadNext, StartPool, StopPool, PoolOverdue, Handle, Receive, Collect, Submit,
     OrderlyInv, Ended, Gone, PoolIsDone, pool, registry
<1>6. CASE UNCHANGED vars
  BY <1>6 DEF vars, pool, registry, OrderlyInv, Ended, Gone, PoolIsDone
<1> QED BY <1>1, <1>2, <1>3, <1>4, <1>5, <1>6 DEF Next, Shutdown

-----------------------------------------------------------------------------
(* The theorems.                                                           *)

LEMMA InitInv == Init => IInv
<1> SUFFICES ASSUME Init PROVE IInv
  OBVIOUS
<1>1. UpInv /\ OrderlyInv BY DEF Init, UpInv, OrderlyInv, Ended, Gone
<1> QED BY <1>1, InitType DEF IInv

LEMMA StepInv == IInv /\ [Next]_vars => IInv'
<1> SUFFICES ASSUME IInv, [Next]_vars PROVE IInv'
  OBVIOUS
<1>1. TypeOK'
  <2>1. AppForm' /\ RegistryForm' /\ PoolForm' /\ MutexForm'
    BY AppStep, RegistryStep, PoolStep, MutexStep
  <2> QED
    BY <2>1 DEF TypeOK, AppForm, RegistryForm, PoolForm, WorkersForm, Places, MutexForm
<1> QED BY <1>1, HandlerStep, RegistryStep, UpStep, OrderlyStep DEF IInv

\* The inductive invariant, for any number of workers and plugins.
THEOREM Invariance == Spec => []IInv
BY InitInv, StepInv, PTL DEF Spec

\* When the database is closed and the pool was stopped in time, no job is
\* running and no plugin is up, but for those a job called after they had been
\* disabled (app.go:196-245, registry.go:128-144, pool.go:92-110).
THEOREM NothingLeftBehind == Spec => []QuietAtClose
<1>1. IInv => QuietAtClose
  <2> SUFFICES ASSUME IInv, closed, ~overdue
               PROVE  (\A w \in Workers : worker[w].pc = "exited") /\ up \subseteq strays
    BY DEF QuietAtClose
  <2>1. main = "exited" /\ PoolIsDone /\ order = <<>>
    BY DEF IInv, OrderlyInv, Ended, Gone
  <2> QED BY <2>1 DEF PoolIsDone, IInv, UpInv, Enabled
<1> QED BY <1>1, Invariance, PTL

\* Whatever workers that would not stop do meanwhile, and however many enable
\* and disable plugins, Shutdown leaves no plugin up but those a late call has
\* started (registry.go:128-144).
THEOREM AllPluginsStopped == Spec => ShutdownStopsAll
<1>1. IInv /\ [Next]_vars => [main = "stop" => main' = "stop" \/ up' \subseteq strays']_vars
  <2> SUFFICES ASSUME IInv, [Next]_vars, main = "stop"
               PROVE  main' = "stop" \/ up' \subseteq strays'
    OBVIOUS
  <2>1. CASE ShutdownEnds BY <2>1, EndTurn
  <2>2. CASE ~ShutdownEnds
    <3>1. main' = main
      BY <2>2, WorkMoves
         DEF IInv, Next, Shutdown, Handle, End, LoadNext, StartPool, StopPool, PoolStopped, PoolOverdue,
             LockForShutdown, StopNext, Close, Receive, Collect, Submit, vars, Around
    <3> QED BY <3>1
  <2> QED BY <2>1, <2>2
<1> QED BY <1>1, Invariance, PTL DEF Spec, ShutdownStopsAll

-----------------------------------------------------------------------------
(* Ai: the end of a history, and what an assignment leaves.                *)

EndsWith(r, s) == Len(r) <= Len(s) /\ \A i \in 1 .. Len(r) : r[i] = s[Len(s) - Len(r) + i]

LEMMA SuffixEnds ==
  ASSUME NEW S, NEW r \in Seq(S), NEW s \in Seq(S)
  PROVE  IsSuffix(r, s) <=> EndsWith(r, s)
<1> DEFINE x == Reverse(r)
           y == Reverse(s)
<1>1. /\ x \in Seq(S) /\ Len(x) = Len(r) /\ \A i \in 1 .. Len(r) : x[i] = r[Len(r) - i + 1]
      /\ y \in Seq(S) /\ Len(y) = Len(s) /\ \A i \in 1 .. Len(s) : y[i] = s[Len(s) - i + 1]
  BY DEF Reverse
<1> HIDE DEF x, y
<1>2. IsPrefix(x, y) <=> Len(x) <= Len(y) /\ \A i \in 1 .. Len(x) : x[i] = y[i]
  <2>1. ASSUME Len(x) <= Len(y)
        PROVE  SubSeq(x, 1, Len(x)) = SubSeq(y, 1, Len(x)) <=> \A i \in 1 .. Len(x) : x[i] = y[i]
    <3>1. /\ SubSeq(x, 1, Len(x)) \in Seq(S) /\ Len(SubSeq(x, 1, Len(x))) = Len(x)
          /\ SubSeq(y, 1, Len(x)) \in Seq(S) /\ Len(SubSeq(y, 1, Len(x))) = Len(x)
      BY <1>1, <2>1
    <3>2. \A i \in 1 .. Len(x) : SubSeq(x, 1, Len(x))[i] = x[i] /\ SubSeq(y, 1, Len(x))[i] = y[i]
      BY <1>1, <2>1
    <3>3. (\A i \in 1 .. Len(x) : x[i] = y[i]) => SubSeq(x, 1, Len(x)) = SubSeq(y, 1, Len(x))
      BY <3>1, <3>2, SeqEqual
    <3> QED BY <3>2, <3>3
  <2> QED BY <2>1 DEF IsPrefix
<1>3. Len(r) <= Len(s) =>
        ((\A i \in 1 .. Len(x) : x[i] = y[i]) <=> \A i \in 1 .. Len(r) : r[i] = s[Len(s) - Len(r) + i])
  <2> SUFFICES ASSUME Len(r) <= Len(s)
               PROVE  (\A i \in 1 .. Len(x) : x[i] = y[i]) <=> \A i \in 1 .. Len(r) : r[i] = s[Len(s) - Len(r) + i]
    OBVIOUS
  <2>1. ASSUME \A i \in 1 .. Len(x) : x[i] = y[i], NEW i \in 1 .. Len(r)
        PROVE  r[i] = s[Len(s) - Len(r) + i]
    <3>1. Len(r) - i + 1 \in 1 .. Len(r) /\ Len(r) - i + 1 \in 1 .. Len(s)
      OBVIOUS
    <3>2. x[Len(r) - i + 1] = y[Len(r) - i + 1]
      BY <1>1, <2>1, <3>1
    <3>3. x[Len(r) - i + 1] = r[Len(r) - (Len(r) - i + 1) + 1] /\ y[Len(r) - i + 1] = s[Len(s) - (Len(r) - i + 1) + 1]
      BY <1>1, <3>1
    <3>4. Len(r) - (Len(r) - i + 1) + 1 = i /\ Len(s) - (Len(r) - i + 1) + 1 = Len(s) - Len(r) + i
      OBVIOUS
    <3> QED BY <3>2, <3>3, <3>4
  <2>2. ASSUME \A i \in 1 .. Len(r) : r[i] = s[Len(s) - Len(r) + i], NEW i \in 1 .. Len(x)
        PROVE  x[i] = y[i]
    <3>1. i \in 1 .. Len(r) /\ i \in 1 .. Len(s) /\ Len(r) - i + 1 \in 1 .. Len(r)
      BY <1>1
    <3>2. r[Len(r) - i + 1] = s[Len(s) - Len(r) + (Len(r) - i + 1)]
      BY <2>2, <3>1
    <3>3. Len(s) - Len(r) + (Len(r) - i + 1) = Len(s) - i + 1
      OBVIOUS
    <3> QED BY <1>1, <3>1, <3>2, <3>3
  <2> QED BY <2>1, <2>2
<1>4. IsSuffix(r, s) <=> IsPrefix(x, y)
  BY DEF IsSuffix, x, y
<1> QED BY <1>1, <1>2, <1>3, <1>4 DEF EndsWith

LEMMA LastKeptIs ==
  ASSUME NEW S, NEW s \in Seq(S)
  PROVE  /\ LastKept(s) \in Seq(S) /\ Len(LastKept(s)) = IF Len(s) <= MaxHistory THEN Len(s) ELSE MaxHistory
         /\ EndsWith(LastKept(s), s)
<1>1. MaxHistory \in Nat
  BY AiAssumption
<1>2. CASE Len(s) <= MaxHistory
  BY <1>1, <1>2 DEF LastKept, EndsWith
<1>3. CASE Len(s) > MaxHistory
  <2> DEFINE m == Len(s) - MaxHistory + 1
  <2>1. LastKept(s) = SubSeq(s, m, Len(s)) /\ m \in 1 .. Len(s) + 1 /\ Len(s) \in Nat
    BY <1>1, <1>3 DEF LastKept
  <2>2. /\ SubSeq(s, m, Len(s)) \in Seq(S) /\ Len(SubSeq(s, m, Len(s))) = Len(s) - m + 1
        /\ \A i \in 1 .. Len(s) - m + 1 : SubSeq(s, m, Len(s))[i] = s[m + i - 1]
    BY <2>1
  <2>3. Len(s) - m + 1 = MaxHistory /\ \A i \in 1 .. MaxHistory : m + i - 1 = Len(s) - MaxHistory + i
    BY <1>1, <2>1
  <2> HIDE DEF m
  <2> QED BY <1>1, <1>3, <2>1, <2>2, <2>3 DEF EndsWith
<1> QED BY <1>1, <1>2, <1>3

\* The end of what is kept of a history is what ends it.
LEMMA EndIsKept ==
  ASSUME NEW S, NEW r \in Seq(S), NEW s \in Seq(S), IsSuffix(r, s), Len(r) <= MaxHistory
  PROVE  IsSuffix(r, LastKept(s))
<1>1. EndsWith(r, s)
  BY SuffixEnds
<1>2. /\ LastKept(s) \in Seq(S) /\ Len(LastKept(s)) = IF Len(s) <= MaxHistory THEN Len(s) ELSE MaxHistory
      /\ EndsWith(LastKept(s), s)
  BY LastKeptIs
<1> DEFINE k == LastKept(s)
<1> HIDE DEF k
<1>3. k \in Seq(S) /\ EndsWith(k, s) /\ Len(r) <= Len(k)
  BY <1>1, <1>2, AiAssumption DEF EndsWith, k
<1>4. ASSUME NEW i \in 1 .. Len(r)
      PROVE  r[i] = k[Len(k) - Len(r) + i]
  <2>1. Len(k) - Len(r) + i \in 1 .. Len(k) /\ Len(s) - Len(k) + (Len(k) - Len(r) + i) = Len(s) - Len(r) + i
    BY <1>3
  <2>2. k[Len(k) - Len(r) + i] = s[Len(s) - Len(k) + (Len(k) - Len(r) + i)]
    BY <1>3, <2>1 DEF EndsWith
  <2> QED BY <1>1, <2>1, <2>2 DEF EndsWith
<1>5. EndsWith(r, k)
  BY <1>3, <1>4 DEF EndsWith
<1> QED BY <1>3, <1>5, SuffixEnds DEF k

\* What is added to both keeps the one at the end of the other.
LEMMA EndIsAdded ==
  ASSUME NEW S, NEW r \in Seq(S), NEW s \in Seq(S), NEW p \in Seq(S), IsSuffix(r, s)
  PROVE  IsSuffix(LastKept(r \o p), LastKept(s \o p))
<1> DEFINE x == r \o p
           y == s \o p
           k == LastKept(x)
<1>1. /\ x \in Seq(S) /\ Len(x) = Len(r) + Len(p)
      /\ \A i \in 1 .. Len(x) : x[i] = IF i <= Len(r) THEN r[i] ELSE p[i - Len(r)]
      /\ y \in Seq(S) /\ Len(y) = Len(s) + Len(p)
      /\ \A i \in 1 .. Len(y) : y[i] = IF i <= Len(s) THEN s[i] ELSE p[i - Len(s)]
  OBVIOUS
<1> HIDE DEF x, y
<1>2. EndsWith(r, s)
  BY SuffixEnds
<1>3. EndsWith(x, y)
  <2>1. Len(x) <= Len(y)
    BY <1>1, <1>2 DEF EndsWith
  <2>2. ASSUME NEW i \in 1 .. Len(x)
        PROVE  x[i] = y[Len(y) - Len(x) + i]
    <3> DEFINE n == Len(y) - Len(x) + i
    <3>1. n \in 1 .. Len(y) /\ n = Len(s) - Len(r) + i
      BY <1>1, <2>1
    <3>2. Len(r) \in Nat /\ Len(s) \in Nat /\ i \in Nat
      OBVIOUS
    <3> HIDE DEF n
    <3>3. x[i] = IF i <= Len(r) THEN r[i] ELSE p[i - Len(r)]
      BY <1>1
    <3>4. y[n] = IF n <= Len(s) THEN s[n] ELSE p[n - Len(s)]
      BY <1>1, <3>1
    <3>5. CASE i <= Len(r)
      <4>1. r[i] = s[Len(s) - Len(r) + i]
        BY <1>2, <3>2, <3>5 DEF EndsWith
      <4>2. n <= Len(s)
        BY <3>1, <3>2, <3>5
      <4> QED BY <3>1, <3>3, <3>4, <3>5, <4>1, <4>2 DEF n
    <3>6. CASE i > Len(r)
      <4>1. ~(n <= Len(s)) /\ ~(i <= Len(r)) /\ n - Len(s) = i - Len(r)
        BY <3>1, <3>2, <3>6
      <4> QED BY <3>3, <3>4, <4>1 DEF n
    <3> QED BY <3>2, <3>5, <3>6
  <2> QED BY <2>1, <2>2 DEF EndsWith
<1>4. /\ k \in Seq(S) /\ Len(k) <= MaxHistory /\ EndsWith(k, x)
  BY <1>1, LastKeptIs, AiAssumption
<1> HIDE DEF k
<1>5. EndsWith(k, y)
  <2>1. Len(k) <= Len(x) /\ Len(x) <= Len(y)
    BY <1>3, <1>4 DEF EndsWith
  <2>2. ASSUME NEW i \in 1 .. Len(k)
        PROVE  k[i] = y[Len(y) - Len(k) + i]
    <3>1. Len(x) - Len(k) + i \in 1 .. Len(x) /\ Len(y) - Len(x) + (Len(x) - Len(k) + i) = Len(y) - Len(k) + i
      BY <1>1, <1>4, <2>1
    <3>2. k[i] = x[Len(x) - Len(k) + i]
      BY <1>4 DEF EndsWith
    <3>3. x[Len(x) - Len(k) + i] = y[Len(y) - Len(x) + (Len(x) - Len(k) + i)]
      BY <1>3, <3>1 DEF EndsWith
    <3> QED BY <3>1, <3>2, <3>3
  <2>3. Len(k) <= Len(y)
    BY <1>1, <1>4, <2>1
  <2> QED BY <2>2, <2>3 DEF EndsWith
<1>6. IsSuffix(k, y)
  BY <1>1, <1>4, <1>5, SuffixEnds
<1>7. IsSuffix(k, LastKept(y))
  BY <1>1, <1>4, <1>6, EndIsKept
<1> QED BY <1>7 DEF k, x, y

LEMMA NothingEnds ==
  ASSUME NEW S, NEW s \in Seq(S)
  PROVE  IsSuffix(<<>>, s)
<1>1. <<>> \in Seq(S) /\ EndsWith(<<>>, s)
  BY DEF EndsWith
<1> QED BY <1>1, SuffixEnds

-----------------------------------------------------------------------------
(* Ai: one job changes, and the others stay sound.                         *)

AiAll == 0 .. aiWorld.workers
OneJob(w, j) == asking' = [asking EXCEPT ![w] = j]
\* What a step of w may do to what other jobs rely upon.
Spares(w) ==
  /\ aiWorld' = aiWorld /\ adopted \subseteq adopted'
  /\ \A i \in DOMAIN pages : i \in DOMAIN pages' /\ pages'[i] = pages[i]
  /\ configMu' = configMu \/ configMu \in {0, w}
  /\ \/ configMu = w
     \/ drafts' \subseteq drafts /\ \A chat \in AiChats : recent'[chat] \in {recent[chat], <<>>}

LEMMA WorldFacts ==
  ASSUME AiStore
  PROVE  /\ aiWorld.workers \in Nat /\ Histories(aiWorld.legacy)
         /\ \A key \in DOMAIN aiWorld.legacy : \E i \in 1 .. 6 : key[1] \in LegacyGroups[i]
         /\ \A c \in aiWorld.commands :
              /\ c.kind \in CommandKinds /\ c.q \in AiQuestions /\ c.chat \in AiChats
              /\ c.kind = "toggle" => c.key \in Toggles
              /\ c.kind = "prompt" => c.value \in {"add", "del", "set"}
BY AiAssumption DEF AiStore

LEMMA OthersStay ==
  ASSUME AiInv, NEW w \in AiAll, Spares(w), NEW v \in AiAll, v # w, asking'[v] = asking[v]
  PROVE  AiJobIsSound(v)'
<1> DEFINE j == asking[v]
<1> SUFFICES ASSUME asking'[v] # NoAiJob
             PROVE  IsAiJob(asking'[v]) /\ IF v = 0 THEN Importing(asking[v])'
                                           ELSE Working(asking[v])' /\ Holding(v, asking'[v], configMu')
  BY DEF AiJobIsSound
<1>1. /\ j # NoAiJob /\ IsAiJob(j)
      /\ v = 0 => Importing(j)
      /\ v # 0 => Working(j) /\ Holding(v, j, configMu)
  BY DEF AiInv, AiJobIsSound, AiAll
<1>2. aiWorld' = aiWorld /\ adopted \subseteq adopted' /\ asking'[v] = j
  BY DEF Spares
<1>3. CASE v = 0
  BY <1>1, <1>2, <1>3 DEF Importing
<1>4. CASE v # 0
  <2> HIDE DEF j
  <2>1. Working(j) /\ j.cmd \in aiWorld.commands
    BY <1>1, <1>4 DEF Working
  <2>2. OnPage(j) => OnPage(j)'
    BY <1>2 DEF OnPage, Spares, j
  <2>3. Showing(j) => Showing(j)'
    <3>1. AnswerParts(j.cmd.q)' = AnswerParts(j.cmd.q)
      BY <1>2 DEF AnswerParts, j
    <3> QED BY <1>2, <2>2, <3>1 DEF Showing, j
  <2>4. ASSUME j.at \in {"refusePrompt", "savePrompt", "replacePrompts", "save", "replace"}
        PROVE  /\ configMu' = v /\ drafts' \subseteq drafts
               /\ \A chat \in AiChats : recent'[chat] \in {recent[chat], <<>>}
    <3>1. configMu = v
      BY <1>1, <1>4, <2>4 DEF Holding
    <3> QED BY <1>4, <3>1 DEF Spares
  <2>5. ASSUME j.at = "save"
        PROVE  IsSuffix(recent'[j.cmd.chat], j.seen)
    <3>1. /\ j.seen \in Seq(AiMessages) /\ IsSuffix(recent[j.cmd.chat], j.seen)
          /\ j.cmd.chat \in AiChats
      BY <2>1, <2>5, WorldFacts DEF Working, AiInv
    <3>2. recent'[j.cmd.chat] \in {recent[j.cmd.chat], <<>>}
      BY <2>4, <2>5, <3>1
    <3> QED BY <3>1, <3>2, NothingEnds
  <2>6. j' = j
    BY <1>2 DEF j
  <2>7. j.at = "savePrompt" => drafts' \subseteq j.seen
    BY <2>1, <2>4 DEF Working
  <2>8. Working(j)'
    BY <1>2, <2>1, <2>2, <2>3, <2>5, <2>6, <2>7 DEF Working
  <2>9. Holding(v, j, configMu')
    BY <2>4 DEF Holding
  <2> QED BY <1>1, <1>2, <1>4, <2>6, <2>8, <2>9 DEF j
<1> QED BY <1>3, <1>4

LEMMA JobsStay ==
  ASSUME AiInv, NEW w \in AiAll, Spares(w), NEW j, OneJob(w, j),
         j = NoAiJob \/ AiJobIsSound(w)'
  PROVE  /\ asking' = [v \in 0 .. aiWorld'.workers |-> asking'[v]]
         /\ \A v \in 0 .. aiWorld'.workers : AiJobIsSound(v)'
<1>1. /\ aiWorld' = aiWorld /\ asking = [v \in AiAll |-> asking[v]]
      /\ asking' = [v \in AiAll |-> asking'[v]]
      /\ asking'[w] = j /\ \A v \in AiAll : v # w => asking'[v] = asking[v]
  BY DEF AiInv, AiAll, OneJob, Spares
<1>2. AiJobIsSound(w)'
  BY <1>1 DEF AiJobIsSound
<1>3. \A v \in AiAll : AiJobIsSound(v)'
  BY <1>1, <1>2, OthersStay
<1> QED BY <1>1, <1>3 DEF AiAll

\* A step that moves its own job, and may take or give back the mutex.
AsideFrame == UNCHANGED <<aiWorld, settings, pages, answered, recent, mine, adopted, drafts>>
LEMMA JobMoves ==
  ASSUME AiInv, AsideFrame, AskedWhatItCan', NEW w \in AiAll, w # 0, configMu' = configMu \/ configMu \in {0, w},
         NEW j, OneJob(w, j), j = NoAiJob \/ (IsAiJob(j) /\ Working(j) /\ Holding(w, j, configMu'))
  PROVE  AiInv'
<1>1. /\ aiWorld' = aiWorld /\ settings' = settings /\ pages' = pages
      /\ answered' = answered /\ recent' = recent /\ mine' = mine /\ adopted' = adopted /\ drafts' = drafts
  BY DEF AsideFrame
<1>2. Spares(w)
  BY <1>1 DEF Spares
<1>3. asking'[w] = j
  BY DEF OneJob, AiInv, AiAll
<1>4. j # NoAiJob => AiJobIsSound(w)'
  <2> SUFFICES ASSUME IsAiJob(j), Working(j), Holding(w, j, configMu')
               PROVE  IsAiJob(asking'[w]) /\ Working(asking[w])' /\ Holding(w, asking'[w], configMu')
    BY DEF AiJobIsSound
  <2>1. Working(asking[w])'
    BY <1>1, <1>3 DEF Working, Showing, OnPage, AnswerParts
  <2> QED BY <1>3, <2>1
<1>5. AiStore'
  BY <1>1 DEF AiInv, AiStore, Remembers, ReadKey, Known
<1>6. AiIsSound'
  BY <1>1 DEF AiInv, AiIsSound, HistoryIsKept, AnswersAreWhole, AnswerParts, SettingsAreMine,
       ImportIsComplete, PromptsAreKept, Prompts, ReadKey, Known
<1> QED BY <1>2, <1>4, <1>5, <1>6, JobsStay DEF AiInv

-----------------------------------------------------------------------------
(* Ai: the steps that move a job alone.                                    *)

Job(c, at, f, writes, auto, left, protocol, seen, page, parts, shown) ==
  [cmd |-> c, at |-> at, f |-> f, writes |-> writes, auto |-> auto, left |-> left,
   protocol |-> protocol, seen |-> seen, page |-> page, parts |-> parts, shown |-> shown]

LEMMA JobParts ==
  ASSUME NEW c, NEW a, NEW f, NEW writes, NEW auto, NEW left, NEW protocol, NEW seen, NEW page, NEW parts, NEW shown
  PROVE  LET j == Job(c, a, f, writes, auto, left, protocol, seen, page, parts, shown) IN
         /\ IsAiJob(j) /\ j.cmd = c /\ j.at = a /\ j.f = f /\ j.writes = writes /\ j.auto = auto /\ j.left = left
         /\ j.protocol = protocol /\ j.seen = seen /\ j.page = page /\ j.parts = parts /\ j.shown = shown
BY DEF IsAiJob, Job

\* A job is known by its parts; a step that moves one of them leaves the rest.
Parted(j, c, at, f, writes, auto, left, protocol, seen, page, parts, shown) ==
  /\ IsAiJob(j) /\ j.cmd = c /\ j.at = at /\ j.f = f /\ j.writes = writes /\ j.auto = auto /\ j.left = left
  /\ j.protocol = protocol /\ j.seen = seen /\ j.page = page /\ j.parts = parts /\ j.shown = shown

LEMMA JobIsParted ==
  ASSUME NEW k, NEW c, NEW a, NEW f, NEW writes, NEW auto, NEW left, NEW protocol, NEW seen, NEW page, NEW parts, NEW shown,
         k = Job(c, a, f, writes, auto, left, protocol, seen, page, parts, shown)
  PROVE  Parted(k, c, a, f, writes, auto, left, protocol, seen, page, parts, shown)
BY JobParts DEF Parted

LEMMA AtMoved ==
  ASSUME NEW j, IsAiJob(j), NEW x, NEW k, k = [j EXCEPT !.at = x]
  PROVE  Parted(k, j.cmd, x, j.f, j.writes, j.auto, j.left, j.protocol, j.seen, j.page, j.parts, j.shown)
<1>1. j = Job(j.cmd, j.at, j.f, j.writes, j.auto, j.left, j.protocol, j.seen, j.page, j.parts, j.shown)
  BY DEF IsAiJob, Job
<1>2. k = Job(j.cmd, x, j.f, j.writes, j.auto, j.left, j.protocol, j.seen, j.page, j.parts, j.shown)
  BY <1>1 DEF Job
<1> QED BY <1>2, JobIsParted

LEMMA FMoved ==
  ASSUME NEW j, IsAiJob(j), NEW x, NEW k, k = [j EXCEPT !.f = x]
  PROVE  Parted(k, j.cmd, j.at, x, j.writes, j.auto, j.left, j.protocol, j.seen, j.page, j.parts, j.shown)
<1>1. j = Job(j.cmd, j.at, j.f, j.writes, j.auto, j.left, j.protocol, j.seen, j.page, j.parts, j.shown)
  BY DEF IsAiJob, Job
<1>2. k = Job(j.cmd, j.at, x, j.writes, j.auto, j.left, j.protocol, j.seen, j.page, j.parts, j.shown)
  BY <1>1 DEF Job
<1> QED BY <1>2, JobIsParted

LEMMA WritesMoved ==
  ASSUME NEW j, IsAiJob(j), NEW x, NEW k, k = [j EXCEPT !.writes = x]
  PROVE  Parted(k, j.cmd, j.at, j.f, x, j.auto, j.left, j.protocol, j.seen, j.page, j.parts, j.shown)
<1>1. j = Job(j.cmd, j.at, j.f, j.writes, j.auto, j.left, j.protocol, j.seen, j.page, j.parts, j.shown)
  BY DEF IsAiJob, Job
<1>2. k = Job(j.cmd, j.at, j.f, x, j.auto, j.left, j.protocol, j.seen, j.page, j.parts, j.shown)
  BY <1>1 DEF Job
<1> QED BY <1>2, JobIsParted

LEMMA AutoMoved ==
  ASSUME NEW j, IsAiJob(j), NEW x, NEW k, k = [j EXCEPT !.auto = x]
  PROVE  Parted(k, j.cmd, j.at, j.f, j.writes, x, j.left, j.protocol, j.seen, j.page, j.parts, j.shown)
<1>1. j = Job(j.cmd, j.at, j.f, j.writes, j.auto, j.left, j.protocol, j.seen, j.page, j.parts, j.shown)
  BY DEF IsAiJob, Job
<1>2. k = Job(j.cmd, j.at, j.f, j.writes, x, j.left, j.protocol, j.seen, j.page, j.parts, j.shown)
  BY <1>1 DEF Job
<1> QED BY <1>2, JobIsParted

LEMMA LeftMoved ==
  ASSUME NEW j, IsAiJob(j), NEW x, NEW k, k = [j EXCEPT !.left = x]
  PROVE  Parted(k, j.cmd, j.at, j.f, j.writes, j.auto, x, j.protocol, j.seen, j.page, j.parts, j.shown)
<1>1. j = Job(j.cmd, j.at, j.f, j.writes, j.auto, j.left, j.protocol, j.seen, j.page, j.parts, j.shown)
  BY DEF IsAiJob, Job
<1>2. k = Job(j.cmd, j.at, j.f, j.writes, j.auto, x, j.protocol, j.seen, j.page, j.parts, j.shown)
  BY <1>1 DEF Job
<1> QED BY <1>2, JobIsParted

LEMMA ProtocolMoved ==
  ASSUME NEW j, IsAiJob(j), NEW x, NEW k, k = [j EXCEPT !.protocol = x]
  PROVE  Parted(k, j.cmd, j.at, j.f, j.writes, j.auto, j.left, x, j.seen, j.page, j.parts, j.shown)
<1>1. j = Job(j.cmd, j.at, j.f, j.writes, j.auto, j.left, j.protocol, j.seen, j.page, j.parts, j.shown)
  BY DEF IsAiJob, Job
<1>2. k = Job(j.cmd, j.at, j.f, j.writes, j.auto, j.left, x, j.seen, j.page, j.parts, j.shown)
  BY <1>1 DEF Job
<1> QED BY <1>2, JobIsParted

LEMMA SeenMoved ==
  ASSUME NEW j, IsAiJob(j), NEW x, NEW k, k = [j EXCEPT !.seen = x]
  PROVE  Parted(k, j.cmd, j.at, j.f, j.writes, j.auto, j.left, j.protocol, x, j.page, j.parts, j.shown)
<1>1. j = Job(j.cmd, j.at, j.f, j.writes, j.auto, j.left, j.protocol, j.seen, j.page, j.parts, j.shown)
  BY DEF IsAiJob, Job
<1>2. k = Job(j.cmd, j.at, j.f, j.writes, j.auto, j.left, j.protocol, x, j.page, j.parts, j.shown)
  BY <1>1 DEF Job
<1> QED BY <1>2, JobIsParted

LEMMA PageMoved ==
  ASSUME NEW j, IsAiJob(j), NEW x, NEW k, k = [j EXCEPT !.page = x]
  PROVE  Parted(k, j.cmd, j.at, j.f, j.writes, j.auto, j.left, j.protocol, j.seen, x, j.parts, j.shown)
<1>1. j = Job(j.cmd, j.at, j.f, j.writes, j.auto, j.left, j.protocol, j.seen, j.page, j.parts, j.shown)
  BY DEF IsAiJob, Job
<1>2. k = Job(j.cmd, j.at, j.f, j.writes, j.auto, j.left, j.protocol, j.seen, x, j.parts, j.shown)
  BY <1>1 DEF Job
<1> QED BY <1>2, JobIsParted

LEMMA PartsMoved ==
  ASSUME NEW j, IsAiJob(j), NEW x, NEW k, k = [j EXCEPT !.parts = x]
  PROVE  Parted(k, j.cmd, j.at, j.f, j.writes, j.auto, j.left, j.protocol, j.seen, j.page, x, j.shown)
<1>1. j = Job(j.cmd, j.at, j.f, j.writes, j.auto, j.left, j.protocol, j.seen, j.page, j.parts, j.shown)
  BY DEF IsAiJob, Job
<1>2. k = Job(j.cmd, j.at, j.f, j.writes, j.auto, j.left, j.protocol, j.seen, j.page, x, j.shown)
  BY <1>1 DEF Job
<1> QED BY <1>2, JobIsParted

LEMMA ShownMoved ==
  ASSUME NEW j, IsAiJob(j), NEW x, NEW k, k = [j EXCEPT !.shown = x]
  PROVE  Parted(k, j.cmd, j.at, j.f, j.writes, j.auto, j.left, j.protocol, j.seen, j.page, j.parts, x)
<1>1. j = Job(j.cmd, j.at, j.f, j.writes, j.auto, j.left, j.protocol, j.seen, j.page, j.parts, j.shown)
  BY DEF IsAiJob, Job
<1>2. k = Job(j.cmd, j.at, j.f, j.writes, j.auto, j.left, j.protocol, j.seen, j.page, j.parts, x)
  BY <1>1 DEF Job
<1> QED BY <1>2, JobIsParted

LEMMA AtFMoved ==
  ASSUME NEW j, IsAiJob(j), NEW x, NEW y, NEW b, b = [j EXCEPT !.at = x], NEW k, k = [b EXCEPT !.f = y]
  PROVE  Parted(k, j.cmd, x, y, j.writes, j.auto, j.left, j.protocol, j.seen, j.page, j.parts, j.shown)
<1>1. Parted(b, j.cmd, x, j.f, j.writes, j.auto, j.left, j.protocol, j.seen, j.page, j.parts, j.shown)
  BY AtMoved
<1>2. IsAiJob(b)
  BY <1>1 DEF Parted
<1>3. Parted(k, b.cmd, b.at, y, b.writes, b.auto, b.left, b.protocol, b.seen, b.page, b.parts, b.shown)
  BY <1>2, FMoved
<1> QED BY <1>1, <1>3 DEF Parted

LEMMA AtSeenMoved ==
  ASSUME NEW j, IsAiJob(j), NEW x, NEW y, NEW b, b = [j EXCEPT !.at = x], NEW k, k = [b EXCEPT !.seen = y]
  PROVE  Parted(k, j.cmd, x, j.f, j.writes, j.auto, j.left, j.protocol, y, j.page, j.parts, j.shown)
<1>1. Parted(b, j.cmd, x, j.f, j.writes, j.auto, j.left, j.protocol, j.seen, j.page, j.parts, j.shown)
  BY AtMoved
<1>2. IsAiJob(b)
  BY <1>1 DEF Parted
<1>3. Parted(k, b.cmd, b.at, b.f, b.writes, b.auto, b.left, b.protocol, y, b.page, b.parts, b.shown)
  BY <1>2, SeenMoved
<1> QED BY <1>1, <1>3 DEF Parted

LEMMA AtLeftMoved ==
  ASSUME NEW j, IsAiJob(j), NEW x, NEW y, NEW b, b = [j EXCEPT !.at = x], NEW k, k = [b EXCEPT !.left = y]
  PROVE  Parted(k, j.cmd, x, j.f, j.writes, j.auto, y, j.protocol, j.seen, j.page, j.parts, j.shown)
<1>1. Parted(b, j.cmd, x, j.f, j.writes, j.auto, j.left, j.protocol, j.seen, j.page, j.parts, j.shown)
  BY AtMoved
<1>2. IsAiJob(b)
  BY <1>1 DEF Parted
<1>3. Parted(k, b.cmd, b.at, b.f, b.writes, b.auto, y, b.protocol, b.seen, b.page, b.parts, b.shown)
  BY <1>2, LeftMoved
<1> QED BY <1>1, <1>3 DEF Parted

LEMMA AtProtocolMoved ==
  ASSUME NEW j, IsAiJob(j), NEW x, NEW y, NEW b, b = [j EXCEPT !.at = x], NEW k, k = [b EXCEPT !.protocol = y]
  PROVE  Parted(k, j.cmd, x, j.f, j.writes, j.auto, j.left, y, j.seen, j.page, j.parts, j.shown)
<1>1. Parted(b, j.cmd, x, j.f, j.writes, j.auto, j.left, j.protocol, j.seen, j.page, j.parts, j.shown)
  BY AtMoved
<1>2. IsAiJob(b)
  BY <1>1 DEF Parted
<1>3. Parted(k, b.cmd, b.at, b.f, b.writes, b.auto, b.left, y, b.seen, b.page, b.parts, b.shown)
  BY <1>2, ProtocolMoved
<1> QED BY <1>1, <1>3 DEF Parted

LEMMA AtPageMoved ==
  ASSUME NEW j, IsAiJob(j), NEW x, NEW y, NEW b, b = [j EXCEPT !.at = x], NEW k, k = [b EXCEPT !.page = y]
  PROVE  Parted(k, j.cmd, x, j.f, j.writes, j.auto, j.left, j.protocol, j.seen, y, j.parts, j.shown)
<1>1. Parted(b, j.cmd, x, j.f, j.writes, j.auto, j.left, j.protocol, j.seen, j.page, j.parts, j.shown)
  BY AtMoved
<1>2. IsAiJob(b)
  BY <1>1 DEF Parted
<1>3. Parted(k, b.cmd, b.at, b.f, b.writes, b.auto, b.left, b.protocol, b.seen, y, b.parts, b.shown)
  BY <1>2, PageMoved
<1> QED BY <1>1, <1>3 DEF Parted

LEMMA AtPartsMoved ==
  ASSUME NEW j, IsAiJob(j), NEW x, NEW y, NEW b, b = [j EXCEPT !.at = x], NEW k, k = [b EXCEPT !.parts = y]
  PROVE  Parted(k, j.cmd, x, j.f, j.writes, j.auto, j.left, j.protocol, j.seen, j.page, y, j.shown)
<1>1. Parted(b, j.cmd, x, j.f, j.writes, j.auto, j.left, j.protocol, j.seen, j.page, j.parts, j.shown)
  BY AtMoved
<1>2. IsAiJob(b)
  BY <1>1 DEF Parted
<1>3. Parted(k, b.cmd, b.at, b.f, b.writes, b.auto, b.left, b.protocol, b.seen, b.page, y, b.shown)
  BY <1>2, PartsMoved
<1> QED BY <1>1, <1>3 DEF Parted

LEMMA AtWritesMoved ==
  ASSUME NEW j, IsAiJob(j), NEW x, NEW y, NEW b, b = [j EXCEPT !.at = x], NEW k, k = [b EXCEPT !.writes = y]
  PROVE  Parted(k, j.cmd, x, j.f, y, j.auto, j.left, j.protocol, j.seen, j.page, j.parts, j.shown)
<1>1. Parted(b, j.cmd, x, j.f, j.writes, j.auto, j.left, j.protocol, j.seen, j.page, j.parts, j.shown)
  BY AtMoved
<1>2. IsAiJob(b)
  BY <1>1 DEF Parted
<1>3. Parted(k, b.cmd, b.at, b.f, y, b.auto, b.left, b.protocol, b.seen, b.page, b.parts, b.shown)
  BY <1>2, WritesMoved
<1> QED BY <1>1, <1>3 DEF Parted

LEMMA AtAutoMoved ==
  ASSUME NEW j, IsAiJob(j), NEW x, NEW y, NEW b, b = [j EXCEPT !.at = x], NEW k, k = [b EXCEPT !.auto = y]
  PROVE  Parted(k, j.cmd, x, j.f, j.writes, y, j.left, j.protocol, j.seen, j.page, j.parts, j.shown)
<1>1. Parted(b, j.cmd, x, j.f, j.writes, j.auto, j.left, j.protocol, j.seen, j.page, j.parts, j.shown)
  BY AtMoved
<1>2. IsAiJob(b)
  BY <1>1 DEF Parted
<1>3. Parted(k, b.cmd, b.at, b.f, b.writes, y, b.left, b.protocol, b.seen, b.page, b.parts, b.shown)
  BY <1>2, AutoMoved
<1> QED BY <1>1, <1>3 DEF Parted

LEMMA PartsShownMoved ==
  ASSUME NEW j, IsAiJob(j), NEW x, NEW y, NEW b, b = [j EXCEPT !.parts = x], NEW k, k = [b EXCEPT !.shown = y]
  PROVE  Parted(k, j.cmd, j.at, j.f, j.writes, j.auto, j.left, j.protocol, j.seen, j.page, x, y)
<1>1. Parted(b, j.cmd, j.at, j.f, j.writes, j.auto, j.left, j.protocol, j.seen, j.page, x, j.shown)
  BY PartsMoved
<1>2. IsAiJob(b)
  BY <1>1 DEF Parted
<1>3. Parted(k, b.cmd, b.at, b.f, b.writes, b.auto, b.left, b.protocol, b.seen, b.page, b.parts, y)
  BY <1>2, ShownMoved
<1> QED BY <1>1, <1>3 DEF Parted

LEMMA AtWritesAutoMoved ==
  ASSUME NEW j, IsAiJob(j), NEW x, NEW y, NEW z, NEW b, b = [j EXCEPT !.at = x],
         NEW d, d = [b EXCEPT !.writes = y], NEW k, k = [d EXCEPT !.auto = z]
  PROVE  Parted(k, j.cmd, x, j.f, y, z, j.left, j.protocol, j.seen, j.page, j.parts, j.shown)
<1>1. Parted(d, j.cmd, x, j.f, y, j.auto, j.left, j.protocol, j.seen, j.page, j.parts, j.shown)
  BY AtWritesMoved
<1>2. IsAiJob(d)
  BY <1>1 DEF Parted
<1>3. Parted(k, d.cmd, d.at, d.f, d.writes, z, d.left, d.protocol, d.seen, d.page, d.parts, d.shown)
  BY <1>2, AutoMoved
<1> QED BY <1>1, <1>3 DEF Parted

LEMMA AtAutoWritesMoved ==
  ASSUME NEW j, IsAiJob(j), NEW x, NEW y, NEW z, NEW b, b = [j EXCEPT !.at = x],
         NEW d, d = [b EXCEPT !.auto = y], NEW k, k = [d EXCEPT !.writes = z]
  PROVE  Parted(k, j.cmd, x, j.f, z, y, j.left, j.protocol, j.seen, j.page, j.parts, j.shown)
<1>1. Parted(d, j.cmd, x, j.f, j.writes, y, j.left, j.protocol, j.seen, j.page, j.parts, j.shown)
  BY AtAutoMoved
<1>2. IsAiJob(d)
  BY <1>1 DEF Parted
<1>3. Parted(k, d.cmd, d.at, d.f, z, d.auto, d.left, d.protocol, d.seen, d.page, d.parts, d.shown)
  BY <1>2, WritesMoved
<1> QED BY <1>1, <1>3 DEF Parted

LEMMA AtFSeenMoved ==
  ASSUME NEW j, IsAiJob(j), NEW x, NEW y, NEW z, NEW b, b = [j EXCEPT !.at = x],
         NEW d, d = [b EXCEPT !.f = y], NEW k, k = [d EXCEPT !.seen = z]
  PROVE  Parted(k, j.cmd, x, y, j.writes, j.auto, j.left, j.protocol, z, j.page, j.parts, j.shown)
<1>1. Parted(d, j.cmd, x, y, j.writes, j.auto, j.left, j.protocol, j.seen, j.page, j.parts, j.shown)
  BY AtFMoved
<1>2. IsAiJob(d)
  BY <1>1 DEF Parted
<1>3. Parted(k, d.cmd, d.at, d.f, d.writes, d.auto, d.left, d.protocol, z, d.page, d.parts, d.shown)
  BY <1>2, SeenMoved
<1> QED BY <1>1, <1>3 DEF Parted

LEMMA OwnJob ==
  ASSUME AiInv, NEW w \in AiWorkers, asking[w] # NoAiJob
  PROVE  IsAiJob(asking[w]) /\ Working(asking[w]) /\ Holding(w, asking[w], configMu) /\ w \in AiAll /\ w # 0
<1>1. w \in AiAll /\ w # 0
  BY WorldFacts DEF AiInv, AiWorkers, AiAll
<1> QED BY <1>1 DEF AiInv, AiJobIsSound, AiAll

PlainSteps == {"write", "fetch", "choose", "configure", "append", "lock", "publish", "token", "page", "send", "deleted"}
Showings == {"posts", "post", "finish"}
OwnWrites(writes) == \A op \in writes : op.op = "delete" \/ OwnKey(op.key)

LEMMA PlainStep ==
  ASSUME NEW w, NEW mu, NEW i, NEW j, Working(i), i.at \notin Showings, j.at \in PlainSteps,
         j.cmd = i.cmd, j.page = i.page, j.shown = i.shown, OwnWrites(j.writes)
  PROVE  Working(j) /\ Holding(w, j, mu)
<1>1. i.page = 0 /\ i.shown = <<>> /\ i.cmd \in aiWorld.commands
  BY DEF Working, Showings
<1>2. /\ j.at \notin CommandKinds /\ j.at # "call" /\ j.at \notin {"posts", "post"} /\ j.at # "finish"
      /\ j.at \notin {"refusePrompt", "savePrompt", "replacePrompts", "save", "replace"}
  BY DEF PlainSteps, CommandKinds, SettingKinds, QuestionKinds
<1> QED BY <1>1, <1>2 DEF Working, Holding, OwnWrites

LEMMA HandleAiKeeps ==
  ASSUME AiInv, NEW w \in AiWorkers, HandleAi(w)
  PROVE  AiInv'
<1>1. PICK c \in aiWorld.commands : OneJob(w, NewJob(c, c.kind))
  BY DEF HandleAi, OneJob
<1> DEFINE j == NewJob(c, c.kind)
<1>2. IsAiJob(j) /\ j.cmd = c /\ j.at = c.kind /\ j.writes = {} /\ j.page = 0 /\ j.shown = <<>>
  BY DEF NewJob, IsAiJob
<1> HIDE DEF j
<1>3. c.kind \in CommandKinds
  BY WorldFacts DEF AiInv
<1>4. /\ j.at # "call" /\ j.at \notin {"posts", "post"} /\ j.at # "finish"
      /\ j.at \notin {"refusePrompt", "savePrompt", "replacePrompts", "save", "replace"}
  BY <1>2, <1>3 DEF CommandKinds, SettingKinds, QuestionKinds
<1>5. Working(j) /\ Holding(w, j, configMu')
  BY <1>2, <1>4 DEF Working, Holding
<1>6. AsideFrame /\ asked' = asked /\ configMu' = configMu /\ w \in AiAll /\ w # 0
  BY WorldFacts DEF HandleAi, SameAi, AsideFrame, promises, AiInv, AiWorkers, AiAll
<1>7. AskedWhatItCan'
  BY <1>6 DEF AiInv, AiIsSound, AskedWhatItCan
<1> QED BY <1>1, <1>2, <1>5, <1>6, <1>7, JobMoves DEF j

\* A job ends, or takes a plain step, and nothing else changes.
LEMMA PlainMove ==
  ASSUME AiInv, NEW w \in AiWorkers, asking[w] # NoAiJob, asking[w].at \notin Showings, AsideFrame, AskedWhatItCan',
         configMu' = configMu, NEW j, OneJob(w, j),
         \/ j = NoAiJob
         \/ /\ IsAiJob(j) /\ j.at \in PlainSteps /\ j.cmd = asking[w].cmd
            /\ j.page = asking[w].page /\ j.shown = asking[w].shown /\ OwnWrites(j.writes)
  PROVE  AiInv'
<1>1. IsAiJob(asking[w]) /\ Working(asking[w]) /\ w \in AiAll /\ w # 0
  BY OwnJob
<1>2. j # NoAiJob => Working(j) /\ Holding(w, j, configMu')
  BY <1>1, PlainStep
<1> QED BY <1>1, <1>2, JobMoves

LEMMA WritesAreOwn ==
  ASSUME AiInv, NEW w \in AiWorkers, asking[w] # NoAiJob
  PROVE  OwnWrites(asking[w].writes)
BY OwnJob DEF OwnWrites, Working

LEMMA ModelsAreOwn ==
  ASSUME NEW p, NEW of, NEW op
  PROVE  OwnWrites(ApplyDefaultModels(p, of, op))
<1> SUFFICES ASSUME NEW write \in ApplyDefaultModels(p, of, op)
             PROVE  OwnKey(write.key)
  BY DEF OwnWrites
<1>1. PICK f : write = StorageWrite(op, <<"model", p, f>>, "default", "skip", 1)
  BY DEF ApplyDefaultModels
<1>2. write.key = <<"model", p, f>>
  BY <1>1 DEF StorageWrite
<1> QED BY <1>2 DEF OwnKey

\* What each command would write is its own.
LEMMA PlansAreOwn ==
  ASSUME AiStore, NEW map, NEW c \in aiWorld.commands, c.kind \in SettingKinds
  PROVE  OwnWrites(Plan(map, c).writes)
<1>1. /\ OwnKey(<<"thirdparty.compat">>) /\ OwnKey(<<"provider">>) /\ OwnKey(<<"context">>)
      /\ \A p : OwnKey(<<"key", p>>) /\ OwnKey(<<"base_url", p>>)
      /\ \A p, f : OwnKey(<<"model", p, f>>)
  BY DEF OwnKey
<1>2. \A key, value, op, otherwise, rank :
        /\ StorageWrite(op, key, value, otherwise, rank).op = op
        /\ StorageWrite(op, key, value, otherwise, rank).key = key
  BY DEF StorageWrite
<1>3. \A writes : Do(writes).writes = writes
  BY DEF Do
<1>4. \A writes, p, of, op : DoAndMatch(writes, p, of, op).writes = writes
  BY DEF DoAndMatch
<1>5. ASSUME NEW key, NEW value, OwnKey(key)
      PROVE  OwnWrites(PutKey(key, value))
  BY <1>2, <1>5 DEF PutKey, OwnWrites
<1>6. ASSUME NEW key
      PROVE  OwnWrites(DeleteKey(key))
  BY <1>2 DEF DeleteKey, OwnWrites
<1>7. \A p, of, op : OwnWrites(ApplyDefaultModels(p, of, op))
  BY ModelsAreOwn
<1>8. CASE c.kind = "select"
  <2>1. OwnWrites(HandleSelect(map, c).writes)
    BY <1>1, <1>2 DEF HandleSelect, OwnWrites, PutKey, Refuse, DoAndMatch
  <2> QED BY <1>8, <2>1 DEF Plan
<1>9. CASE c.kind = "apikey"
  <2>1. CASE c.value = "clear"
    <3>1. APIKey(c) = Do(DeleteKey(<<"key", c.p>>))
      BY <2>1 DEF APIKey
    <3> QED BY <1>3, <1>6, <1>9, <3>1 DEF Plan
  <2>2. CASE c.value # "clear"
    <3> DEFINE writes == PutKey(<<"key", c.p>>, c.value) \cup {StorageWrite("missing", <<"provider">>, c.p, "skip", 3)}
    <3>1. APIKey(c) = DoAndMatch(writes, c.p, c.p, "missing")
      BY <2>2 DEF APIKey
    <3>2. OwnWrites(PutKey(<<"key", c.p>>, c.value))
      BY <1>1, <1>5
    <3>3. OwnWrites({StorageWrite("missing", <<"provider">>, c.p, "skip", 3)})
      BY <1>1, <1>2 DEF OwnWrites
    <3>4. OwnWrites(writes)
      BY <3>2, <3>3 DEF OwnWrites
    <3> HIDE DEF writes
    <3> QED BY <1>4, <1>9, <3>1, <3>4 DEF Plan
  <2> QED BY <2>1, <2>2
<1>10. CASE c.kind = "baseurl"
  <2>1. CASE c.value = "clear"
    <3>1. BaseURL(c) = Do(DeleteKey(<<"base_url", c.p>>))
      BY <2>1 DEF BaseURL
    <3> QED BY <1>3, <1>6, <1>10, <3>1 DEF Plan
  <2>2. CASE c.value # "clear"
    <3>1. BaseURL(c) = Do(PutKey(<<"base_url", c.p>>, c.value))
      BY <2>2 DEF BaseURL
    <3>2. OwnWrites(PutKey(<<"base_url", c.p>>, c.value))
      BY <1>1, <1>5
    <3> QED BY <1>3, <1>10, <3>1, <3>2 DEF Plan
  <2> QED BY <2>1, <2>2
<1>11. CASE c.kind = "thirdparty"
  <2>1. OwnWrites(ThirdParty(c).writes)
    BY <1>1, <1>2 DEF ThirdParty, OwnWrites, PutKey, Refuse, DoAndMatch
  <2> QED BY <1>11, <2>1 DEF Plan
<1>12. CASE c.kind = "model"
  <2> DEFINE p == CurrentProvider(map)
  <2>1. CASE c.value # "auto"
    <3> DEFINE key == <<"model", p, c.f>>
    <3>1. Model(map, c) = Do(PutKey(key, c.value))
      BY <2>1 DEF Model
    <3>2. OwnKey(key)
      BY <1>1
    <3> HIDE DEF key
    <3>3. OwnWrites(PutKey(key, c.value))
      BY <1>5, <3>2
    <3> QED BY <1>3, <1>12, <3>1, <3>3 DEF Plan
  <2>2. CASE c.value = "auto" /\ p = "thirdparty"
    <3>1. Model(map, c) = DoAndMatch({}, "thirdparty", "listed", "put")
      BY <2>2 DEF Model
    <3>2. OwnWrites({})
      BY DEF OwnWrites
    <3> QED BY <1>4, <1>12, <3>1, <3>2 DEF Plan
  <2>3. CASE c.value = "auto" /\ p # "thirdparty"
    <3>1. Model(map, c) = Do(ApplyDefaultModels(p, p, "put"))
      BY <2>3 DEF Model
    <3> QED BY <1>3, <1>7, <1>12, <3>1 DEF Plan
  <2> QED BY <2>1, <2>2, <2>3
<1>13. CASE c.kind = "toggle"
  <2>1. OwnKey(<<c.key>>)
    BY <1>13, WorldFacts DEF OwnKey, Toggles
  <2>2. OwnWrites(PutKey(<<c.key>>, c.value))
    BY <1>5, <2>1
  <2> QED BY <1>3, <1>13, <2>2 DEF Plan, Toggle
<1>14. CASE c.kind = "context"
  <2>1. CASE c.value = "clear"
    <3>1. Context(c) = Do(DeleteKey(HistoryKey(c.chat)))
      BY <2>1 DEF Context
    <3> QED BY <1>3, <1>6, <1>14, <3>1 DEF Plan
  <2>2. CASE c.value # "clear"
    <3>1. Context(c) = Do(PutKey(<<"context">>, c.value))
      BY <2>2 DEF Context
    <3>2. OwnWrites(PutKey(<<"context">>, c.value))
      BY <1>1, <1>5
    <3> QED BY <1>3, <1>14, <3>1, <3>2 DEF Plan
  <2> QED BY <2>1, <2>2
<1>15. CASE c.kind = "config"
  <2> SUFFICES ASSUME NEW op \in ConfigDefault(c).writes
               PROVE  op.op = "delete"
    BY <1>15 DEF Plan, OwnWrites
  <2>1. ASSUME NEW erased, NEW after, op \in Erase(erased, after)
        PROVE  op.op = "delete"
    BY <1>2, <2>1 DEF Erase
  <2>2. \E erased, after : op \in Erase(erased, after)
    BY <1>3 DEF ConfigDefault
  <2> QED BY <2>1, <2>2
<1> QED BY <1>8, <1>9, <1>10, <1>11, <1>12, <1>13, <1>14, <1>15 DEF SettingKinds

LEMMA CommandEnds ==
  ASSUME AiInv, NEW w \in AiWorkers, asking[w] # NoAiJob, AsideFrame, AskedWhatItCan',
         configMu' = configMu \/ configMu \in {0, w}, Ends(w)
  PROVE  AiInv'
<1>1. OneJob(w, NoAiJob)
  BY DEF Ends, OneJob
<1> QED BY <1>1, OwnJob, JobMoves

LEMMA PlainGo ==
  ASSUME AiInv, NEW w \in AiWorkers, asking[w] # NoAiJob, asking[w].at \notin Showings, AsideFrame, AskedWhatItCan',
         configMu' = configMu, NEW at \in PlainSteps, GoesTo(w, at)
  PROVE  AiInv'
<1> DEFINE j == [asking[w] EXCEPT !.at = at]
<1>1. OneJob(w, j)
  BY DEF GoesTo, OneJob
<1>2. IsAiJob(asking[w]) /\ j = [asking[w] EXCEPT !.at = at] /\ OwnWrites(asking[w].writes)
  BY OwnJob, WritesAreOwn
<1> HIDE DEF j
<1>3. Parted(j, asking[w].cmd, at, asking[w].f, asking[w].writes, asking[w].auto, asking[w].left,
             asking[w].protocol, asking[w].seen, asking[w].page, asking[w].parts, asking[w].shown)
  BY <1>2, AtMoved
<1> QED BY <1>1, <1>2, <1>3, PlainMove DEF Parted

\* Nothing but the jobs, the mutex aside.
Aside == SameAi /\ UNCHANGED <<settings, configMu, pages, promises>>
LEMMA AsideIs ==
  ASSUME AiInv, Aside
  PROVE  AsideFrame /\ configMu' = configMu /\ AskedWhatItCan'
BY DEF Aside, SameAi, promises, AsideFrame, AskedWhatItCan, AiInv, AiIsSound

LEMMA MatchDefaultsKeeps ==
  ASSUME AiInv, NEW w \in AiWorkers, asking[w] # NoAiJob, asking[w].at \notin Showings, Aside, MatchDefaults(w)
  PROVE  AiInv'
<1> DEFINE auto == asking[w].auto
           writes == ApplyDefaultModels(IF auto[1] = "listed" THEN "thirdparty" ELSE auto[1], auto[2], auto[3])
           b == [asking[w] EXCEPT !.at = "write"]
           d == [b EXCEPT !.auto = <<>>]
           j == [d EXCEPT !.writes = writes]
<1>1. OneJob(w, j)
  BY DEF MatchDefaults, OneJob
<1>2. OwnWrites(writes)
  BY ModelsAreOwn
<1> HIDE DEF writes
<1>3. /\ IsAiJob(asking[w]) /\ b = [asking[w] EXCEPT !.at = "write"]
      /\ d = [b EXCEPT !.auto = <<>>] /\ j = [d EXCEPT !.writes = writes]
  BY OwnJob
<1> HIDE DEF b, d, j
<1>4. Parted(j, asking[w].cmd, "write", asking[w].f, writes, <<>>, asking[w].left,
             asking[w].protocol, asking[w].seen, asking[w].page, asking[w].parts, asking[w].shown)
  BY <1>3, AtAutoWritesMoved
<1> QED BY <1>1, <1>2, <1>4, PlainMove, AsideIs DEF PlainSteps, Parted

LEMMA DecideKeeps ==
  ASSUME AiInv, NEW w \in AiWorkers, Decide(w)
  PROVE  AiInv'
<1>1. asking[w] # NoAiJob /\ asking[w].at \in SettingKinds /\ Aside
  BY DEF Decide, AiAt, Aside
<1>0. PICK map : LET found == Plan(map, asking[w].cmd) IN
        IF found.ok
        THEN asking' = [asking EXCEPT ![w] = [@ EXCEPT !.at = "write", !.writes = found.writes, !.auto = found.auto]]
        ELSE Ends(w)
  BY DEF Decide
<1> DEFINE plan == Plan(map, asking[w].cmd)
           b == [asking[w] EXCEPT !.at = "write"]
           d == [b EXCEPT !.writes = plan.writes]
           j == [d EXCEPT !.auto = plan.auto]
<1>2. Ends(w) \/ OneJob(w, j)
  BY <1>0 DEF OneJob
<1>3. CASE Ends(w)
  BY <1>1, <1>3, CommandEnds, AsideIs
<1>4. CASE OneJob(w, j)
  <2>1. asking[w].cmd \in aiWorld.commands /\ asking[w].cmd.kind \in SettingKinds
    BY <1>1, OwnJob DEF Working, CommandKinds
  <2>2. OwnWrites(plan.writes)
    BY <2>1, PlansAreOwn DEF AiInv
  <2> HIDE DEF plan
  <2>3. /\ IsAiJob(asking[w]) /\ b = [asking[w] EXCEPT !.at = "write"]
        /\ d = [b EXCEPT !.writes = plan.writes] /\ j = [d EXCEPT !.auto = plan.auto]
    BY <1>1, OwnJob
  <2>4. asking[w].at \notin Showings
    BY <1>1 DEF SettingKinds, Showings
  <2> HIDE DEF b, d, j
  <2>5. Parted(j, asking[w].cmd, "write", asking[w].f, plan.writes, plan.auto, asking[w].left,
             asking[w].protocol, asking[w].seen, asking[w].page, asking[w].parts, asking[w].shown)
    BY <2>3, AtWritesAutoMoved
  <2> QED BY <1>1, <1>4, <2>2, <2>4, <2>5, PlainMove, AsideIs DEF PlainSteps, Parted
<1> QED BY <1>2, <1>3, <1>4

LEMMA AutoConfigureModelsKeeps ==
  ASSUME AiInv, NEW w \in AiWorkers, AutoConfigureModels(w)
  PROVE  AiInv'
<1>1. /\ asking[w] # NoAiJob /\ asking[w].at \notin Showings /\ Aside
      /\ Ends(w) \/ GoesTo(w, "fetch") \/ MatchDefaults(w)
  BY DEF AutoConfigureModels, AiAt, Aside, Showings
<1> QED BY <1>1, CommandEnds, PlainGo, MatchDefaultsKeeps, AsideIs DEF PlainSteps

LEMMA FetchModelsKeeps ==
  ASSUME AiInv, NEW w \in AiWorkers, FetchModels(w)
  PROVE  AiInv'
<1>1. asking[w] # NoAiJob /\ asking[w].at \notin Showings /\ Aside
  BY DEF FetchModels, AiAt, Aside, Showings
<1>2. CASE Ends(w)
  BY <1>1, <1>2, CommandEnds, AsideIs
<1>3. CASE MatchDefaults(w)
  BY <1>1, <1>3, MatchDefaultsKeeps
<1> DEFINE auto == <<"listed", asking[w].auto[2], asking[w].auto[3]>>
           b == [asking[w] EXCEPT !.at = "write"]
           d == [b EXCEPT !.auto = auto]
<1>4. ASSUME NEW listed, NEW otherwise,
             OneJob(w, [d EXCEPT !.writes = SaveAssignedModels(AutoAssignModels(listed), otherwise)])
      PROVE  AiInv'
  <2> DEFINE writes == SaveAssignedModels(AutoAssignModels(listed), otherwise)
             j == [d EXCEPT !.writes = writes]
  <2>2. OwnWrites(writes)
    <3> SUFFICES ASSUME NEW write \in writes
                 PROVE  OwnKey(write.key)
      BY DEF OwnWrites
    <3>1. PICK f : write = StorageWrite("put", <<"model", "thirdparty", f>>, "listed", otherwise, 1)
      BY DEF SaveAssignedModels
    <3>2. write.key = <<"model", "thirdparty", f>>
      BY <3>1 DEF StorageWrite
    <3> QED BY <3>2 DEF OwnKey
  <2>3. OneJob(w, j)
    BY <1>4
  <2> HIDE DEF writes, auto
  <2>4. /\ IsAiJob(asking[w]) /\ b = [asking[w] EXCEPT !.at = "write"]
        /\ d = [b EXCEPT !.auto = auto] /\ j = [d EXCEPT !.writes = writes]
    BY <1>1, OwnJob
  <2> HIDE DEF b, d, j
  <2>5. Parted(j, asking[w].cmd, "write", asking[w].f, writes, auto, asking[w].left,
             asking[w].protocol, asking[w].seen, asking[w].page, asking[w].parts, asking[w].shown)
    BY <2>4, AtAutoWritesMoved
  <2> QED BY <1>1, <2>2, <2>3, <2>5, PlainMove, AsideIs DEF PlainSteps, Parted
<1>5. \/ Ends(w) \/ MatchDefaults(w)
      \/ \E listed, otherwise :
           OneJob(w, [d EXCEPT !.writes = SaveAssignedModels(AutoAssignModels(listed), otherwise)])
  <2> SUFFICES ASSUME ~Ends(w), ~MatchDefaults(w)
               PROVE  \E listed, otherwise :
                        OneJob(w, [d EXCEPT !.writes = SaveAssignedModels(AutoAssignModels(listed), otherwise)])
    OBVIOUS
  <2>1. PICK listed \in SUBSET {"chat", "image", "tts"} :
          IF listed = {} THEN IF asking[w].auto[2] = "listed" THEN Ends(w) ELSE MatchDefaults(w)
          ELSE asking' = [asking EXCEPT ![w] = [@ EXCEPT !.at = "write",
                 !.auto = <<"listed", asking[w].auto[2], asking[w].auto[3]>>,
                 !.writes = SaveAssignedModels(AutoAssignModels(listed),
                              IF asking[w].auto[2] = "listed" THEN "stop" ELSE "defaults")]]
    BY Zenon DEF FetchModels
  <2>2. OneJob(w, [d EXCEPT !.writes = SaveAssignedModels(AutoAssignModels(listed),
                                         IF asking[w].auto[2] = "listed" THEN "stop" ELSE "defaults")])
    <3>1. listed # {}
      BY <2>1, Zenon
    <3> QED BY <2>1, <3>1 DEF OneJob
  <2> QED BY <2>2, Zenon
<1> QED BY <1>2, <1>3, <1>4, <1>5, Zenon

-----------------------------------------------------------------------------
(* Ai: the providers are asked for what they can.                          *)

LEMMA AskKeeps ==
  ASSUME AiInv, NEW w \in AiWorkers, Ask(w)
  PROVE  AiInv'
<1> DEFINE c == asking[w].cmd
<1>0. PICK history : asking' = [asking EXCEPT ![w] = [@ EXCEPT !.at = "choose", !.f = FeatureOf(c), !.seen = history]]
  BY DEF Ask
<1> DEFINE b == [asking[w] EXCEPT !.at = "choose"]
           d == [b EXCEPT !.f = FeatureOf(c)]
           j == [d EXCEPT !.seen = history]
<1>1. asking[w] # NoAiJob /\ asking[w].at \in QuestionKinds /\ Aside /\ OneJob(w, j)
  BY <1>0 DEF Ask, AiAt, Aside, OneJob
<1>2. asking[w].at \notin Showings
  BY <1>1 DEF QuestionKinds, Showings
<1>3. /\ IsAiJob(asking[w]) /\ b = [asking[w] EXCEPT !.at = "choose"]
      /\ d = [b EXCEPT !.f = FeatureOf(c)] /\ j = [d EXCEPT !.seen = history] /\ OwnWrites(asking[w].writes)
  BY <1>1, OwnJob, WritesAreOwn
<1> HIDE DEF b, d, j
<1>4. Parted(j, asking[w].cmd, "choose", FeatureOf(c), asking[w].writes, asking[w].auto, asking[w].left,
             asking[w].protocol, history, asking[w].page, asking[w].parts, asking[w].shown)
  BY <1>3, AtFSeenMoved
<1> QED BY <1>1, <1>2, <1>3, <1>4, PlainMove, AsideIs DEF PlainSteps, Parted

LEMMA NoneLeftKeeps ==
  ASSUME AiInv, NEW w \in AiWorkers, asking[w] # NoAiJob, asking[w].at \notin Showings, AsideFrame, AskedWhatItCan',
         configMu' = configMu, NoneLeft(w)
  PROVE  AiInv'
BY CommandEnds, PlainGo DEF NoneLeft, PlainSteps

LEMMA PlainLeft ==
  ASSUME AiInv, NEW w \in AiWorkers, asking[w] # NoAiJob, asking[w].at \notin Showings, AsideFrame, AskedWhatItCan',
         configMu' = configMu, NEW left,
         asking' = [asking EXCEPT ![w] = [@ EXCEPT !.at = "configure", !.left = left]]
  PROVE  AiInv'
<1> DEFINE b == [asking[w] EXCEPT !.at = "configure"]
           j == [b EXCEPT !.left = left]
<1>1. OneJob(w, j)
  BY DEF OneJob
<1>2. /\ IsAiJob(asking[w]) /\ b = [asking[w] EXCEPT !.at = "configure"]
      /\ j = [b EXCEPT !.left = left] /\ OwnWrites(asking[w].writes)
  BY OwnJob, WritesAreOwn
<1> HIDE DEF b, j
<1>3. Parted(j, asking[w].cmd, "configure", asking[w].f, asking[w].writes, asking[w].auto, left,
             asking[w].protocol, asking[w].seen, asking[w].page, asking[w].parts, asking[w].shown)
  BY <1>2, AtLeftMoved
<1> QED BY <1>1, <1>2, <1>3, PlainMove DEF PlainSteps, Parted

LEMMA ChooseKeeps ==
  ASSUME AiInv, NEW w \in AiWorkers, Choose(w)
  PROVE  AiInv'
<1>1. asking[w] # NoAiJob /\ asking[w].at \notin Showings /\ Aside
  BY DEF Choose, AiAt, Aside, Showings
<1>2. CASE NoneLeft(w)
  BY <1>1, <1>2, NoneLeftKeeps, AsideIs
<1>3. CASE ~NoneLeft(w)
  <2>1. PICK left : asking' = [asking EXCEPT ![w] = [@ EXCEPT !.at = "configure", !.left = left]]
    BY <1>3 DEF Choose
  <2> QED BY <1>1, <2>1, PlainLeft, AsideIs
<1> QED BY <1>2, <1>3

LEMMA TryNextKeeps ==
  ASSUME AiInv, NEW w \in AiWorkers, asking[w] # NoAiJob, asking[w].at \notin Showings, AsideFrame, AskedWhatItCan',
         configMu' = configMu, TryNext(w)
  PROVE  AiInv'
<1>1. CASE NoneLeft(w)
  BY <1>1, NoneLeftKeeps
<1>2. CASE ~NoneLeft(w)
  <2>1. asking' = [asking EXCEPT ![w] = [@ EXCEPT !.at = "configure", !.left = Tail(asking[w].left)]]
    BY <1>2 DEF TryNext
  <2> QED BY <2>1, PlainLeft
<1> QED BY <1>1, <1>2

\* What is asked of a provider was found to be within its protocol.
LEMMA RequestConfigForKeeps ==
  ASSUME AiInv, NEW w \in AiWorkers, RequestConfigFor(w)
  PROVE  AiInv'
<1> DEFINE p == Head(asking[w].left)
<1>0. PICK map :
        IF Configured(map, p, asking[w].f)
        THEN asking' = [asking EXCEPT ![w] = [@ EXCEPT !.at = "call", !.protocol = Protocol(map, p)]]
        ELSE TryNext(w)
  BY DEF RequestConfigFor
<1> DEFINE protocol == Protocol(map, p)
           b == [asking[w] EXCEPT !.at = "call"]
           j == [b EXCEPT !.protocol = protocol]
<1>1. /\ asking[w] # NoAiJob /\ asking[w].at = "configure" /\ Aside
      /\ TryNext(w) \/ (Configured(map, p, asking[w].f) /\ OneJob(w, j))
  BY <1>0 DEF RequestConfigFor, AiAt, Aside, OneJob
<1>2. asking[w].at \notin Showings
  BY <1>1 DEF Showings
<1>3. CASE TryNext(w)
  BY <1>1, <1>2, <1>3, TryNextKeeps, AsideIs
<1>4. CASE Configured(map, p, asking[w].f) /\ OneJob(w, j)
  <2>1. Supports(p, asking[w].f, protocol)
    BY <1>4 DEF Configured
  <2> HIDE DEF protocol
  <2>2. /\ IsAiJob(asking[w]) /\ Working(asking[w]) /\ w \in AiAll /\ w # 0
        /\ b = [asking[w] EXCEPT !.at = "call"] /\ j = [b EXCEPT !.protocol = protocol]
        /\ OneJob(w, j)
    BY <1>1, <1>4, OwnJob
  <2> HIDE DEF b, j
  <2>3. Parted(j, asking[w].cmd, "call", asking[w].f, asking[w].writes, asking[w].auto, asking[w].left,
               protocol, asking[w].seen, asking[w].page, asking[w].parts, asking[w].shown)
    BY <2>2, AtProtocolMoved
  <2>4. asking[w].page = 0 /\ asking[w].shown = <<>> /\ asking[w].cmd \in aiWorld.commands
    BY <1>2, <2>2 DEF Working, Showings
  <2>5. /\ j.at \notin CommandKinds /\ j.at \notin {"posts", "post"} /\ j.at # "finish"
        /\ j.at \notin {"refusePrompt", "savePrompt", "replacePrompts", "save", "replace"} /\ j.at # "savePrompt" /\ j.at # "save"
    BY <2>3 DEF CommandKinds, SettingKinds, QuestionKinds, Parted
  <2>6. /\ j.cmd \in aiWorld.commands /\ j.page = 0 /\ j.shown = <<>> /\ Supports(Head(j.left), j.f, j.protocol)
        /\ \A op \in j.writes : op.op = "delete" \/ OwnKey(op.key)
    BY <2>1, <2>2, <2>3, <2>4 DEF Parted, Working
  <2>7. Working(j) /\ Holding(w, j, configMu')
    BY <2>5, <2>6 DEF Working, Holding
  <2> QED BY <1>1, <2>2, <2>3, <2>7, JobMoves, AsideIs DEF Parted
<1> QED BY <1>1, <1>3, <1>4

LEMMA RequestIsWithin ==
  ASSUME AiInv, NEW w \in AiWorkers, AiAt(w, "call"), asked' = asked \cup {Request(asking[w])}
  PROVE  AskedWhatItCan'
<1>1. Supports(Head(asking[w].left), asking[w].f, asking[w].protocol)
  BY OwnJob DEF AiAt, Working
<1>2. /\ Request(asking[w]).p = Head(asking[w].left) /\ Request(asking[w]).f = asking[w].f
      /\ Request(asking[w]).protocol = asking[w].protocol
  BY DEF Request
<1>3. AskedWhatItCan
  BY DEF AiInv, AiIsSound
<1> QED BY <1>1, <1>2, <1>3 DEF AskedWhatItCan

LEMMA CallTextKeeps ==
  ASSUME AiInv, NEW w \in AiWorkers, CallText(w)
  PROVE  AiInv'
<1>1. /\ asking[w] # NoAiJob /\ asking[w].at \notin Showings /\ AsideFrame /\ configMu' = configMu
      /\ AiAt(w, "call") /\ asked' = asked \cup {Request(asking[w])}
      /\ Ends(w) \/ GoesTo(w, "append") \/ GoesTo(w, "publish")
  BY DEF CallText, AiAt, SameAi, AsideFrame, Showings
<1> QED BY <1>1, RequestIsWithin, CommandEnds, PlainGo DEF PlainSteps

LEMMA CallMediaKeeps ==
  ASSUME AiInv, NEW w \in AiWorkers, CallMedia(w)
  PROVE  AiInv'
<1>1. /\ asking[w] # NoAiJob /\ asking[w].at \notin Showings /\ AsideFrame /\ configMu' = configMu
      /\ AiAt(w, "call") /\ asked' = asked \cup {Request(asking[w])}
      /\ TryNext(w) \/ GoesTo(w, "send")
  BY DEF CallMedia, AiAt, SameAi, AsideFrame, Showings
<1> QED BY <1>1, RequestIsWithin, TryNextKeeps, PlainGo DEF PlainSteps

LEMMA SendGeneratedFileKeeps ==
  ASSUME AiInv, NEW w \in AiWorkers, SendGeneratedFile(w)
  PROVE  AiInv'
<1>1. asking[w] # NoAiJob /\ Aside /\ Ends(w)
  BY DEF SendGeneratedFile, AiAt, Aside
<1> QED BY <1>1, CommandEnds, AsideIs

-----------------------------------------------------------------------------
(* Ai: the histories.                                                      *)

LEMMA ViewsAre ==
  ASSUME AiInv, NEW keys, NEW map \in Views(keys)
  PROVE  Histories(map)
<1>1. Histories(settings)
  BY DEF AiInv, AiStore
<1>2. CASE map = settings
  BY <1>1, <1>2
<1>3. CASE map # settings
  <2>1. PICK key \in keys : map = Drop(settings, key)
    BY <1>3 DEF Views
  <2>2. DOMAIN map \subseteq DOMAIN settings /\ \A k \in DOMAIN map : map[k] = settings[k]
    BY <2>1 DEF Drop
  <2> QED BY <1>1, <2>2 DEF Histories
<1> QED BY <1>2, <1>3

\* Whatever could be read, it is a history.
LEMMA HistoryFound ==
  ASSUME NEW map, Histories(map), NEW chat
  PROVE  History(map, chat) \in Seq(AiMessages)
<1>1. <<>> \in Seq(AiMessages)
  OBVIOUS
<1> DEFINE whole == IF Known(map, HistoryKey(chat)) THEN map[HistoryKey(chat)]
                    ELSE ReadKey(map, <<"legacy.history">>, <<>>)
<1>2. whole \in Seq(AiMessages)
  <2>1. HistoryKey(chat)[1] = "history" /\ <<"legacy.history">>[1] = "legacy.history"
    BY DEF HistoryKey
  <2>2. Known(map, HistoryKey(chat)) => map[HistoryKey(chat)] \in Seq(AiMessages)
    BY <2>1 DEF Histories, Known
  <2>3. ReadKey(map, <<"legacy.history">>, <<>>) \in Seq(AiMessages)
    BY <1>1, <2>1 DEF Histories, Known, ReadKey
  <2> QED BY <2>2, <2>3
<1>3. History(map, chat) \in {<<>>, LastKept(whole)}
  BY DEF History
<1> HIDE DEF whole
<1> QED BY <1>1, <1>2, <1>3, LastKeptIs

\* What is read of what is stored ends with what was kept.
LEMMA HistoryIs ==
  ASSUME AiInv, NEW chat \in AiChats
  PROVE  History(settings, chat) \in Seq(AiMessages) /\ IsSuffix(recent[chat], History(settings, chat))
<1>1. /\ Histories(settings) /\ recent[chat] \in Seq(AiMessages) /\ Len(recent[chat]) <= MaxHistory
      /\ recent[chat] # <<>> => Remembers(settings)
      /\ chat \in DOMAIN recent
  BY DEF AiInv, AiStore
<1>2. CASE ~Remembers(settings)
  <2>1. History(settings, chat) = <<>> /\ recent[chat] = <<>>
    BY <1>1, <1>2 DEF History
  <2>2. <<>> \in Seq(AiMessages)
    OBVIOUS
  <2> QED BY <2>1, <2>2, NothingEnds
<1>3. CASE Remembers(settings)
  <2> DEFINE whole == IF Known(settings, HistoryKey(chat)) THEN settings[HistoryKey(chat)]
                      ELSE ReadKey(settings, <<"legacy.history">>, <<>>)
  <2>1. History(settings, chat) = LastKept(whole)
    BY <1>3 DEF History
  <2>2. whole \in Seq(AiMessages)
    <3>1. HistoryKey(chat)[1] = "history" /\ <<"legacy.history">>[1] = "legacy.history"
      BY DEF HistoryKey
    <3>2. Known(settings, HistoryKey(chat)) => settings[HistoryKey(chat)] \in Seq(AiMessages)
      BY <1>1, <3>1 DEF Histories, Known
    <3>3. ReadKey(settings, <<"legacy.history">>, <<>>) \in Seq(AiMessages)
      BY <1>1, <3>1 DEF Histories, Known, ReadKey
    <3> QED BY <3>2, <3>3
  <2>3. IsSuffix(recent[chat], whole)
    <3>1. CASE recent[chat] = <<>>
      BY <2>2, <3>1, NothingEnds
    <3>2. CASE recent[chat] # <<>>
      BY <1>1, <3>2 DEF AiInv, AiIsSound, HistoryIsKept
    <3> QED BY <3>1, <3>2
  <2> HIDE DEF whole
  <2> QED BY <1>1, <2>1, <2>2, <2>3, LastKeptIs, EndIsKept
<1> QED BY <1>2, <1>3

\* The answer to a question is kept, or was not to be: the question is spoken or shown.
LEMMA SpokenOrShown ==
  ASSUME AiInv, NEW w \in AiWorkers, asking[w] # NoAiJob, asking[w].at \notin Showings,
         asking' = [asking EXCEPT ![w] = [@ EXCEPT !.at = AfterAnswer(w), !.f = "tts"]]
  PROVE  \E j : OneJob(w, j) /\ IsAiJob(j) /\ Working(j) /\ j.at \in PlainSteps /\ (\A mu : Holding(w, j, mu))
                /\ j.cmd = asking[w].cmd /\ j.page = asking[w].page /\ j.shown = asking[w].shown /\ OwnWrites(j.writes)
<1> DEFINE at == AfterAnswer(w)
           b == [asking[w] EXCEPT !.at = at]
           j == [b EXCEPT !.f = "tts"]
<1>1. OneJob(w, j)
  BY DEF OneJob
<1>2. at \in PlainSteps
  BY DEF AfterAnswer, PlainSteps
<1> HIDE DEF at
<1>3. /\ IsAiJob(asking[w]) /\ Working(asking[w]) /\ b = [asking[w] EXCEPT !.at = at]
      /\ j = [b EXCEPT !.f = "tts"] /\ OwnWrites(asking[w].writes)
  BY OwnJob, WritesAreOwn
<1> HIDE DEF b, j
<1>4. Parted(j, asking[w].cmd, at, "tts", asking[w].writes, asking[w].auto, asking[w].left,
             asking[w].protocol, asking[w].seen, asking[w].page, asking[w].parts, asking[w].shown)
  BY <1>3, AtFMoved
<1>5. /\ IsAiJob(j) /\ j.at \in PlainSteps /\ j.cmd = asking[w].cmd /\ j.page = asking[w].page
      /\ j.shown = asking[w].shown /\ OwnWrites(j.writes)
  BY <1>2, <1>3, <1>4 DEF Parted
<1>6. Working(j) /\ \A mu : Holding(w, j, mu)
  BY <1>3, <1>5, PlainStep
<1> QED BY <1>1, <1>5, <1>6

LEMMA CheckContextKeeps ==
  ASSUME AiInv, NEW w \in AiWorkers, CheckContext(w)
  PROVE  AiInv'
<1>1. asking[w] # NoAiJob /\ asking[w].at \notin Showings /\ Aside
  BY DEF CheckContext, AiAt, Aside, Showings
<1>2. CASE GoesTo(w, "lock")
  BY <1>1, <1>2, PlainGo, AsideIs DEF PlainSteps
<1>3. CASE ~GoesTo(w, "lock")
  <2>1. asking' = [asking EXCEPT ![w] = [@ EXCEPT !.at = AfterAnswer(w), !.f = "tts"]]
    BY <1>3 DEF CheckContext
  <2>2. PICK j : /\ OneJob(w, j) /\ IsAiJob(j) /\ j.at \in PlainSteps
                 /\ j.cmd = asking[w].cmd /\ j.page = asking[w].page /\ j.shown = asking[w].shown /\ OwnWrites(j.writes)
    BY <1>1, <2>1, SpokenOrShown
  <2> QED BY <1>1, <2>2, PlainMove, AsideIs
<1> QED BY <1>2, <1>3

\* The history is read with the mutex in hand, and ends with what was kept.
LEMMA LoadHistoryKeeps ==
  ASSUME AiInv, NEW w \in AiWorkers, LoadHistory(w)
  PROVE  AiInv'
<1>0. PICK map \in Views(HistoryKeys(asking[w].cmd.chat)) :
        asking' = [asking EXCEPT ![w] = [@ EXCEPT !.at =
            IF map = settings THEN "save" ELSE "replace", !.seen = ReadAgain(map, w)]]
  BY DEF LoadHistory
<1> DEFINE seen == ReadAgain(map, w)
           at == IF map = settings THEN "save" ELSE "replace"
           b == [asking[w] EXCEPT !.at = at]
           j == [b EXCEPT !.seen = seen]
<1>1. /\ asking[w] # NoAiJob /\ asking[w].at = "lock" /\ AsideFrame /\ asked' = asked /\ configMu' = w
      /\ configMu = 0 /\ OneJob(w, j)
  BY <1>0 DEF LoadHistory, AiAt, SameAi, promises, AsideFrame, OneJob
<1>2. /\ IsAiJob(asking[w]) /\ Working(asking[w]) /\ w \in AiAll /\ w # 0
      /\ OwnWrites(asking[w].writes)
  BY <1>1, OwnJob, WritesAreOwn
<1>3. asking[w].cmd \in aiWorld.commands /\ asking[w].page = 0 /\ asking[w].shown = <<>>
  BY <1>1, <1>2 DEF Working
<1>4. asking[w].cmd.chat \in AiChats
  BY <1>3, WorldFacts DEF AiInv
<1>5. /\ seen \in Seq(AiMessages) /\ at \in {"save", "replace"}
      /\ at = "save" => IsSuffix(recent[asking[w].cmd.chat], seen)
  <2>1. seen \in Seq(AiMessages)
    BY ViewsAre, HistoryFound DEF ReadAgain
  <2>2. at = "save" => map = settings
    OBVIOUS
  <2> QED BY <1>4, <2>1, <2>2, HistoryIs DEF ReadAgain
<1> HIDE DEF seen, at
<1>6. b = [asking[w] EXCEPT !.at = at] /\ j = [b EXCEPT !.seen = seen]
  OBVIOUS
<1> HIDE DEF b, j
<1>7. Parted(j, asking[w].cmd, at, asking[w].f, asking[w].writes, asking[w].auto, asking[w].left,
             asking[w].protocol, seen, asking[w].page, asking[w].parts, asking[w].shown)
  BY <1>2, <1>6, AtSeenMoved
<1>8. /\ j.at = at /\ j.cmd = asking[w].cmd /\ j.page = 0 /\ j.shown = <<>> /\ j.seen = seen
      /\ \A op \in j.writes : op.op = "delete" \/ OwnKey(op.key)
  BY <1>2, <1>3, <1>7 DEF Parted, OwnWrites
<1>9. Working(j) /\ Holding(w, j, configMu')
  BY <1>1, <1>3, <1>5, <1>8 DEF Working, Holding, CommandKinds, SettingKinds, QuestionKinds
<1>10. AskedWhatItCan'
  BY <1>1 DEF AiInv, AiIsSound, AskedWhatItCan
<1>11. IsAiJob(j)
  BY <1>7 DEF Parted
<1> QED BY <1>1, <1>2, <1>9, <1>10, <1>11, JobMoves

-----------------------------------------------------------------------------
(* Ai: what is written that is no setting of a command's.                  *)

LEMMA PutAside ==
  ASSUME AiInv, NEW key, NEW value, ~OwnKey(key), key[1] # "legacy_imported",
         key[1] \in {"history", "legacy.history"} => value \in Seq(AiMessages),
         settings' = Assign(settings, key, value), aiWorld' = aiWorld, mine' = mine, adopted' = adopted
  PROVE  /\ Histories(settings') /\ SettingsAreMine' /\ ImportIsComplete' /\ (Remembers(settings') <=> Remembers(settings))
         /\ key[1] # "prompts" => Prompts(settings') = Prompts(settings)
         /\ Known(settings', key) /\ settings'[key] = value
         /\ \A k : k # key => (Known(settings', k) <=> Known(settings, k)) /\ (Known(settings, k) => settings'[k] = settings[k])
<1>1. /\ DOMAIN settings' = DOMAIN settings \cup {key} /\ settings'[key] = value
      /\ \A k \in DOMAIN settings : k # key => settings'[k] = settings[k]
  <2> DEFINE map == Assign(settings, key, value)
  <2>1. /\ DOMAIN map = DOMAIN settings \cup {key} /\ map[key] = value
        /\ \A k \in DOMAIN settings : k # key => map[k] = settings[k]
    BY DEF Assign
  <2>2. settings' = map
    OBVIOUS
  <2> HIDE DEF map
  <2> QED BY <2>1, <2>2
<1>2. \A k : k # key => (Known(settings', k) <=> Known(settings, k)) /\ (Known(settings, k) => settings'[k] = settings[k])
  BY <1>1 DEF Known
<1>3. Histories(settings')
  <2>1. Histories(settings)
    BY DEF AiInv, AiStore
  <2> QED BY <1>1, <2>1 DEF Histories
<1>4. SettingsAreMine'
  <2>1. SettingsAreMine /\ \A k \in DOMAIN mine : k # key
    BY DEF AiInv, AiStore, AiIsSound
  <2> QED BY <1>2, <2>1 DEF SettingsAreMine
<1>5. key # Marker /\ key # <<"context">>
  BY DEF Marker, OwnKey
<1>6. ImportIsComplete'
  <2>1. Marker' = Marker
    BY DEF Marker
  <2>2. Known(settings', Marker) <=> Known(settings, Marker)
    BY <1>2, <1>5, <2>1 DEF Known
  <2> QED BY <2>2 DEF ImportIsComplete, AiInv, AiIsSound
<1>7. Remembers(settings') <=> Remembers(settings)
  BY <1>2, <1>5 DEF Remembers, ReadKey, Known
<1>8. key[1] # "prompts" => Prompts(settings') = Prompts(settings)
  BY <1>2 DEF Prompts, ReadKey, Known
<1>9. Known(settings', key)
  BY <1>1 DEF Known
<1> QED BY <1>1, <1>2, <1>3, <1>4, <1>6, <1>7, <1>8, <1>9

\* Such a write that concerns neither a history nor the prompts.
LEMMA PutElsewhere ==
  ASSUME AiInv, NEW key, NEW value, key \in {<<"telegraph.token">>, <<"telegraph.posts">>},
         settings' = Assign(settings, key, value), SameAi, UNCHANGED <<configMu, pages, promises>>,
         NEW w \in AiWorkers, asking[w] # NoAiJob, NEW j, OneJob(w, j), j = NoAiJob \/ AiJobIsSound(w)'
  PROVE  AiInv'
<1>1. /\ aiWorld' = aiWorld /\ mine' = mine /\ adopted' = adopted /\ pages' = pages /\ configMu' = configMu
      /\ recent' = recent /\ drafts' = drafts /\ asked' = asked /\ answered' = answered
  BY DEF SameAi, promises
<1>2. key[1] \in {"telegraph.token", "telegraph.posts"}
  OBVIOUS
<1>3. ~OwnKey(key) /\ key[1] \notin {"legacy_imported", "prompts", "history", "legacy.history"}
  BY <1>2 DEF OwnKey
<1>4. /\ Histories(settings') /\ SettingsAreMine' /\ ImportIsComplete' /\ (Remembers(settings') <=> Remembers(settings))
      /\ Prompts(settings') = Prompts(settings)
      /\ \A k : k # key => (Known(settings', k) <=> Known(settings, k)) /\ (Known(settings, k) => settings'[k] = settings[k])
  BY <1>1, <1>3, PutAside
<1>5. AiStore'
  BY <1>1, <1>4 DEF AiInv, AiStore
<1>6. HistoryIsKept'
  <2> SUFFICES ASSUME NEW chat \in DOMAIN recent', recent'[chat] # <<>>
               PROVE  Known(settings', HistoryKey(chat)) /\ IsSuffix(recent'[chat], settings'[HistoryKey(chat)])
    BY DEF HistoryIsKept, HistoryKey
  <2>1. Known(settings, HistoryKey(chat)) /\ IsSuffix(recent[chat], settings[HistoryKey(chat)])
    BY <1>1 DEF AiInv, AiIsSound, HistoryIsKept
  <2>2. HistoryKey(chat) # key
    BY <1>3 DEF HistoryKey
  <2> QED BY <1>1, <1>4, <2>1, <2>2 DEF HistoryKey
<1>7. AskedWhatItCan' /\ AnswersAreWhole' /\ PromptsAreKept'
  BY <1>1, <1>4 DEF AiInv, AiIsSound, AskedWhatItCan, AnswersAreWhole, AnswerParts, PromptsAreKept
<1>8. AiIsSound'
  BY <1>4, <1>6, <1>7 DEF AiIsSound
<1>9. w \in AiAll /\ Spares(w)
  BY <1>1, OwnJob DEF Spares
<1> QED BY <1>5, <1>8, <1>9, JobsStay DEF AiInv

\* A question and its answer are added to what was read with the mutex in hand.
LEMMA AppendHistoryKeeps ==
  ASSUME AiInv, NEW w \in AiWorkers, AppendHistory(w)
  PROVE  AiInv'
<1>0. PICK c, seen : c = asking[w].cmd /\ seen = asking[w].seen
  OBVIOUS
<1> DEFINE pair == <<<<"user", c.q>>, <<"assistant", c.q>>>>
           key == HistoryKey(c.chat)
           kept == IF asking[w].at = "save" THEN recent[c.chat] ELSE <<>>
<1>1. /\ asking[w] # NoAiJob /\ asking[w].at \in {"save", "replace"} /\ configMu' = 0 /\ aiWorld' = aiWorld
      /\ asking' = [asking EXCEPT ![w] = [@ EXCEPT !.at = AfterAnswer(w), !.f = "tts"]]
      /\ pages' = pages /\ asked' = asked /\ answered' = answered /\ mine' = mine
      /\ adopted' = adopted /\ drafts' = drafts
      /\ \/ /\ settings' = Assign(settings, key, LastKept(seen \o pair))
            /\ recent' = IF Remembers(settings) THEN [recent EXCEPT ![c.chat] = LastKept(kept \o pair)] ELSE recent
         \/ UNCHANGED <<settings, recent>>
  BY <1>0 DEF AppendHistory, AiAt, SameAi
<1>2. /\ IsAiJob(asking[w]) /\ Working(asking[w]) /\ Holding(w, asking[w], configMu) /\ w \in AiAll /\ w # 0
  BY <1>1, OwnJob
<1>3. /\ configMu = w /\ c \in aiWorld.commands /\ seen \in Seq(AiMessages)
      /\ asking[w].at = "save" => IsSuffix(recent[c.chat], seen)
  BY <1>0, <1>1, <1>2 DEF Holding, Working
<1>4. PICK j : /\ OneJob(w, j) /\ IsAiJob(j) /\ Working(j) /\ \A mu : Holding(w, j, mu)
               /\ j.at \in PlainSteps
  BY <1>1, SpokenOrShown DEF Showings
<1>5. AskedWhatItCan'
  BY <1>1 DEF AiInv, AiIsSound, AskedWhatItCan
<1>6. CASE UNCHANGED <<settings, recent>>
  <2>1. AsideFrame
    BY <1>1, <1>6 DEF AsideFrame
  <2> QED BY <1>1, <1>2, <1>3, <1>4, <1>5, <2>1, JobMoves
<1>7. CASE /\ settings' = Assign(settings, key, LastKept(seen \o pair))
           /\ recent' = IF Remembers(settings) THEN [recent EXCEPT ![c.chat] = LastKept(kept \o pair)] ELSE recent
  <2>1. c.q \in AiQuestions /\ c.chat \in AiChats
    BY <1>3, WorldFacts DEF AiInv
  <2>2. pair \in Seq(AiMessages)
    BY <2>1 DEF AiMessages
  <2> HIDE DEF pair
  <2> DEFINE value == LastKept(seen \o pair)
  <2>3. seen \o pair \in Seq(AiMessages)
    BY <1>3, <2>2
  <2>4. value \in Seq(AiMessages)
    BY <2>3, LastKeptIs
  <2> HIDE DEF value
  <2>5. key[1] = "history"
    BY DEF HistoryKey
  <2>6. ~OwnKey(key)
    BY <2>5 DEF OwnKey
  <2>7. settings' = Assign(settings, key, value)
    BY <1>7 DEF value
  <2> HIDE DEF key
  <2>8. /\ Histories(settings') /\ SettingsAreMine' /\ ImportIsComplete' /\ (Remembers(settings') <=> Remembers(settings))
        /\ Prompts(settings') = Prompts(settings) /\ Known(settings', key) /\ settings'[key] = value
        /\ \A k : k # key => (Known(settings', k) <=> Known(settings, k)) /\ (Known(settings, k) => settings'[k] = settings[k])
    BY <1>1, <2>4, <2>5, <2>6, <2>7, PutAside
  <2>9. /\ recent = [chat \in AiChats |-> recent[chat]]
        /\ \A chat \in AiChats :
             /\ recent[chat] \in Seq(AiMessages) /\ Len(recent[chat]) <= MaxHistory
             /\ recent[chat] # <<>> => Remembers(settings)
    BY DEF AiInv, AiStore
  <2>10. /\ recent' = [chat \in AiChats |-> recent'[chat]]
         /\ \A chat \in AiChats : chat # c.chat => recent'[chat] = recent[chat]
         /\ ~Remembers(settings) => recent' = recent
         /\ Remembers(settings) => recent'[c.chat] = LastKept(kept \o pair)
    <3> HIDE DEF kept
    <3> QED BY <1>7, <2>1, <2>9
  <2>11. ASSUME Remembers(settings)
         PROVE  /\ recent'[c.chat] \in Seq(AiMessages) /\ Len(recent'[c.chat]) <= MaxHistory
                /\ IsSuffix(recent'[c.chat], value)
    <3>1. kept \in Seq(AiMessages) /\ IsSuffix(kept, seen)
      <4>1. CASE asking[w].at = "save"
        BY <1>3, <2>1, <2>9, <4>1
      <4>2. CASE asking[w].at # "save"
        <5>1. kept = <<>> /\ <<>> \in Seq(AiMessages)
          BY <4>2
        <5> QED BY <1>3, <5>1, NothingEnds
      <4> QED BY <4>1, <4>2
    <3> HIDE DEF kept
    <3>2. kept \o pair \in Seq(AiMessages)
      BY <2>2, <3>1
    <3>3. LastKept(kept \o pair) \in Seq(AiMessages) /\ Len(LastKept(kept \o pair)) <= MaxHistory
      <4> DEFINE s == kept \o pair
      <4>1. s \in Seq(AiMessages)
        BY <3>2
      <4> HIDE DEF s
      <4>2. LastKept(s) \in Seq(AiMessages) /\ Len(LastKept(s)) <= MaxHistory
        BY <4>1, LastKeptIs, AiAssumption
      <4> QED BY <4>2 DEF s
    <3>4. IsSuffix(LastKept(kept \o pair), LastKept(seen \o pair))
      BY <1>3, <2>2, <3>1, EndIsAdded
    <3> QED BY <2>10, <2>11, <3>3, <3>4 DEF value
  <2>12. \A chat \in AiChats :
           /\ recent'[chat] \in Seq(AiMessages) /\ Len(recent'[chat]) <= MaxHistory
           /\ recent'[chat] # <<>> => Remembers(settings')
    BY <2>8, <2>9, <2>10, <2>11
  <2>13. AiStore'
    BY <1>1, <2>8, <2>10, <2>12 DEF AiInv, AiStore
  <2>14. HistoryIsKept'
    <3> SUFFICES ASSUME NEW chat \in AiChats, recent'[chat] # <<>>
                 PROVE  Known(settings', HistoryKey(chat)) /\ IsSuffix(recent'[chat], settings'[HistoryKey(chat)])
      BY <2>10 DEF HistoryIsKept, HistoryKey
    <3>1. CASE chat = c.chat
      <4>1. Remembers(settings)
        BY <2>9, <2>10
      <4>2. HistoryKey(chat) = key
        BY <3>1 DEF key
      <4> QED BY <2>8, <2>11, <3>1, <4>1, <4>2 DEF Known
    <3>2. CASE chat # c.chat
      <4>1. HistoryKey(chat) # key
        BY <3>2 DEF key, HistoryKey
      <4>2. Known(settings, HistoryKey(chat)) /\ IsSuffix(recent[chat], settings[HistoryKey(chat)])
        BY <2>9, <2>10, <3>2 DEF AiInv, AiIsSound, HistoryIsKept
      <4> QED BY <2>8, <2>10, <3>2, <4>1, <4>2 DEF HistoryKey
    <3> QED BY <3>1, <3>2
  <2>15. AnswersAreWhole' /\ PromptsAreKept'
    BY <1>1, <2>8 DEF AiInv, AiIsSound, AnswersAreWhole, AnswerParts, PromptsAreKept
  <2>16. AiIsSound'
    BY <1>5, <2>8, <2>14, <2>15 DEF AiIsSound
  <2>17. Spares(w)
    BY <1>1, <1>3 DEF Spares
  <2>18. AiJobIsSound(w)'
    <3>1. asking'[w] = j
      BY <1>2, <1>4 DEF OneJob, AiInv, AiAll
    <3>2. Working(j) /\ j.at \in PlainSteps
      BY <1>4
    <3>3. /\ j.at \notin CommandKinds /\ j.at # "call" /\ j.at \notin {"posts", "post"} /\ j.at # "finish"
          /\ j.at \notin {"refusePrompt", "savePrompt", "replacePrompts", "save", "replace"} /\ j.at # "savePrompt" /\ j.at # "save"
      BY <3>2 DEF PlainSteps, CommandKinds, SettingKinds, QuestionKinds
    <3>4. Working(asking[w])'
      BY <1>1, <3>1, <3>2, <3>3 DEF Working
    <3> QED BY <1>2, <1>4, <3>1, <3>4 DEF AiJobIsSound
  <2> QED BY <1>2, <1>4, <2>13, <2>16, <2>17, <2>18, JobsStay DEF AiInv
<1> QED BY <1>1, <1>6, <1>7

-----------------------------------------------------------------------------
(* Ai: the answer, on its page or shown.                                   *)

LEMMA StaysSound ==
  ASSUME AiInv, NEW w \in AiAll, w # 0, NEW j, OneJob(w, j), IsAiJob(j), Working(j), Holding(w, j, configMu'),
         aiWorld' = aiWorld, pages' = pages, drafts' = drafts, recent' = recent
  PROVE  AiJobIsSound(w)'
<1>1. asking'[w] = j
  BY DEF OneJob, AiInv, AiAll
<1>2. Working(asking[w])'
  BY <1>1 DEF Working, Showing, OnPage, AnswerParts
<1> QED BY <1>1, <1>2 DEF AiJobIsSound

LEMMA GivesUpKeeps ==
  ASSUME AiInv, NEW w \in AiWorkers, GivesUp(w)
  PROVE  AiInv'
<1>1. /\ asking[w] # NoAiJob /\ Ends(w) /\ AsideFrame /\ asked' = asked
      /\ configMu' = configMu \/ configMu = w
  BY DEF GivesUp, AiFails, Unlock, SameAi, promises, AsideFrame
<1>2. configMu' = configMu \/ configMu \in {0, w}
  BY <1>1
<1>3. AskedWhatItCan'
  BY <1>1 DEF AiInv, AiIsSound, AskedWhatItCan
<1> QED BY <1>1, <1>2, <1>3, CommandEnds

LEMMA ShowWholeKeeps ==
  ASSUME AiInv, NEW w \in AiWorkers, asking[w] # NoAiJob, asking[w].at \notin Showings, Aside, ShowWhole(w)
  PROVE  AiInv'
<1> DEFINE parts == AnswerParts(asking[w].cmd.q)
           b == [asking[w] EXCEPT !.at = "finish"]
           j == [b EXCEPT !.parts = parts]
<1>1. OneJob(w, j)
  BY DEF ShowWhole, Show, OneJob
<1> HIDE DEF parts
<1>2. /\ IsAiJob(asking[w]) /\ Working(asking[w]) /\ w \in AiAll /\ w # 0
      /\ b = [asking[w] EXCEPT !.at = "finish"] /\ j = [b EXCEPT !.parts = parts]
  BY OwnJob
<1> HIDE DEF b, j
<1>3. Parted(j, asking[w].cmd, "finish", asking[w].f, asking[w].writes, asking[w].auto, asking[w].left,
             asking[w].protocol, asking[w].seen, asking[w].page, parts, asking[w].shown)
  BY <1>2, AtPartsMoved
<1>4. asking[w].page = 0 /\ asking[w].shown = <<>>
  BY <1>2 DEF Working, Showings
<1>5. Showing(j)
  BY <1>3, <1>4 DEF Parted, Showing, parts
<1>6. Working(j) /\ Holding(w, j, configMu')
  BY <1>2, <1>3, <1>5 DEF Working, Holding, Parted, CommandKinds, SettingKinds, QuestionKinds
<1> QED BY <1>1, <1>2, <1>3, <1>6, JobMoves, AsideIs DEF Parted

LEMMA PublishLongAnswerKeeps ==
  ASSUME AiInv, NEW w \in AiWorkers, PublishLongAnswer(w)
  PROVE  AiInv'
<1>1. /\ asking[w] # NoAiJob /\ asking[w].at \notin Showings /\ Aside
      /\ GoesTo(w, "page") \/ GoesTo(w, "token") \/ ShowWhole(w)
  BY DEF PublishLongAnswer, AiAt, Aside, Showings
<1> QED BY <1>1, PlainGo, ShowWholeKeeps, AsideIs DEF PlainSteps

LEMMA TelegraphTokenKeeps ==
  ASSUME AiInv, NEW w \in AiWorkers, TelegraphToken(w)
  PROVE  AiInv'
<1>1. /\ asking[w] # NoAiJob /\ asking[w].at = "token" /\ SameAi /\ UNCHANGED <<configMu, pages, promises>>
      /\ \/ GoesTo(w, "page") /\ settings' = Assign(settings, <<"telegraph.token">>, "token")
         \/ ShowWhole(w) /\ settings' = settings
  BY DEF TelegraphToken, AiAt
<1>2. CASE ShowWhole(w) /\ settings' = settings
  BY <1>1, <1>2, ShowWholeKeeps DEF Aside, Showings
<1>3. CASE GoesTo(w, "page") /\ settings' = Assign(settings, <<"telegraph.token">>, "token")
  <2> DEFINE j == [asking[w] EXCEPT !.at = "page"]
  <2>1. OneJob(w, j)
    BY <1>3 DEF GoesTo, OneJob
  <2>2. /\ IsAiJob(asking[w]) /\ Working(asking[w]) /\ w \in AiAll /\ w # 0 /\ OwnWrites(asking[w].writes)
        /\ j = [asking[w] EXCEPT !.at = "page"]
    BY <1>1, OwnJob, WritesAreOwn
  <2> HIDE DEF j
  <2>3. Parted(j, asking[w].cmd, "page", asking[w].f, asking[w].writes, asking[w].auto, asking[w].left,
               asking[w].protocol, asking[w].seen, asking[w].page, asking[w].parts, asking[w].shown)
    BY <2>2, AtMoved
  <2>4. Working(j) /\ Holding(w, j, configMu')
    BY <1>1, <2>2, <2>3, PlainStep DEF Parted, PlainSteps, Showings
  <2>5. AiJobIsSound(w)'
    BY <1>1, <2>1, <2>2, <2>3, <2>4, StaysSound DEF SameAi, promises, Parted
  <2> QED BY <1>1, <1>3, <2>1, <2>5, PutElsewhere
<1> QED BY <1>1, <1>2, <1>3

\* The page that is made holds the answer, and no page changes.
LEMMA CreateTelegraphPageKeeps ==
  ASSUME AiInv, NEW w \in AiWorkers, CreateTelegraphPage(w)
  PROVE  AiInv'
<1> DEFINE number == Len(pages) + 1
           b == [asking[w] EXCEPT !.at = "posts"]
           j == [b EXCEPT !.page = number]
<1>1. /\ asking[w] # NoAiJob /\ asking[w].at = "page" /\ SameAi /\ UNCHANGED <<settings, configMu, promises>>
      /\ \/ pages' = Append(pages, asking[w].cmd.q) /\ OneJob(w, j)
         \/ ShowWhole(w) /\ pages' = pages
  BY DEF CreateTelegraphPage, AiAt, OneJob
<1>2. CASE ShowWhole(w) /\ pages' = pages
  BY <1>1, <1>2, ShowWholeKeeps DEF Aside, Showings
<1>3. CASE pages' = Append(pages, asking[w].cmd.q) /\ OneJob(w, j)
  <2>1. PICK i, k : i = asking[w] /\ k = j
    OBVIOUS
  <2>2. /\ IsAiJob(i) /\ Working(i) /\ w \in AiAll /\ w # 0 /\ OwnWrites(i.writes)
        /\ i.at = "page" /\ i.cmd \in aiWorld.commands /\ i.shown = <<>> /\ OneJob(w, k)
    BY <1>1, <1>3, <2>1, OwnJob, WritesAreOwn DEF Working
  <2>3. i.cmd.q \in AiQuestions /\ pages \in Seq(AiQuestions)
    BY <2>2, WorldFacts DEF AiInv, AiStore
  <2>4. /\ pages' \in Seq(AiQuestions) /\ number \in DOMAIN pages' /\ pages'[number] = i.cmd.q
        /\ \A n \in DOMAIN pages : n \in DOMAIN pages' /\ pages'[n] = pages[n]
    BY <1>3, <2>1, <2>3
  <2>5. Parted(k, i.cmd, "posts", i.f, i.writes, i.auto, i.left, i.protocol, i.seen, number, i.parts, i.shown)
    <3>1. b = [i EXCEPT !.at = "posts"] /\ k = [b EXCEPT !.page = number]
      BY <2>1
    <3> HIDE DEF b, j, number
    <3> QED BY <2>2, <3>1, AtPageMoved
  <2> HIDE DEF number, b, j
  <2>6. /\ aiWorld' = aiWorld /\ settings' = settings /\ configMu' = configMu /\ asked' = asked
        /\ answered' = answered /\ recent' = recent /\ mine' = mine /\ adopted' = adopted /\ drafts' = drafts
    BY <1>1 DEF SameAi, promises
  <2>7. asking'[w] = k
    BY <2>2 DEF OneJob, AiInv, AiAll
  <2>8. AiJobIsSound(w)'
    <3>1. OnPage(asking[w])'
      BY <2>4, <2>5, <2>7 DEF OnPage, Parted
    <3>2. /\ k.at = "posts" /\ k.shown = <<>> /\ k.cmd \in aiWorld'.commands
          /\ \A op \in k.writes : op.op = "delete" \/ OwnKey(op.key)
      BY <2>2, <2>5, <2>6 DEF Parted, OwnWrites
    <3>3. Working(asking[w])'
      BY <2>7, <3>1, <3>2 DEF Working, CommandKinds, SettingKinds, QuestionKinds
    <3>4. Holding(w, k, configMu')
      BY <3>2 DEF Holding
    <3> QED BY <2>2, <2>5, <2>7, <3>3, <3>4 DEF AiJobIsSound, Parted
  <2>9. Spares(w)
    BY <2>4, <2>6 DEF Spares
  <2>10. AiStore'
    BY <2>4, <2>6 DEF AiInv, AiStore, Remembers, ReadKey, Known
  <2>11. AnswersAreWhole'
    BY <2>4, <2>6 DEF AiInv, AiIsSound, AnswersAreWhole, AnswerParts
  <2>12. AiIsSound'
    BY <2>6, <2>11 DEF AiInv, AiIsSound, HistoryIsKept, AskedWhatItCan, SettingsAreMine,
         ImportIsComplete, PromptsAreKept, Prompts, ReadKey, Known
  <2> QED BY <2>2, <2>8, <2>9, <2>10, <2>12, JobsStay DEF AiInv
<1> QED BY <1>1, <1>2, <1>3

LEMMA LoadPostsKeeps ==
  ASSUME AiInv, NEW w \in AiWorkers, LoadPosts(w)
  PROVE  AiInv'
<1>0. PICK posts : asking' = [asking EXCEPT ![w] = [@ EXCEPT !.at = "post", !.seen = posts]]
  BY DEF LoadPosts
<1> DEFINE b == [asking[w] EXCEPT !.at = "post"]
           j == [b EXCEPT !.seen = posts]
<1>1. asking[w] # NoAiJob /\ asking[w].at = "posts" /\ Aside /\ OneJob(w, j)
  BY <1>0 DEF LoadPosts, AiAt, Aside, OneJob
<1>2. /\ IsAiJob(asking[w]) /\ Working(asking[w]) /\ w \in AiAll /\ w # 0
      /\ b = [asking[w] EXCEPT !.at = "post"] /\ j = [b EXCEPT !.seen = posts]
  BY <1>1, OwnJob
<1> HIDE DEF b, j
<1>3. Parted(j, asking[w].cmd, "post", asking[w].f, asking[w].writes, asking[w].auto, asking[w].left,
             asking[w].protocol, posts, asking[w].page, asking[w].parts, asking[w].shown)
  BY <1>2, AtSeenMoved
<1>4. OnPage(asking[w]) /\ asking[w].shown = <<>>
  BY <1>1, <1>2 DEF Working
<1>5. OnPage(j)
  BY <1>3, <1>4 DEF OnPage, Parted
<1>6. Working(j) /\ Holding(w, j, configMu')
  BY <1>2, <1>3, <1>4, <1>5 DEF Working, Holding, Parted, CommandKinds, SettingKinds, QuestionKinds
<1> QED BY <1>1, <1>2, <1>3, <1>6, JobMoves, AsideIs DEF Parted

LEMMA SavePostKeeps ==
  ASSUME AiInv, NEW w \in AiWorkers, SavePost(w)
  PROVE  AiInv'
<1> DEFINE b == [asking[w] EXCEPT !.at = "finish"]
           j == [b EXCEPT !.parts = <<0>>]
<1>1. /\ asking[w] # NoAiJob /\ asking[w].at = "post" /\ SameAi /\ UNCHANGED <<configMu, pages, promises>>
      /\ OneJob(w, j)
      /\ \/ settings' = Assign(settings, <<"telegraph.posts">>, asking[w].seen \cup {asking[w].page})
         \/ settings' = settings
  BY DEF SavePost, AiAt, OneJob
<1>2. /\ IsAiJob(asking[w]) /\ Working(asking[w]) /\ w \in AiAll /\ w # 0
      /\ b = [asking[w] EXCEPT !.at = "finish"] /\ j = [b EXCEPT !.parts = <<0>>]
  BY <1>1, OwnJob
<1> HIDE DEF b, j
<1>3. Parted(j, asking[w].cmd, "finish", asking[w].f, asking[w].writes, asking[w].auto, asking[w].left,
             asking[w].protocol, asking[w].seen, asking[w].page, <<0>>, asking[w].shown)
  BY <1>2, AtPartsMoved
<1>4. OnPage(asking[w]) /\ asking[w].shown = <<>>
  BY <1>1, <1>2 DEF Working
<1>5. Showing(j)
  BY <1>3, <1>4 DEF OnPage, Parted, Showing
<1>6. Working(j) /\ Holding(w, j, configMu')
  BY <1>2, <1>3, <1>5 DEF Working, Holding, Parted, CommandKinds, SettingKinds, QuestionKinds
<1>7. CASE settings' = settings
  <2>1. Aside
    BY <1>1, <1>7 DEF Aside
  <2> QED BY <1>1, <1>2, <1>3, <1>6, <2>1, JobMoves, AsideIs DEF Parted
<1>8. CASE settings' = Assign(settings, <<"telegraph.posts">>, asking[w].seen \cup {asking[w].page})
  <2>1. AiJobIsSound(w)'
    BY <1>1, <1>2, <1>3, <1>6, StaysSound DEF SameAi, promises, Parted
  <2> QED BY <1>1, <1>8, <2>1, PutElsewhere
<1> QED BY <1>1, <1>7, <1>8

LEMMA LoadDeletedPostsKeeps ==
  ASSUME AiInv, NEW w \in AiWorkers, LoadDeletedPosts(w)
  PROVE  AiInv'
<1>0. PICK posts : Ends(w) \/ asking' = [asking EXCEPT ![w] = [@ EXCEPT !.at = "deleted", !.seen = posts]]
  BY DEF LoadDeletedPosts
<1> DEFINE b == [asking[w] EXCEPT !.at = "deleted"]
           j == [b EXCEPT !.seen = posts]
<1>1. asking[w] # NoAiJob /\ asking[w].at \notin Showings /\ Aside /\ (Ends(w) \/ OneJob(w, j))
  BY <1>0 DEF LoadDeletedPosts, AiAt, Aside, OneJob, Showings
<1>2. CASE Ends(w)
  BY <1>1, <1>2, CommandEnds, AsideIs
<1>3. CASE OneJob(w, j)
  <2>1. /\ IsAiJob(asking[w]) /\ OwnWrites(asking[w].writes) /\ OneJob(w, j)
        /\ b = [asking[w] EXCEPT !.at = "deleted"] /\ j = [b EXCEPT !.seen = posts]
    BY <1>1, <1>3, OwnJob, WritesAreOwn
  <2> HIDE DEF b, j
  <2>2. Parted(j, asking[w].cmd, "deleted", asking[w].f, asking[w].writes, asking[w].auto, asking[w].left,
               asking[w].protocol, posts, asking[w].page, asking[w].parts, asking[w].shown)
    BY <2>1, AtSeenMoved
  <2> QED BY <1>1, <2>1, <2>2, PlainMove, AsideIs DEF PlainSteps, Parted
<1> QED BY <1>1, <1>2, <1>3

LEMMA SaveDeletedPostsKeeps ==
  ASSUME AiInv, NEW w \in AiWorkers, SaveDeletedPosts(w)
  PROVE  AiInv'
<1>1. PICK posts : settings' = Assign(settings, <<"telegraph.posts">>, posts)
  BY DEF SaveDeletedPosts
<1>2. asking[w] # NoAiJob /\ OneJob(w, NoAiJob) /\ SameAi /\ UNCHANGED <<configMu, pages, promises>>
  BY DEF SaveDeletedPosts, AiAt, Ends, OneJob
<1> QED BY <1>1, <1>2, PutElsewhere

\* Who is answered was shown the whole of it, or its page.
LEMMA TellKeeps ==
  ASSUME AiInv, NEW w \in AiWorkers, asking[w] # NoAiJob, Ends(w), NEW answer, answered' = answered \cup {answer},
         \/ answer.shown = AnswerParts(answer.q)
         \/ answer.shown = << 0 >> /\ answer.page \in DOMAIN pages /\ pages[answer.page] = answer.q,
         SameAi, UNCHANGED <<settings, configMu, pages, asked, recent, mine, adopted, drafts>>
  PROVE  AiInv'
<1>1. /\ aiWorld' = aiWorld /\ settings' = settings /\ configMu' = configMu /\ pages' = pages /\ asked' = asked
      /\ recent' = recent /\ mine' = mine /\ adopted' = adopted /\ drafts' = drafts
  BY DEF SameAi
<1>2. OneJob(w, NoAiJob) /\ Spares(w) /\ w \in AiAll
  BY <1>1, OwnJob DEF Ends, OneJob, Spares
<1>3. AiStore'
  BY <1>1 DEF AiInv, AiStore, Remembers, ReadKey, Known
<1>4. AnswersAreWhole'
  <2>1. AnswersAreWhole
    BY DEF AiInv, AiIsSound
  <2> QED BY <1>1, <2>1 DEF AnswersAreWhole, AnswerParts
<1>5. AiIsSound'
  BY <1>1, <1>4 DEF AiInv, AiIsSound, HistoryIsKept, AskedWhatItCan, SettingsAreMine,
       ImportIsComplete, PromptsAreKept, Prompts, ReadKey, Known
<1> QED BY <1>2, <1>3, <1>5, JobsStay DEF AiInv

LEMMA FinishAnswerHTMLKeeps ==
  ASSUME AiInv, NEW w \in AiWorkers, FinishAnswerHTML(w)
  PROVE  AiInv'
<1> DEFINE answer == [q |-> asking[w].cmd.q, shown |-> asking[w].parts, page |-> asking[w].page]
<1>1. /\ asking[w] # NoAiJob /\ asking[w].at = "finish" /\ IsShort(asking[w]) /\ Ends(w)
      /\ answered' = answered \cup {answer} /\ SameAi
      /\ UNCHANGED <<settings, configMu, pages, asked, recent, mine, adopted, drafts>>
  BY DEF FinishAnswerHTML, AiAt, Tell
<1>2. Showing(asking[w]) /\ pages \in Seq(AiQuestions)
  BY <1>1, OwnJob DEF Working, AiInv, AiStore
<1>3. asking[w].parts = AnswerParts(asking[w].cmd.q)
  BY <1>1, <1>2 DEF Showing, IsShort, OnPage
<1>4. answer.shown = AnswerParts(answer.q)
  BY <1>3
<1> HIDE DEF answer
<1> QED BY <1>1, <1>4, TellKeeps

\* The second part of an answer after the first.
LEMMA SecondPart == Append(<< 1 >>, 2) = <<1, 2>>
<1>11. <<1>> \in Seq(Nat) /\ <<1, 2>> \in Seq(Nat) /\ 2 \in Nat
  OBVIOUS
<1>1. PICK s \in Seq(Nat) : s = <<1>>
  BY <1>11, Zenon
<1>2. PICK e \in Nat : e = 2
  BY <1>11, Zenon
<1>3. PICK t : t = Append(s, e)
  OBVIOUS
<1>4. t \in Seq(Nat) /\ Len(t) = Len(s) + 1 /\ t[Len(s) + 1] = e
  BY <1>3, AppendProperties
<1>5. \A i \in 1 .. Len(s) : t[i] = s[i]
  BY <1>3, AppendProperties
<1>6. Len(s) = 1 /\ s[1] = 1
  BY <1>1
<1>7. Len(t) = 2 /\ t[1] = 1 /\ t[2] = 2
  BY <1>2, <1>4, <1>5, <1>6
<1>8. PICK u \in Seq(Nat) : u = <<1, 2>>
  BY <1>11, Zenon
<1>9. Len(u) = 2 /\ u[1] = 1 /\ u[2] = 2
  BY <1>8
<1>10. t = u
  <2>1. \A i \in 1 .. Len(t) : t[i] = u[i]
    <3>1. \A i \in 1 .. 2 : i = 1 \/ i = 2
      OBVIOUS
    <3> QED BY <1>7, <1>9, <3>1
  <2> QED BY <1>4, <1>7, <1>9, <2>1, SeqEqual
<1> QED BY <1>1, <1>2, <1>3, <1>8, <1>10

LEMMA FinishTextKeeps ==
  ASSUME AiInv, NEW w \in AiWorkers, FinishText(w)
  PROVE  AiInv'
<1> DEFINE i == asking[w]
           shown == Append(i.shown, Head(i.parts))
           answer == [q |-> i.cmd.q, shown |-> shown, page |-> i.page]
           left == Tail(i.parts)
           b == [i EXCEPT !.parts = left]
           j == [b EXCEPT !.shown = shown]
<1>2. /\ asking[w] # NoAiJob /\ i.at = "finish" /\ SameAi
      /\ UNCHANGED <<settings, configMu, pages, asked, recent, mine, adopted, drafts>>
      /\ \/ Len(i.parts) = 1 /\ Ends(w) /\ answered' = answered \cup {answer}
         \/ Len(i.parts) # 1 /\ OneJob(w, j) /\ answered' = answered
  BY DEF FinishText, AiAt, Tell, OneJob
<1>3. IsAiJob(i) /\ Working(i) /\ w \in AiAll /\ w # 0 /\ Showing(i)
  BY <1>2, OwnJob DEF Working
<1>4. CASE Len(i.parts) = 1 /\ Ends(w) /\ answered' = answered \cup {answer}
  <2>1. /\ answer.q = i.cmd.q /\ answer.page = i.page
        /\ \/ answer.shown = AnswerParts(i.cmd.q)
           \/ answer.shown = <<0>> /\ OnPage(i)
    <3>1. CASE i.shown = <<>> /\ i.parts = AnswerParts(i.cmd.q)
      <4>1. i.parts = <<1>> \/ i.parts = <<1, 2>>
        BY <3>1 DEF AnswerParts
      <4>2. i.parts = <<1>>
        BY <1>4, <4>1
      <4>3. shown = <<1>>
        BY <3>1, <4>2
      <4> QED BY <3>1, <4>2, <4>3
    <3>2. CASE i.shown = <<1>> /\ i.parts = <<2>> /\ i.cmd.q \in aiWorld.long
      <4>1. Head(i.parts) = 2 /\ Append(<<1>>, 2) = <<1, 2>>
        <5>1. Head(<<2>>) = 2
          OBVIOUS
        <5>2. Append(<<1>>, 2) = <<1, 2>>
          BY SecondPart
        <5> QED BY <3>2, <5>1, <5>2
      <4>2. shown = <<1, 2>>
        BY <3>2, <4>1
      <4> QED BY <3>2, <4>2 DEF AnswerParts
    <3>3. CASE OnPage(i) /\ i.shown = <<>> /\ i.parts = <<0>>
      <4>1. shown = <<0>>
        BY <3>3
      <4> QED BY <3>3, <4>1
    <3> QED BY <1>3, <3>1, <3>2, <3>3 DEF Showing
  <2>2. \/ answer.shown = AnswerParts(answer.q)
        \/ answer.shown = <<0>> /\ answer.page \in DOMAIN pages /\ pages[answer.page] = answer.q
    BY <2>1 DEF OnPage
  <2>3. Ends(w) /\ answered' = answered \cup {answer}
    BY <1>4
  <2> HIDE DEF answer
  <2> QED BY <1>2, <2>2, <2>3, TellKeeps
<1>5. CASE Len(i.parts) # 1 /\ OneJob(w, j) /\ answered' = answered
  <2>1. i.page = 0 /\ i.shown = <<>> /\ i.parts = <<1, 2>> /\ i.cmd.q \in aiWorld.long
    <3>1. Len(i.parts) # 1
      BY <1>5
    <3>2. i.parts # <<2>> /\ i.parts # <<0>> /\ i.parts # <<1>>
      BY <3>1
    <3> QED BY <1>3, <3>2 DEF Showing, AnswerParts
  <2>2. left = <<2>> /\ shown = <<1>>
    BY <2>1
  <2> HIDE DEF left, shown
  <2>3. b = [i EXCEPT !.parts = left] /\ j = [b EXCEPT !.shown = shown] /\ OneJob(w, j)
    BY <1>5
  <2> HIDE DEF b, j
  <2>4. Parted(j, i.cmd, i.at, i.f, i.writes, i.auto, i.left, i.protocol, i.seen, i.page, left, shown)
    BY <1>3, <2>3, PartsShownMoved
  <2>5. Showing(j)
    BY <2>1, <2>2, <2>4 DEF Showing, Parted
  <2>6. Working(j) /\ Holding(w, j, configMu')
    BY <1>2, <1>3, <2>4, <2>5 DEF Working, Holding, Parted, CommandKinds, SettingKinds, QuestionKinds
  <2>7. AsideFrame /\ configMu' = configMu /\ AskedWhatItCan'
    BY <1>2, <1>5 DEF AsideFrame, SameAi, AskedWhatItCan, AiInv, AiIsSound
  <2> QED BY <1>3, <2>3, <2>4, <2>6, <2>7, JobMoves DEF Parted
<1> QED BY <1>2, <1>4, <1>5

-----------------------------------------------------------------------------
(* Ai: what a write does to the storage, and to what was promised of it.   *)

\* What a write may do to the histories that are promised.
Forgetting(key, over) ==
  /\ recent' = [chat \in AiChats |-> recent'[chat]]
  /\ \A chat \in AiChats : recent'[chat] \in {recent[chat], <<>>}
  /\ \A chat \in AiChats : key = HistoryKey(chat) => recent'[chat] = <<>>
  /\ key = <<"context">> /\ over => \A chat \in AiChats : recent'[chat] = <<>>

LEMMA Forgets ==
  ASSUME AiInv, NEW op,
         recent' = [chat \in DOMAIN recent |-> IF chat \in Forgotten(op) THEN <<>> ELSE recent[chat]]
  PROVE  Forgetting(op.key, op.op = "delete" \/ op.value # "on")
<1>1. recent = [chat \in AiChats |-> recent[chat]]
  BY DEF AiInv, AiStore
<1>2. /\ recent' = [chat \in AiChats |-> recent'[chat]]
      /\ \A chat \in AiChats : recent'[chat] = IF chat \in Forgotten(op) THEN <<>> ELSE recent[chat]
  BY <1>1
<1>3. ASSUME NEW chat \in AiChats, op.key = HistoryKey(chat)
      PROVE  recent'[chat] = <<>>
  <2>1. op.key[1] = "history" /\ op.key[2] = chat
    BY <1>3 DEF HistoryKey
  <2>2. chat \in Forgotten(op)
    BY <2>1 DEF Forgotten
  <2> QED BY <1>2, <2>2
<1>4. ASSUME op.key = <<"context">>, op.op = "delete" \/ op.value # "on"
      PROVE  \A chat \in AiChats : recent'[chat] = <<>>
  <2>1. op.key[1] = "context"
    BY <1>4
  <2>2. DOMAIN recent = AiChats
    BY <1>1
  <2>3. AiChats \subseteq Forgotten(op)
    BY <1>4, <2>1, <2>2 DEF Forgotten
  <2> QED BY <1>2, <2>3
<1> QED BY <1>2, <1>3, <1>4 DEF Forgetting

\* The histories and the memory after a write to one key.
LEMMA RecentKept ==
  ASSUME AiInv, NEW key, NEW over, Forgetting(key, over),
         \A k : k # key => (Known(settings', k) <=> Known(settings, k)) /\ (Known(settings, k) => settings'[k] = settings[k]),
         \A chat \in AiChats : recent'[chat] # <<>> => Remembers(settings')
  PROVE  /\ HistoryIsKept' /\ recent' = [chat \in AiChats |-> recent'[chat]]
         /\ \A chat \in AiChats :
              /\ recent'[chat] \in Seq(AiMessages) /\ Len(recent'[chat]) <= MaxHistory
              /\ recent'[chat] # <<>> => Remembers(settings')
<1>1. \A chat \in AiChats :
        /\ recent[chat] \in Seq(AiMessages) /\ Len(recent[chat]) <= MaxHistory /\ chat \in DOMAIN recent
  BY DEF AiInv, AiStore
<1>2. <<>> \in Seq(AiMessages) /\ Len(<<>>) <= MaxHistory
  BY AiAssumption
<1>3. \A chat \in AiChats : recent'[chat] \in Seq(AiMessages) /\ Len(recent'[chat]) <= MaxHistory
  BY <1>1, <1>2 DEF Forgetting
<1>4. HistoryIsKept'
  <2> SUFFICES ASSUME NEW chat \in AiChats, recent'[chat] # <<>>
               PROVE  Known(settings', HistoryKey(chat)) /\ IsSuffix(recent'[chat], settings'[HistoryKey(chat)])
    BY DEF HistoryIsKept, HistoryKey, Forgetting
  <2>1. recent'[chat] = recent[chat] /\ HistoryKey(chat) # key
    BY DEF Forgetting
  <2>2. Known(settings, HistoryKey(chat)) /\ IsSuffix(recent[chat], settings[HistoryKey(chat)])
    BY <1>1, <2>1 DEF AiInv, AiIsSound, HistoryIsKept
  <2> QED BY <2>1, <2>2 DEF HistoryKey
<1> QED BY <1>3, <1>4 DEF Forgetting

LEMMA MemoryKept ==
  ASSUME AiInv, NEW key, NEW over, Forgetting(key, over),
         \A k : k # key => (Known(settings', k) <=> Known(settings, k)) /\ (Known(settings, k) => settings'[k] = settings[k]),
         key = <<"context">> => over \/ Remembers(settings')
  PROVE  \A chat \in AiChats : recent'[chat] # <<>> => Remembers(settings')
<1> SUFFICES ASSUME NEW chat \in AiChats, recent'[chat] # <<>>
             PROVE  Remembers(settings')
  OBVIOUS
<1>1. recent[chat] # <<>>
  BY DEF Forgetting
<1>2. Remembers(settings)
  BY <1>1 DEF AiInv, AiStore
<1>3. CASE key = <<"context">>
  BY <1>3 DEF Forgetting
<1>4. CASE key # <<"context">>
  BY <1>2, <1>4 DEF Remembers, ReadKey, Known
<1> QED BY <1>3, <1>4

SameBut == UNCHANGED <<aiWorld, pages, asked, answered>>

LEMMA DeleteKeeps ==
  ASSUME AiInv, NEW key, SameBut, adopted' = adopted, Forgetting(key, TRUE),
         settings' = Drop(settings, key), mine' = Drop(mine, key),
         drafts' = IF key = <<"prompts">> THEN {} ELSE drafts
  PROVE  AiStore' /\ AiIsSound'
<1>1. /\ DOMAIN settings' = DOMAIN settings \ {key} /\ DOMAIN mine' = DOMAIN mine \ {key}
      /\ \A k \in DOMAIN settings : k # key => settings'[k] = settings[k]
      /\ \A k \in DOMAIN mine : k # key => mine'[k] = mine[k]
  BY DEF Drop
<1>2. \A k : k # key => (Known(settings', k) <=> Known(settings, k)) /\ (Known(settings, k) => settings'[k] = settings[k])
  BY <1>1 DEF Known
<1>3. /\ aiWorld' = aiWorld /\ pages' = pages /\ asked' = asked /\ answered' = answered
  BY DEF SameBut
<1>4. \A chat \in AiChats : recent'[chat] # <<>> => Remembers(settings')
  <2>1. PICK over : over <=> TRUE
    OBVIOUS
  <2> QED BY <1>2, MemoryKept
<1>5. /\ HistoryIsKept' /\ recent' = [chat \in AiChats |-> recent'[chat]]
      /\ \A chat \in AiChats :
           /\ recent'[chat] \in Seq(AiMessages) /\ Len(recent'[chat]) <= MaxHistory
           /\ recent'[chat] # <<>> => Remembers(settings')
  BY <1>2, <1>4, RecentKept
<1>6. AiStore'
  <2>1. Histories(settings) /\ \A k \in DOMAIN mine : OwnKey(k)
    BY DEF AiInv, AiStore
  <2>2. Histories(settings') /\ \A k \in DOMAIN mine' : OwnKey(k)
    BY <1>1, <2>1 DEF Histories
  <2> QED BY <1>3, <1>5, <2>2 DEF AiInv, AiStore
<1>7. SettingsAreMine'
  <2>1. \A k \in DOMAIN mine : Known(settings, k) /\ settings[k] = mine[k]
    BY DEF AiInv, AiIsSound, SettingsAreMine
  <2> QED BY <1>1, <1>2, <2>1 DEF SettingsAreMine
<1>8. ImportIsComplete'
  <2>1. Known(settings', Marker) => Known(settings, Marker)
    BY <1>1 DEF Known, Marker
  <2> QED BY <1>3, <2>1 DEF ImportIsComplete, AiInv, AiIsSound
<1>9. PromptsAreKept'
  <2>1. CASE key = <<"prompts">>
    BY <2>1 DEF PromptsAreKept
  <2>2. CASE key # <<"prompts">>
    <3>1. Prompts(settings') = Prompts(settings)
      BY <1>2, <2>2 DEF Prompts, ReadKey, Known
    <3> QED BY <2>2, <3>1 DEF PromptsAreKept, AiInv, AiIsSound
  <2> QED BY <2>1, <2>2
<1>10. AskedWhatItCan' /\ AnswersAreWhole'
  BY <1>3 DEF AiInv, AiIsSound, AskedWhatItCan, AnswersAreWhole, AnswerParts
<1> QED BY <1>5, <1>6, <1>7, <1>8, <1>9, <1>10 DEF AiIsSound

\* A command's setting is in the storage as the command has made it.
LEMMA PutKeeps ==
  ASSUME AiInv, NEW key, NEW value, OwnKey(key), SameBut, adopted' = adopted, drafts' = drafts,
         Forgetting(key, value # "on"),
         settings' = Assign(settings, key, value), mine' = Assign(mine, key, value)
  PROVE  AiStore' /\ AiIsSound'
<1>1. /\ DOMAIN settings' = DOMAIN settings \cup {key} /\ settings'[key] = value
      /\ DOMAIN mine' = DOMAIN mine \cup {key} /\ mine'[key] = value
      /\ \A k \in DOMAIN settings : k # key => settings'[k] = settings[k]
      /\ \A k \in DOMAIN mine : k # key => mine'[k] = mine[k]
  BY DEF Assign
<1>2. \A k : k # key => (Known(settings', k) <=> Known(settings, k)) /\ (Known(settings, k) => settings'[k] = settings[k])
  BY <1>1 DEF Known
<1>3. /\ aiWorld' = aiWorld /\ pages' = pages /\ asked' = asked /\ answered' = answered
  BY DEF SameBut
<1>4. key = <<"context">> => value # "on" \/ Remembers(settings')
  BY <1>1 DEF Remembers, ReadKey, Known
<1>5. \A chat \in AiChats : recent'[chat] # <<>> => Remembers(settings')
  BY <1>2, <1>4, MemoryKept
<1>6. /\ HistoryIsKept' /\ recent' = [chat \in AiChats |-> recent'[chat]]
      /\ \A chat \in AiChats :
           /\ recent'[chat] \in Seq(AiMessages) /\ Len(recent'[chat]) <= MaxHistory
           /\ recent'[chat] # <<>> => Remembers(settings')
  BY <1>2, <1>5, RecentKept
<1>7. key[1] \notin {"legacy_imported", "prompts", "history", "legacy.history"}
  BY DEF OwnKey
<1>8. AiStore'
  <2>1. Histories(settings) /\ \A k \in DOMAIN mine : OwnKey(k)
    BY DEF AiInv, AiStore
  <2>2. Histories(settings') /\ \A k \in DOMAIN mine' : OwnKey(k)
    BY <1>1, <1>7, <2>1 DEF Histories
  <2> QED BY <1>3, <1>6, <2>2 DEF AiInv, AiStore
<1>9. SettingsAreMine'
  <2>1. \A k \in DOMAIN mine : Known(settings, k) /\ settings[k] = mine[k]
    BY DEF AiInv, AiIsSound, SettingsAreMine
  <2>2. Known(settings', key)
    BY <1>1 DEF Known
  <2> QED BY <1>1, <1>2, <2>1, <2>2 DEF SettingsAreMine
<1>10. ImportIsComplete'
  <2>1. Known(settings', Marker) => Known(settings, Marker)
    BY <1>1, <1>7 DEF Known, Marker
  <2> QED BY <1>3, <2>1 DEF ImportIsComplete, AiInv, AiIsSound
<1>11. PromptsAreKept'
  <2>1. key # <<"prompts">>
    BY <1>7
  <2>2. Prompts(settings') = Prompts(settings)
    BY <1>2, <2>1 DEF Prompts, ReadKey, Known
  <2> QED BY <2>2 DEF PromptsAreKept, AiInv, AiIsSound
<1>12. AskedWhatItCan' /\ AnswersAreWhole'
  BY <1>3 DEF AiInv, AiIsSound, AskedWhatItCan, AnswersAreWhole, AnswerParts
<1> QED BY <1>6, <1>8, <1>9, <1>10, <1>11, <1>12 DEF AiIsSound

\* The import gives what is missing; its mark comes when nothing is left.
LEMMA ImportKeeps ==
  ASSUME AiInv, NEW key, NEW value, ~Known(settings, key) \/ key = Marker, SameBut, adopted \subseteq adopted',
         drafts' = drafts, mine' = mine, NEW over, Forgetting(key, over),
         key[1] \in {"history", "legacy.history"} => value \in Seq(AiMessages),
         key = Marker => DOMAIN aiWorld.legacy \subseteq adopted',
         settings' = Assign(settings, key, value)
  PROVE  AiStore' /\ AiIsSound'
<1>1. /\ DOMAIN settings' = DOMAIN settings \cup {key} /\ settings'[key] = value
      /\ \A k \in DOMAIN settings : k # key => settings'[k] = settings[k]
  BY DEF Assign
<1>2. \A k : k # key => (Known(settings', k) <=> Known(settings, k)) /\ (Known(settings, k) => settings'[k] = settings[k])
  BY <1>1 DEF Known
<1>3. /\ aiWorld' = aiWorld /\ pages' = pages /\ asked' = asked /\ answered' = answered
  BY DEF SameBut
<1>4. Marker # <<"context">> /\ Marker # <<"prompts">> /\ ~OwnKey(Marker)
  BY DEF Marker, OwnKey
<1>5. \A chat \in AiChats : recent'[chat] # <<>> => Remembers(settings')
  <2> SUFFICES ASSUME NEW chat \in AiChats, recent'[chat] # <<>>
               PROVE  Remembers(settings')
    OBVIOUS
  <2>1. recent[chat] # <<>>
    BY DEF Forgetting
  <2>2. Remembers(settings)
    BY <2>1 DEF AiInv, AiStore
  <2>3. Known(settings, <<"context">>)
    BY <2>2 DEF Remembers, ReadKey
  <2>4. key # <<"context">>
    BY <1>4, <2>3
  <2> QED BY <1>2, <2>2, <2>4 DEF Remembers, ReadKey, Known
<1>6. /\ HistoryIsKept' /\ recent' = [chat \in AiChats |-> recent'[chat]]
      /\ \A chat \in AiChats :
           /\ recent'[chat] \in Seq(AiMessages) /\ Len(recent'[chat]) <= MaxHistory
           /\ recent'[chat] # <<>> => Remembers(settings')
  BY <1>2, <1>5, RecentKept
<1>7. AiStore'
  <2>1. Histories(settings) /\ \A k \in DOMAIN mine : OwnKey(k)
    BY DEF AiInv, AiStore
  <2>2. Histories(settings')
    BY <1>1, <2>1 DEF Histories
  <2> QED BY <1>3, <1>6, <2>1, <2>2 DEF AiInv, AiStore
<1>8. SettingsAreMine'
  <2>1. \A k \in DOMAIN mine : Known(settings, k) /\ settings[k] = mine[k] /\ OwnKey(k)
    BY DEF AiInv, AiStore, AiIsSound, SettingsAreMine
  <2>2. \A k \in DOMAIN mine : k # key
    BY <1>4, <2>1
  <2> QED BY <1>2, <2>1, <2>2 DEF SettingsAreMine
<1>9. ImportIsComplete'
  <2>1. CASE key = Marker
    BY <1>3, <2>1 DEF ImportIsComplete
  <2>2. CASE key # Marker
    <3>1. Known(settings', Marker) => Known(settings, Marker)
      BY <1>1, <2>2 DEF Known, Marker
    <3> QED BY <1>3, <3>1 DEF ImportIsComplete, AiInv, AiIsSound
  <2> QED BY <2>1, <2>2
<1>10. PromptsAreKept'
  <2>1. drafts \subseteq Prompts(settings)
    BY DEF PromptsAreKept, AiInv, AiIsSound
  <2>2. CASE key = <<"prompts">>
    <3>1. ~Known(settings, <<"prompts">>)
      BY <1>4, <2>2
    <3>2. drafts = {}
      BY <2>1, <3>1 DEF Prompts, ReadKey
    <3> QED BY <3>2 DEF PromptsAreKept
  <2>3. CASE key # <<"prompts">>
    <3>1. Prompts(settings') = Prompts(settings)
      BY <1>2, <2>3 DEF Prompts, ReadKey, Known
    <3> QED BY <2>1, <3>1 DEF PromptsAreKept
  <2> QED BY <2>2, <2>3
<1>11. AskedWhatItCan' /\ AnswersAreWhole'
  BY <1>3 DEF AiInv, AiIsSound, AskedWhatItCan, AnswersAreWhole, AnswerParts
<1> QED BY <1>6, <1>7, <1>8, <1>9, <1>10, <1>11 DEF AiIsSound

-----------------------------------------------------------------------------
(* Ai: the writes of a command, and of the import.                         *)

LEMMA PlainStaysSound ==
  ASSUME AiInv, NEW w \in AiAll, w # 0, NEW j, OneJob(w, j), IsAiJob(j), Working(j), j.at \in PlainSteps,
         aiWorld' = aiWorld
  PROVE  AiJobIsSound(w)'
<1>1. asking'[w] = j
  BY DEF OneJob, AiInv, AiAll
<1>2. /\ j.at \notin CommandKinds /\ j.at # "call" /\ j.at \notin {"posts", "post"} /\ j.at # "finish"
      /\ j.at \notin {"refusePrompt", "savePrompt", "replacePrompts", "save", "replace"} /\ j.at # "savePrompt" /\ j.at # "save"
  BY DEF PlainSteps, CommandKinds, SettingKinds, QuestionKinds
<1>3. Working(asking[w])'
  BY <1>1, <1>2 DEF Working
<1>4. Holding(w, j, configMu')
  BY <1>2 DEF Holding
<1> QED BY <1>1, <1>3, <1>4 DEF AiJobIsSound

LEMMA WrittenIsOwn ==
  ASSUME AiInv, NEW w \in AiWorkers, AiAt(w, "write"), NEW op, Written(w, op)
  PROVE  \E j : /\ OneJob(w, j) /\ IsAiJob(j) /\ Working(j) /\ j.at \in PlainSteps
                /\ j.cmd = asking[w].cmd /\ j.page = asking[w].page /\ j.shown = asking[w].shown /\ OwnWrites(j.writes)
<1> DEFINE writes == asking[w].writes \ {op}
           j == [asking[w] EXCEPT !.writes = writes]
<1>1. OneJob(w, j) /\ asking[w] # NoAiJob /\ asking[w].at = "write"
  BY DEF Written, OneJob, AiAt
<1>2. OwnWrites(writes)
  BY <1>1, WritesAreOwn DEF OwnWrites
<1> HIDE DEF writes
<1>3. IsAiJob(asking[w]) /\ Working(asking[w]) /\ j = [asking[w] EXCEPT !.writes = writes]
  BY <1>1, OwnJob
<1> HIDE DEF j
<1>4. Parted(j, asking[w].cmd, asking[w].at, asking[w].f, writes, asking[w].auto, asking[w].left,
             asking[w].protocol, asking[w].seen, asking[w].page, asking[w].parts, asking[w].shown)
  BY <1>3, WritesMoved
<1>5. /\ IsAiJob(j) /\ j.at \in PlainSteps /\ j.cmd = asking[w].cmd /\ j.page = asking[w].page
      /\ j.shown = asking[w].shown /\ OwnWrites(j.writes)
  BY <1>1, <1>2, <1>4 DEF Parted, PlainSteps
<1>6. \A mu : Working(j) /\ Holding(w, j, mu)
  BY <1>1, <1>3, <1>5, PlainStep DEF Showings
<1> QED BY <1>1, <1>5, <1>6

LEMMA OwnWriteKeeps ==
  ASSUME AiInv, NEW w \in AiWorkers, WriteKey(w)
  PROVE  AiInv'
<1>1. PICK op \in Ready(w) :
        \/ /\ \E map : Applied(map, w, op)
           /\ adopted' = IF w = 0 /\ op.key # Marker THEN adopted \cup {op.key} ELSE adopted
           /\ Written(w, op)
        \/ /\ AiFault /\ UNCHANGED <<settings, mine, recent, drafts, adopted>>
           /\ Ends(w) \/ Written(w, op) \/ MatchDefaults(w)
  BY DEF WriteKey
<1>2. /\ asking[w] # NoAiJob /\ asking[w].at = "write" /\ AiAt(w, "write") /\ SameAi
      /\ UNCHANGED <<configMu, pages, asked, answered>>
  BY DEF WriteKey, AiAt
<1>3. /\ IsAiJob(asking[w]) /\ Working(asking[w]) /\ w \in AiAll /\ w # 0
      /\ op.op = "delete" \/ OwnKey(op.key)
  BY <1>1, <1>2, OwnJob DEF Ready, Working
<1>4. asking[w].at \notin Showings
  BY <1>2 DEF Showings
<1>5. CASE /\ AiFault /\ UNCHANGED <<settings, mine, recent, drafts, adopted>>
           /\ Ends(w) \/ Written(w, op) \/ MatchDefaults(w)
  <2>1. Aside
    BY <1>2, <1>5 DEF Aside, promises
  <2>2. CASE Ends(w)
    BY <1>2, <2>1, <2>2, CommandEnds, AsideIs
  <2>3. CASE MatchDefaults(w)
    BY <1>2, <1>4, <2>1, <2>3, MatchDefaultsKeeps
  <2>4. CASE Written(w, op)
    <3>1. PICK j : /\ OneJob(w, j) /\ IsAiJob(j) /\ j.at \in PlainSteps
                   /\ j.cmd = asking[w].cmd /\ j.page = asking[w].page /\ j.shown = asking[w].shown
                   /\ OwnWrites(j.writes)
      BY <1>2, <2>4, WrittenIsOwn
    <3> QED BY <1>2, <1>4, <2>1, <3>1, PlainMove, AsideIs
  <2> QED BY <1>5, <2>2, <2>3, <2>4
<1>6. CASE /\ \E map : Applied(map, w, op)
           /\ adopted' = IF w = 0 /\ op.key # Marker THEN adopted \cup {op.key} ELSE adopted
           /\ Written(w, op)
  <2>1. PICK j : OneJob(w, j) /\ IsAiJob(j) /\ Working(j) /\ j.at \in PlainSteps
    BY <1>2, <1>6, WrittenIsOwn
  <2>2. /\ aiWorld' = aiWorld /\ adopted' = adopted /\ SameBut /\ pages' = pages /\ configMu' = configMu
    BY <1>2, <1>3, <1>6 DEF SameAi, SameBut
  <2>3. AiJobIsSound(w)'
    BY <1>3, <2>1, <2>2, PlainStaysSound
  <2>4. CASE UNCHANGED <<settings, mine, recent, drafts>>
    <3>1. AsideFrame /\ AskedWhatItCan'
      BY <1>2, <2>2, <2>4 DEF AsideFrame, AskedWhatItCan, AiInv, AiIsSound
    <3>2. Holding(w, j, configMu')
      BY <2>1 DEF Holding, PlainSteps
    <3> QED BY <1>3, <2>1, <2>2, <3>1, <3>2, JobMoves
  <2>5. CASE /\ recent' = [chat \in DOMAIN recent |-> IF chat \in Forgotten(op) THEN <<>> ELSE recent[chat]]
             /\ \/ /\ op.op = "delete" /\ settings' = Drop(settings, op.key) /\ mine' = Drop(mine, op.key)
                   /\ drafts' = IF op.key = <<"prompts">> THEN {} ELSE drafts
                \/ /\ op.op # "delete" /\ settings' = Assign(settings, op.key, op.value) /\ drafts' = drafts
                   /\ mine' = Assign(mine, op.key, op.value)
    <3>1. Forgetting(op.key, op.op = "delete" \/ op.value # "on")
      BY <2>5, Forgets
    <3>2. AiStore' /\ AiIsSound'
      <4>1. CASE op.op = "delete"
        <5>1. Forgetting(op.key, TRUE)
          BY <3>1, <4>1 DEF Forgetting
        <5> QED BY <2>2, <2>5, <4>1, <5>1, DeleteKeeps
      <4>2. CASE op.op # "delete"
        <5>1. Forgetting(op.key, op.value # "on") /\ OwnKey(op.key)
          BY <1>3, <3>1, <4>2 DEF Forgetting
        <5> QED BY <2>2, <2>5, <4>2, <5>1, PutKeeps
      <4> QED BY <4>1, <4>2
    <3>3. drafts' \subseteq drafts /\ \A chat \in AiChats : recent'[chat] \in {recent[chat], <<>>}
      BY <2>5, <3>1 DEF Forgetting
    <3>4. Spares(w)
      BY <2>2, <3>3 DEF Spares
    <3> QED BY <1>3, <2>1, <2>3, <3>2, <3>4, JobsStay DEF AiInv
  <2>6. \/ UNCHANGED <<settings, mine, recent, drafts>>
        \/ /\ recent' = [chat \in DOMAIN recent |-> IF chat \in Forgotten(op) THEN <<>> ELSE recent[chat]]
           /\ \/ /\ op.op = "delete" /\ settings' = Drop(settings, op.key) /\ mine' = Drop(mine, op.key)
                 /\ drafts' = IF op.key = <<"prompts">> THEN {} ELSE drafts
              \/ /\ op.op # "delete" /\ settings' = Assign(settings, op.key, op.value) /\ drafts' = drafts
                 /\ mine' = Assign(mine, op.key, op.value)
    BY <1>3, <1>6 DEF Applied, Value
  <2> QED BY <2>4, <2>5, <2>6
<1> QED BY <1>1, <1>5, <1>6

-----------------------------------------------------------------------------
(* Ai: the prompts are saved with the mutex in hand.                       *)

LEMMA LoadPromptsKeeps ==
  ASSUME AiInv, NEW w \in AiWorkers, LoadPrompts(w)
  PROVE  AiInv'
<1> DEFINE c == asking[w].cmd
<1>0. PICK map : asking' = [asking EXCEPT ![w] = [@ EXCEPT !.at =
            IF c.value # "add" /\ c.p \notin Prompts(map) THEN "refusePrompt"
            ELSE IF map = settings THEN "savePrompt" ELSE "replacePrompts", !.seen = Prompts(map)]]
  BY DEF LoadPrompts
<1> DEFINE at == IF c.value # "add" /\ c.p \notin Prompts(map) THEN "refusePrompt"
                 ELSE IF map = settings THEN "savePrompt" ELSE "replacePrompts"
           seen == Prompts(map)
           b == [asking[w] EXCEPT !.at = at]
           j == [b EXCEPT !.seen = seen]
<1>1. /\ asking[w] # NoAiJob /\ asking[w].at = "prompt" /\ AsideFrame /\ asked' = asked /\ configMu' = w
      /\ configMu = 0 /\ OneJob(w, j)
  BY <1>0 DEF LoadPrompts, LockPrompts, AiAt, SameAi, promises, AsideFrame, OneJob
<1>2. at \in {"refusePrompt", "savePrompt", "replacePrompts"} /\ (at = "savePrompt" => drafts \subseteq seen)
  BY DEF AiInv, AiIsSound, PromptsAreKept
<1> HIDE DEF at, seen
<1>3. /\ IsAiJob(asking[w]) /\ Working(asking[w]) /\ w \in AiAll /\ w # 0 /\ OwnWrites(asking[w].writes)
      /\ b = [asking[w] EXCEPT !.at = at] /\ j = [b EXCEPT !.seen = seen]
  BY <1>1, OwnJob, WritesAreOwn
<1> HIDE DEF b, j
<1>4. Parted(j, asking[w].cmd, at, asking[w].f, asking[w].writes, asking[w].auto, asking[w].left,
             asking[w].protocol, seen, asking[w].page, asking[w].parts, asking[w].shown)
  BY <1>3, AtSeenMoved
<1>5. /\ asking[w].cmd \in aiWorld.commands /\ asking[w].cmd.kind = "prompt"
      /\ asking[w].page = 0 /\ asking[w].shown = <<>>
  BY <1>1, <1>3 DEF Working, CommandKinds
<1>6. /\ j.at \notin CommandKinds /\ j.at # "call" /\ j.at \notin {"posts", "post"} /\ j.at # "finish"
      /\ j.at \notin {"save", "replace"}
  BY <1>2, <1>4 DEF Parted, CommandKinds, SettingKinds, QuestionKinds
<1>7. /\ j.cmd = asking[w].cmd /\ j.at = at /\ j.page = 0 /\ j.shown = <<>> /\ j.seen = seen
      /\ \A op \in j.writes : op.op = "delete" \/ OwnKey(op.key)
  BY <1>3, <1>4, <1>5 DEF Parted, OwnWrites
<1>8. Working(j) /\ Holding(w, j, configMu')
  BY <1>1, <1>2, <1>5, <1>6, <1>7 DEF Working, Holding
<1>9. AskedWhatItCan' /\ IsAiJob(j)
  BY <1>1, <1>4 DEF AiInv, AiIsSound, AskedWhatItCan, Parted
<1> QED BY <1>1, <1>3, <1>8, <1>9, JobMoves

LEMMA RefusePromptKeeps ==
  ASSUME AiInv, NEW w \in AiWorkers, RefusePrompt(w)
  PROVE  AiInv'
<1>1. /\ asking[w] # NoAiJob /\ Ends(w) /\ AsideFrame /\ asked' = asked
      /\ configMu' = configMu \/ configMu = w
  BY DEF RefusePrompt, AiAt, Unlock, SameAi, promises, AsideFrame
<1>2. configMu' = configMu \/ configMu \in {0, w}
  BY <1>1
<1>3. AskedWhatItCan'
  BY <1>1 DEF AiInv, AiIsSound, AskedWhatItCan
<1> QED BY <1>1, <1>2, <1>3, CommandEnds

\* What prompts are written is what they are, and no more is promised.
LEMMA PromptsWritten ==
  ASSUME AiInv, NEW prompts, settings' = Assign(settings, <<"prompts">>, prompts), drafts' \subseteq prompts,
         aiWorld' = aiWorld, pages' = pages, asked' = asked, answered' = answered,
         recent' = recent, adopted' = adopted, mine' = mine
  PROVE  AiStore' /\ AiIsSound'
<1> DEFINE key == <<"prompts">>
<1>1. ~OwnKey(key) /\ key[1] = "prompts"
  BY DEF OwnKey
<1>2. settings' = Assign(settings, key, prompts)
  OBVIOUS
<1>3. /\ Histories(settings') /\ SettingsAreMine' /\ ImportIsComplete' /\ (Remembers(settings') <=> Remembers(settings))
      /\ Known(settings', key) /\ settings'[key] = prompts
      /\ \A k : k # key => (Known(settings', k) <=> Known(settings, k)) /\ (Known(settings, k) => settings'[k] = settings[k])
  <2> HIDE DEF key
  <2> QED BY <1>1, <1>2, PutAside
<1>4. Prompts(settings') = prompts
  BY <1>3 DEF Prompts, ReadKey, Known
<1>5. AiStore'
  BY <1>3 DEF AiInv, AiStore
<1>6. HistoryIsKept'
  <2> SUFFICES ASSUME NEW chat \in DOMAIN recent', recent'[chat] # <<>>
               PROVE  Known(settings', HistoryKey(chat)) /\ IsSuffix(recent'[chat], settings'[HistoryKey(chat)])
    BY DEF HistoryIsKept, HistoryKey
  <2>1. Known(settings, HistoryKey(chat)) /\ IsSuffix(recent[chat], settings[HistoryKey(chat)])
    BY DEF AiInv, AiIsSound, HistoryIsKept
  <2>2. HistoryKey(chat) # key
    BY DEF HistoryKey
  <2> QED BY <1>3, <2>1, <2>2 DEF HistoryKey
<1>7. AskedWhatItCan' /\ AnswersAreWhole' /\ PromptsAreKept'
  BY <1>4 DEF AiInv, AiIsSound, AskedWhatItCan, AnswersAreWhole, AnswerParts, PromptsAreKept
<1> QED BY <1>3, <1>5, <1>6, <1>7 DEF AiIsSound

LEMMA ReplacePromptsKeeps ==
  ASSUME AiInv, NEW w \in AiWorkers, ReplacePrompts(w)
  PROVE  AiInv'
<1>1. PICK p : settings' = Assign(settings, <<"prompts">>, {p}) /\ drafts' = {p}
  BY DEF ReplacePrompts
<1>2. /\ asking[w] # NoAiJob /\ asking[w].at = "replacePrompts" /\ OneJob(w, NoAiJob) /\ configMu' \in {0, configMu}
      /\ aiWorld' = aiWorld /\ pages' = pages /\ asked' = asked /\ answered' = answered
      /\ recent' = recent /\ adopted' = adopted /\ mine' = mine
  BY DEF ReplacePrompts, AiAt, Ends, OneJob, SameAi, Unlock
<1>3. configMu = w /\ w \in AiAll
  BY <1>2, OwnJob DEF Holding
<1>4. Spares(w)
  BY <1>2, <1>3 DEF Spares
<1>5. AiStore' /\ AiIsSound'
  BY <1>1, <1>2, PromptsWritten
<1> QED BY <1>2, <1>3, <1>4, <1>5, JobsStay DEF AiInv

LEMMA SavePromptsKeeps ==
  ASSUME AiInv, NEW w \in AiWorkers, SavePrompts(w)
  PROVE  AiInv'
<1>1. PICK c, seen : c = asking[w].cmd /\ seen = asking[w].seen
  OBVIOUS
<1>2. /\ asking[w] # NoAiJob /\ asking[w].at = "savePrompt" /\ OneJob(w, NoAiJob) /\ configMu' \in {0, configMu}
      /\ aiWorld' = aiWorld /\ pages' = pages /\ asked' = asked /\ answered' = answered
      /\ recent' = recent /\ adopted' = adopted
  BY DEF SavePrompts, AiAt, Ends, OneJob, SameAi, Unlock
<1>3. /\ configMu = w /\ w \in AiAll /\ drafts \subseteq seen /\ c \in aiWorld.commands /\ c.kind = "prompt"
  BY <1>1, <1>2, OwnJob DEF Holding, Working
<1>4. c.value \in {"add", "del", "set"}
  BY <1>3, WorldFacts DEF AiInv
<1>5. Spares(w)
  BY <1>2, <1>3 DEF Spares
<1>6. SUFFICES AiStore' /\ AiIsSound'
  BY <1>2, <1>3, <1>5, JobsStay DEF AiInv
<1>8. CASE c.value = "add"
  <2>1. /\ settings' = Assign(settings, <<"prompts">>, seen \cup {c.p}) /\ drafts' = drafts \cup {c.p} /\ mine' = mine
    BY <1>1, <1>8 DEF SavePrompts
  <2> QED BY <1>2, <1>3, <2>1, PromptsWritten
<1>9. CASE c.value = "del"
  <2>1. /\ settings' = Assign(settings, <<"prompts">>, seen \ {c.p}) /\ drafts' = drafts \ {c.p} /\ mine' = mine
    BY <1>1, <1>9 DEF SavePrompts
  <2> QED BY <1>2, <1>3, <2>1, PromptsWritten
<1>10. CASE c.value = "set"
  <2> DEFINE key == <<"prompt.active", c.f>>
  <2>1. settings' = Assign(settings, key, c.p) /\ mine' = Assign(mine, key, c.p) /\ drafts' = drafts
    BY <1>1, <1>10 DEF SavePrompts
  <2>2. OwnKey(key) /\ key # <<"context">> /\ \A chat : key # HistoryKey(chat)
    BY DEF OwnKey, HistoryKey
  <2> HIDE DEF key
  <2>3. Forgetting(key, c.p # "on") /\ SameBut
    BY <1>2, <2>2 DEF Forgetting, SameBut, AiInv, AiStore
  <2> QED BY <1>2, <2>1, <2>2, <2>3, PutKeeps
<1> QED BY <1>4, <1>8, <1>9, <1>10
-----------------------------------------------------------------------------
(* Ai: the import, and the start of the plugin.                            *)

LEMMA ImportEnds ==
  ASSUME AiInv, Ends(0), Aside
  PROVE  AiInv'
<1>1. /\ aiWorld' = aiWorld /\ settings' = settings /\ pages' = pages /\ configMu' = configMu /\ asked' = asked
      /\ answered' = answered /\ recent' = recent /\ mine' = mine /\ adopted' = adopted /\ drafts' = drafts
  BY DEF Aside, SameAi, promises
<1>2. OneJob(0, NoAiJob) /\ Spares(0) /\ 0 \in AiAll
  BY <1>1, WorldFacts DEF Ends, OneJob, Spares, AiAll, AiInv
<1>3. AiStore' /\ AiIsSound'
  BY <1>1 DEF AiInv, AiStore, Remembers, ReadKey, Known, AiIsSound, HistoryIsKept, AskedWhatItCan, AnswersAreWhole,
       AnswerParts, SettingsAreMine, ImportIsComplete, PromptsAreKept, Prompts
<1> QED BY <1>2, <1>3, JobsStay DEF AiInv

LEMMA AutoOfImportKeeps ==
  ASSUME AiInv, AutoConfigureModels(0)
  PROVE  AiInv'
<1>1. asking[0] # NoAiJob /\ Aside /\ 0 \in AiAll
  BY WorldFacts DEF AutoConfigureModels, AiAt, Aside, AiAll, AiInv
<1>2. asking[0].auto = <<>>
  BY <1>1 DEF AiInv, AiJobIsSound, Importing, AiAll
<1>3. Ends(0)
  BY <1>2 DEF AutoConfigureModels
<1> QED BY <1>1, <1>3, ImportEnds

LEMMA ImportWriteKeeps ==
  ASSUME AiInv, WriteKey(0)
  PROVE  AiInv'
<1>1. PICK op \in Ready(0) :
        \/ /\ Applied(settings, 0, op)
           /\ adopted' = IF op.key # Marker THEN adopted \cup {op.key} ELSE adopted
           /\ Written(0, op)
        \/ /\ UNCHANGED <<settings, mine, recent, drafts, adopted>>
           /\ Ends(0) \/ op.otherwise # "stop"
  <2>1. Views({}) = {settings} /\ \A op : ~Fills(0, op)
    BY DEF Views, Fills
  <2> QED BY <2>1 DEF WriteKey
<1>2. /\ asking[0] # NoAiJob /\ SameAi /\ UNCHANGED <<configMu, pages, asked, answered>> /\ 0 \in AiAll
  BY WorldFacts DEF WriteKey, AiAt, AiAll, AiInv
<1>3. IsAiJob(asking[0]) /\ Importing(asking[0])
  BY <1>2 DEF AiInv, AiJobIsSound, AiAll
<1>4. PICK i : i = asking[0]
  OBVIOUS
<1>5. /\ op \in i.writes /\ \A other \in i.writes : op.order <= other.order
      /\ op.otherwise = "stop" /\ i.at = "write" /\ i.auto = <<>> /\ IsAiJob(i)
      /\ \A write \in i.writes :
           /\ write.otherwise = "stop"
           /\ \/ write.op = "missing" /\ write.key \in DOMAIN aiWorld.legacy /\ write.order \in 1 .. 6
              \/ write.op = "put" /\ write.key = Marker /\ write.order = 7
      /\ \A key \in DOMAIN aiWorld.legacy :
           key \in adopted \/ \E write \in i.writes : write.key = key /\ write.op = "missing"
  BY <1>1, <1>3, <1>4 DEF Ready, Importing
<1>6. \A key \in DOMAIN aiWorld.legacy : key # Marker
  <2>1. \A key \in DOMAIN aiWorld.legacy : \E n \in 1 .. 6 : key[1] \in LegacyGroups[n]
    BY WorldFacts DEF AiInv
  <2>2. \A n \in 1 .. 6 : "legacy_imported" \notin LegacyGroups[n]
    BY DEF LegacyGroups, Toggles
  <2>3. Marker[1] = "legacy_imported"
    BY DEF Marker
  <2> QED BY <2>1, <2>2, <2>3
<1>7. CASE UNCHANGED <<settings, mine, recent, drafts, adopted>> /\ Ends(0)
  <2>1. Aside
    BY <1>2, <1>7 DEF Aside, promises
  <2> QED BY <1>7, <2>1, ImportEnds
<1>8. CASE /\ Applied(settings, 0, op)
           /\ adopted' = IF op.key # Marker THEN adopted \cup {op.key} ELSE adopted
           /\ Written(0, op)
  <2> DEFINE writes == i.writes \ {op}
             j == [i EXCEPT !.writes = writes]
  <2>1. OneJob(0, j)
    BY <1>4, <1>8 DEF Written, OneJob
  <2>2. j = [i EXCEPT !.writes = writes]
    OBVIOUS
  <2> HIDE DEF writes, j
  <2>3. Parted(j, i.cmd, i.at, i.f, writes, i.auto, i.left, i.protocol, i.seen, i.page, i.parts, i.shown)
    BY <1>5, <2>2, WritesMoved
  <2>4. asking'[0] = j
    BY <1>2, <2>1 DEF OneJob, AiInv, AiAll
  <2>5. aiWorld' = aiWorld /\ adopted \subseteq adopted' /\ pages' = pages /\ configMu' = configMu /\ SameBut
    BY <1>2, <1>8 DEF SameAi, SameBut
  <2>6. \A key \in DOMAIN aiWorld.legacy :
          key \in adopted' \/ \E write \in writes : write.key = key /\ write.op = "missing"
    <3> SUFFICES ASSUME NEW key \in DOMAIN aiWorld.legacy, key \notin adopted'
                 PROVE  \E write \in writes : write.key = key /\ write.op = "missing"
      OBVIOUS
    <3>1. PICK write \in i.writes : write.key = key /\ write.op = "missing"
      BY <1>5, <2>5
    <3>2. write # op
      BY <1>6, <1>8, <3>1
    <3> QED BY <3>1, <3>2 DEF writes
  <2>7. Importing(asking[0])'
    <3>1. /\ j.at = "write" /\ j.auto = <<>> /\ j.writes = writes /\ writes \subseteq i.writes
      BY <1>5, <2>3 DEF Parted, writes
    <3>2. Marker' = Marker
      BY DEF Marker
    <3> QED BY <1>5, <2>4, <2>5, <2>6, <3>1, <3>2 DEF Importing
  <2>8. AiJobIsSound(0)'
    BY <2>3, <2>4, <2>7 DEF AiJobIsSound, Parted
  <2>9. CASE UNCHANGED <<settings, mine, recent, drafts>>
    <3>1. AiStore' /\ AiIsSound'
      <4>1. /\ settings' = settings /\ mine' = mine /\ recent' = recent /\ drafts' = drafts
            /\ asked' = asked /\ answered' = answered
        BY <1>2, <2>9
      <4> QED BY <2>5, <4>1 DEF AiInv, AiStore, Remembers, ReadKey, Known, AiIsSound, HistoryIsKept, AskedWhatItCan,
               AnswersAreWhole, AnswerParts, SettingsAreMine, ImportIsComplete, PromptsAreKept, Prompts
    <3>2. Spares(0)
      BY <2>5, <2>9 DEF Spares
    <3> QED BY <1>2, <2>1, <2>8, <3>1, <3>2, JobsStay DEF AiInv
  <2>10. CASE ~UNCHANGED <<settings, mine, recent, drafts>>
    <3>1. PICK value : value = Value(0, op)
      OBVIOUS
    <3>2. /\ ~(op.op = "missing" /\ Known(settings, op.key)) /\ op.op # "delete"
          /\ recent' = [chat \in DOMAIN recent |-> IF chat \in Forgotten(op) THEN <<>> ELSE recent[chat]]
          /\ settings' = Assign(settings, op.key, value) /\ drafts' = drafts /\ mine' = mine
      <4>1. op.op # "delete"
        BY <1>5
      <4> QED BY <1>8, <2>10, <3>1, <4>1 DEF Applied
    <3>3. PICK over : over <=> (op.op = "delete" \/ op.value # "on")
      OBVIOUS
    <3>4. Forgetting(op.key, op.op = "delete" \/ op.value # "on")
      BY <3>2, Forgets
    <3>5. ~Known(settings, op.key) \/ op.key = Marker
      BY <1>5, <3>2
    <3>6. op.key[1] \in {"history", "legacy.history"} => value \in Seq(AiMessages)
      <4> SUFFICES ASSUME op.key[1] \in {"history", "legacy.history"}
                   PROVE  value \in Seq(AiMessages)
        OBVIOUS
      <4>1. op.key # Marker
        BY DEF Marker
      <4>2. value = aiWorld.legacy[op.key] /\ op.key \in DOMAIN aiWorld.legacy
        BY <1>5, <3>1, <4>1 DEF Value
      <4>3. Histories(aiWorld.legacy)
        BY WorldFacts DEF AiInv
      <4> QED BY <4>2, <4>3 DEF Histories
    <3>7. op.key = Marker => DOMAIN aiWorld.legacy \subseteq adopted'
      <4> SUFFICES ASSUME op.key = Marker, NEW key \in DOMAIN aiWorld.legacy
                   PROVE  key \in adopted'
        OBVIOUS
      <4>1. op.order = 7
        BY <1>5, <1>6
      <4>2. \A write \in i.writes : write.op # "missing" \/ ~(write.order \in 1 .. 6)
        BY <1>5, <4>1
      <4>3. \A write \in i.writes : write.op # "missing"
        BY <1>5, <4>2
      <4> QED BY <1>5, <2>5, <4>3
    <3>8. AiStore' /\ AiIsSound'
      BY <2>5, <3>2, <3>4, <3>5, <3>6, <3>7, ImportKeeps
    <3>9. Spares(0)
      BY <2>5, <3>2, <3>4 DEF Spares, Forgetting
    <3> QED BY <1>2, <2>1, <2>8, <3>8, <3>9, JobsStay DEF AiInv
  <2> QED BY <2>9, <2>10
<1> QED BY <1>1, <1>5, <1>7, <1>8

LEMMA StartIsSound ==
  ASSUME AiStore, NEW map
  PROVE  IsAiJob(StartJob(map)) /\ Importing(StartJob(map))
<1> DEFINE new == NewJob([kind |-> "start"], "write")
           writes == MigrateLegacyAi(map)
           j == [new EXCEPT !.writes = writes]
<1>1. IsAiJob(new) /\ new.at = "write" /\ new.auto = <<>>
  BY DEF NewJob, IsAiJob
<1>2. j = [new EXCEPT !.writes = writes] /\ StartJob(map) = j
  BY DEF StartJob
<1> HIDE DEF new, writes, j
<1>3. Parted(j, new.cmd, new.at, new.f, writes, new.auto, new.left, new.protocol, new.seen, new.page, new.parts, new.shown)
  BY <1>1, <1>2, WritesMoved
<1>4. /\ IsAiJob(j) /\ j.at = "write" /\ j.auto = <<>> /\ j.writes = writes
  BY <1>1, <1>3 DEF Parted
<1>5. writes = {} \/ writes = MarkedAfter({PutIfMissing(key) : key \in DOMAIN aiWorld.legacy})
  BY DEF writes, MigrateLegacyAi
<1>6. ASSUME NEW key \in DOMAIN aiWorld.legacy
      PROVE  /\ PutIfMissing(key).op = "missing" /\ PutIfMissing(key).key = key
             /\ PutIfMissing(key).otherwise = "stop" /\ PutIfMissing(key).order \in 1 .. 6
  <2>1. LegacyGroup(key) \in 1 .. 6
    BY WorldFacts DEF LegacyGroup
  <2> QED BY <2>1 DEF PutIfMissing, StorageWrite
<1>7. ASSUME writes = {}
      PROVE  Importing(j)
  BY <1>4, <1>7 DEF Importing
<1>8. ASSUME writes = MarkedAfter({PutIfMissing(key) : key \in DOMAIN aiWorld.legacy})
      PROVE  Importing(j)
  <2> DEFINE mark == StorageWrite("put", Marker, "1", "stop", 7)
  <2>1. mark.op = "put" /\ mark.key = Marker /\ mark.otherwise = "stop" /\ mark.order = 7
    BY DEF StorageWrite
  <2>2. writes = {PutIfMissing(key) : key \in DOMAIN aiWorld.legacy} \cup {mark}
    BY <1>8 DEF MarkedAfter
  <2> HIDE DEF mark
  <2>3. ASSUME NEW op \in writes
        PROVE  /\ op.otherwise = "stop"
               /\ \/ op.op = "missing" /\ op.key \in DOMAIN aiWorld.legacy /\ op.order \in 1 .. 6
                  \/ op.op = "put" /\ op.key = Marker /\ op.order = 7
    <3>1. CASE op = mark
      BY <2>1, <3>1
    <3>2. CASE op # mark
      <4>1. PICK key \in DOMAIN aiWorld.legacy : op = PutIfMissing(key)
        BY <2>2, <3>2
      <4> QED BY <1>6, <4>1
    <3> QED BY <3>1, <3>2
  <2>4. ASSUME NEW key \in DOMAIN aiWorld.legacy
        PROVE  \E op \in writes : op.key = key /\ op.op = "missing"
    <3>1. PutIfMissing(key) \in writes
      BY <2>2
    <3> QED BY <1>6, <3>1
  <2> QED BY <1>4, <2>3, <2>4 DEF Importing
<1>9. Importing(j)
  BY <1>5, <1>7, <1>8
<1> QED BY <1>2, <1>4, <1>9

LEMMA AiRestartsKeeps ==
  ASSUME AiInv, AiRestarts
  PROVE  AiInv'
<1>1. PICK start, map :
        start = StartJob(map) /\ asking' = [w \in DOMAIN asking |-> IF w = 0 THEN start ELSE NoAiJob]
  BY DEF AiRestarts
<1>2. /\ aiWorld' = aiWorld /\ settings' = settings /\ pages' = pages /\ configMu' = 0 /\ asked' = asked
      /\ answered' = answered /\ recent' = recent /\ mine' = mine /\ adopted' = adopted /\ drafts' = drafts
      /\ asking' = [w \in DOMAIN asking |-> IF w = 0 THEN start ELSE NoAiJob]
  BY <1>1 DEF AiRestarts, SameAi, promises
<1>3. DOMAIN asking = AiAll
  BY DEF AiInv, AiAll
<1>4. AiStore' /\ AiIsSound'
  BY <1>2 DEF AiInv, AiStore, Remembers, ReadKey, Known, AiIsSound, HistoryIsKept, AskedWhatItCan, AnswersAreWhole,
       AnswerParts, SettingsAreMine, ImportIsComplete, PromptsAreKept, Prompts
<1>5. IsAiJob(start) /\ Importing(start)
  BY <1>1, StartIsSound DEF AiInv
<1>6. AiJobIsSound(0)'
  <2>1. /\ start.at = "write" /\ start.auto = <<>>
        /\ \A op \in start.writes :
             /\ op.otherwise = "stop"
             /\ \/ op.op = "missing" /\ op.key \in DOMAIN aiWorld.legacy /\ op.order \in 1 .. 6
                \/ op.op = "put" /\ op.key = Marker /\ op.order = 7
        /\ start.writes # {} => \A key \in DOMAIN aiWorld.legacy :
             key \in adopted \/ \E op \in start.writes : op.key = key /\ op.op = "missing"
    BY <1>5 DEF Importing
  <2>2. 0 \in AiAll
    BY WorldFacts DEF AiAll, AiInv
  <2>3. asking'[0] = start
    BY <1>2, <1>3, <2>2
  <2>4. Importing(asking[0])'
    <3>1. Marker' = Marker
      BY DEF Marker
    <3>2. aiWorld' = aiWorld /\ adopted' = adopted
      BY <1>2
    <3>3. PICK s : s = asking'[0]
      OBVIOUS
    <3>4. s = start
      BY <2>3, <3>3
    <3>5. /\ s.at = "write" /\ s.auto = <<>>
          /\ \A op \in s.writes :
               /\ op.otherwise = "stop"
               /\ \/ op.op = "missing" /\ op.key \in DOMAIN aiWorld'.legacy /\ op.order \in 1 .. 6
                  \/ op.op = "put" /\ op.key = Marker' /\ op.order = 7
          /\ s.writes # {} => \A key \in DOMAIN aiWorld'.legacy :
               key \in adopted' \/ \E op \in s.writes : op.key = key /\ op.op = "missing"
      BY <2>1, <3>1, <3>2, <3>4
    <3> QED BY <3>3, <3>5 DEF Importing
  <2> QED BY <1>5, <2>3, <2>4 DEF AiJobIsSound
<1>7. \A w \in AiAll : w # 0 => AiJobIsSound(w)'
  BY <1>2, <1>3 DEF AiJobIsSound
<1>8. \A w \in AiAll : AiJobIsSound(w)'
  BY <1>6, <1>7
<1> QED BY <1>2, <1>3, <1>4, <1>8 DEF AiInv, AiAll

LEMMA AiStarts ==
  ASSUME NEW world \in AiWorlds, AiInit(world)
  PROVE  AiInv
<1>1. /\ aiWorld = world /\ settings = world.settings /\ configMu = 0
      /\ asking = [w \in 0 .. world.workers |-> IF w = 0 THEN StartJob(settings) ELSE NoAiJob]
      /\ pages = <<>> /\ asked = {} /\ answered = {} /\ mine = <<>> /\ drafts = {}
      /\ adopted = IF Known(settings, Marker) THEN DOMAIN world.legacy ELSE {}
      /\ recent = [chat \in AiChats |-> <<>>]
  BY DEF AiInit
<1>2. MaxHistory \in Nat /\ world.workers \in Nat /\ Histories(world.settings)
  BY AiAssumption
<1>3. \A chat \in AiChats : recent[chat] = <<>>
  BY <1>1
<1>4. <<>> \in Seq(AiMessages) /\ Len(<<>>) <= MaxHistory /\ <<>> \in Seq(AiQuestions)
  BY <1>2
<1>5. DOMAIN mine = {}
  BY <1>1
<1>6. AiStore
  BY <1>1, <1>2, <1>3, <1>4, <1>5 DEF AiStore
<1>7. AiIsSound
  <2>1. HistoryIsKept
    BY <1>1, <1>3 DEF HistoryIsKept
  <2>2. AskedWhatItCan /\ AnswersAreWhole /\ PromptsAreKept
    BY <1>1 DEF AskedWhatItCan, AnswersAreWhole, PromptsAreKept
  <2>3. SettingsAreMine
    BY <1>5 DEF SettingsAreMine
  <2>4. ImportIsComplete
    BY <1>1 DEF ImportIsComplete
  <2> QED BY <2>1, <2>2, <2>3, <2>4 DEF AiIsSound
<1>8. asking = [w \in 0 .. aiWorld.workers |-> asking[w]]
  BY <1>1
<1>9. \A w \in 0 .. aiWorld.workers : AiJobIsSound(w)
  <2> SUFFICES ASSUME NEW w \in 0 .. aiWorld.workers
               PROVE  AiJobIsSound(w)
    OBVIOUS
  <2>1. CASE w = 0
    <3>1. asking[w] = StartJob(settings)
      BY <1>1, <2>1
    <3>2. IsAiJob(StartJob(settings)) /\ Importing(StartJob(settings))
      BY <1>6, StartIsSound
    <3> QED BY <2>1, <3>1, <3>2 DEF AiJobIsSound
  <2>2. CASE w # 0
    <3>1. asking[w] = NoAiJob
      BY <1>1, <2>2
    <3> QED BY <3>1 DEF AiJobIsSound
  <2> QED BY <2>1, <2>2
<1> QED BY <1>6, <1>7, <1>8, <1>9 DEF AiInv

LEMMA AiStutters ==
  ASSUME AiInv, UNCHANGED aiVars
  PROVE  AiInv'
<1>1. /\ aiWorld' = aiWorld /\ settings' = settings /\ pages' = pages /\ configMu' = configMu /\ asked' = asked
      /\ answered' = answered /\ recent' = recent /\ mine' = mine /\ adopted' = adopted /\ drafts' = drafts
      /\ asking' = asking
  BY DEF aiVars
<1>2. AiStore' /\ AiIsSound'
  BY <1>1 DEF AiInv, AiStore, Remembers, ReadKey, Known, AiIsSound, HistoryIsKept, AskedWhatItCan, AnswersAreWhole,
       AnswerParts, SettingsAreMine, ImportIsComplete, PromptsAreKept, Prompts
<1>3. \A w \in AiAll : AiJobIsSound(w)'
  <2>1. \A w \in AiAll : AiJobIsSound(w)
    BY DEF AiInv, AiAll
  <2> QED BY <1>1, <2>1 DEF AiJobIsSound, Importing, Working, Holding, Showing, OnPage, AnswerParts, Marker
<1> QED BY <1>1, <1>2, <1>3 DEF AiInv, AiAll

\* The plugin's invariant: what is stored is what was promised, an unfinished
\* import still holds all that is not adopted, and what the job with the
\* mutex writes goes on from what is stored, unless its read has failed.
THEOREM AiInvariance == AiSpec => []AiInv
<1>1. (\E world \in AiWorlds : AiInit(world)) => AiInv
  BY AiStarts
<1>2. AiInv /\ [AiNext]_aiVars => AiInv'
  <2> SUFFICES ASSUME AiInv, [AiNext]_aiVars
               PROVE  AiInv'
    OBVIOUS
  <2>1. CASE UNCHANGED aiVars
    BY <2>1, AiStutters
  <2>2. CASE AiRestarts
    BY <2>2, AiRestartsKeeps
  <2>3. ASSUME NEW w \in 0 .. aiWorld.workers, WriteKey(w) \/ AutoConfigureModels(w)
        PROVE  AiInv'
    <3>1. CASE w = 0
      BY <2>3, <3>1, ImportWriteKeeps, AutoOfImportKeeps
    <3>2. CASE w # 0
      <4>1. w \in AiWorkers
        BY <3>2, WorldFacts DEF AiInv, AiWorkers
      <4> QED BY <2>3, <4>1, OwnWriteKeeps, AutoConfigureModelsKeeps
    <3> QED BY <3>1, <3>2
  <2>4. ASSUME NEW w \in AiWorkers,
               \/ HandleAi(w) \/ GivesUp(w) \/ Decide(w) \/ FetchModels(w)
               \/ LoadPrompts(w) \/ RefusePrompt(w) \/ SavePrompts(w) \/ ReplacePrompts(w)
        PROVE  AiInv'
    BY <2>4, HandleAiKeeps, GivesUpKeeps, DecideKeeps, FetchModelsKeeps,
       LoadPromptsKeeps, RefusePromptKeeps, SavePromptsKeeps, ReplacePromptsKeeps
  <2>5. ASSUME NEW w \in AiWorkers,
               \/ Ask(w) \/ Choose(w) \/ RequestConfigFor(w) \/ CallText(w) \/ CallMedia(w) \/ SendGeneratedFile(w)
               \/ CheckContext(w) \/ LoadHistory(w) \/ AppendHistory(w)
        PROVE  AiInv'
    BY <2>5, AskKeeps, ChooseKeeps, RequestConfigForKeeps, CallTextKeeps, CallMediaKeeps, SendGeneratedFileKeeps,
       CheckContextKeeps, LoadHistoryKeeps, AppendHistoryKeeps
  <2>6. ASSUME NEW w \in AiWorkers,
               \/ PublishLongAnswer(w) \/ TelegraphToken(w) \/ CreateTelegraphPage(w) \/ LoadPosts(w) \/ SavePost(w)
               \/ LoadDeletedPosts(w) \/ SaveDeletedPosts(w) \/ FinishAnswerHTML(w) \/ FinishText(w)
        PROVE  AiInv'
    BY <2>6, PublishLongAnswerKeeps, TelegraphTokenKeeps, CreateTelegraphPageKeeps, LoadPostsKeeps, SavePostKeeps,
       LoadDeletedPostsKeeps, SaveDeletedPostsKeeps, FinishAnswerHTMLKeeps, FinishTextKeeps
  <2>7. \/ UNCHANGED aiVars \/ AiRestarts
        \/ \E w \in 0 .. aiWorld.workers : WriteKey(w) \/ AutoConfigureModels(w)
        \/ \E w \in AiWorkers :
             \/ HandleAi(w) \/ GivesUp(w) \/ Decide(w) \/ FetchModels(w)
             \/ LoadPrompts(w) \/ RefusePrompt(w) \/ SavePrompts(w) \/ ReplacePrompts(w)
        \/ \E w \in AiWorkers :
             \/ Ask(w) \/ Choose(w) \/ RequestConfigFor(w) \/ CallText(w) \/ CallMedia(w) \/ SendGeneratedFile(w)
             \/ CheckContext(w) \/ LoadHistory(w) \/ AppendHistory(w)
        \/ \E w \in AiWorkers :
             \/ PublishLongAnswer(w) \/ TelegraphToken(w) \/ CreateTelegraphPage(w) \/ LoadPosts(w) \/ SavePost(w)
             \/ LoadDeletedPosts(w) \/ SaveDeletedPosts(w) \/ FinishAnswerHTML(w) \/ FinishText(w)
    BY Zenon DEF AiNext
  <2> QED BY <2>1, <2>2, <2>3, <2>4, <2>5, <2>6, <2>7
<1> QED BY <1>1, <1>2, PTL DEF AiSpec

\* However commands, failures and restarts meet: a chat's history ends with
\* all that was kept while it was remembered, a provider is asked only for
\* what it can, an answer is whole, a setting stays until a command writes
\* it, the import is marked done when it is, and a saved prompt stays; a
\* history or the prompts begin anew where a read of them has failed.
THEOREM AiStaysSound == AiSpec => []AiIsSound
<1>1. AiInv => AiIsSound
  BY DEF AiInv
<1> QED BY <1>1, AiInvariance, PTL
=============================================================================
