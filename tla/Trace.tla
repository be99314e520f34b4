------------------------------- MODULE Trace -------------------------------
(***************************************************************************)
(* The trace plugin: rules that say with which reactions messages of a     *)
(* user, or with a keyword, are answered.  The rules are in memory, under  *)
(* one mutex, and every change is stored as a whole while it is held; the  *)
(* answer to the owner comes after it.  A row that is no JSON, which the   *)
(* program does not write, is left out, as are the texts of the answers    *)
(* and their removal after some seconds.                                   *)
(***************************************************************************)
EXTENDS Naturals, Sequences, FiniteSetsExt

CONSTANTS
  Tracers,     \* workers
  MaxTrace,    \* bound: commands and messages
  TraceFaults, \* bound: failures and restarts
  NoTrace,     \* nothing to do, nobody
  NoRules,     \* no row, or no file
  Broken,      \* a file that cannot be read
  Reactions,   \* what a message is answered with
  TraceWorlds  \* the worlds to begin in, see TraceInit

VARIABLES
  traceWorld,
  rules,   \* in memory
  traceRow, \* the stored rules
  said,    \* [key -> the values the owner's commands and their answers allow]
  tracing, \* [worker -> its command or message]
  traceMu, \* the worker that holds the mutex to write
  traceUp, \* the plugin has been started
  traceSpent
traceVars == <<traceWorld, rules, traceRow, said, tracing, traceMu, traceUp, traceSpent>>

Config == {"keep", "big"}
Silent == "silent"
defaultState == [user |-> Silent, alpha |-> Silent, beta |-> Silent, keep |-> TRUE, big |-> TRUE]
RuleKeys == DOMAIN defaultState
RuleSets ==
  [user : Reactions \cup {Silent}, alpha : Reactions \cup {Silent}, beta : Reactions \cup {Silent}, keep : BOOLEAN, big : BOOLEAN]
\* What a source decodes to has a value for each rule, and so has a command.
ASSUME TraceAssumption ==
  /\ NoTrace \notin Tracers /\ {NoRules, Broken} \cap RuleSets = {}
  /\ \A world \in TraceWorlds :
       /\ DOMAIN world.sources \subseteq Nat /\ \A i \in DOMAIN world.sources : world.sources[i] \in RuleSets \cup {NoRules, Broken}
       /\ \A c \in world.commands :
            \/ c.key \in {"clean", "reset"}
            \/ c.key \in Config /\ c.value \in BOOLEAN
            \/ c.key \in RuleKeys \ Config /\ c.value \in Reactions \cup {Silent}
TraceFine == UNCHANGED traceSpent
TraceFault == traceSpent.faults < TraceFaults /\ traceSpent' = [traceSpent EXCEPT !.faults = @ + 1]
TraceIdle == [w \in Tracers |-> NoTrace]
TraceAt(w, at) == traceUp /\ tracing[w] # NoTrace /\ tracing[w].at = at
TraceGo(w, at) == tracing' = [tracing EXCEPT ![w].at = at]
TraceEnds(w) == tracing' = [tracing EXCEPT ![w] = NoTrace]

\* The predecessor's rules: the first place that has a file decides, also when it cannot be read.
loadLegacyState ==
  LET there == {i \in DOMAIN traceWorld.sources : traceWorld.sources[i] # NoRules} IN
  IF there = {} THEN NoRules ELSE traceWorld.sources[Min(there)]

\* world: [sources, commands, texts]: the places the predecessor's rules may
\* be at, in their order, each NoRules, Broken or rules; what the owner
\* types; what messages have: the user's or another's, and words
TraceInit(world) ==
  /\ traceWorld = world /\ rules = defaultState /\ traceRow = NoRules /\ tracing = TraceIdle
  /\ traceMu = NoTrace /\ traceUp = FALSE /\ traceSpent = [orders |-> 0, faults |-> 0]
  /\ said = [k \in RuleKeys |-> {defaultState[k]} \cup
       (IF loadLegacyState \in {NoRules, Broken} THEN {} ELSE {loadLegacyState[k]})]
-----------------------------------------------------------------------------
(* The start, and what ends it.                                            *)

\* A call that fails may have been carried out: its answer is what is lost.
TraceStored(next) == TraceFine /\ traceRow' = next
TraceLost(next) == TraceFault /\ traceRow' \in {traceRow, next}

TraceStarts ==
  /\ ~traceUp /\ traceRow # NoRules /\ rules' = traceRow /\ traceUp' = TRUE /\ TraceFine
  /\ UNCHANGED <<traceWorld, traceRow, said, tracing, traceMu>>
\* A bug: rules that have all been removed count as none.
NoRuleStored == IF traceRow = NoRules THEN TRUE ELSE \A k \in RuleKeys \ Config : traceRow[k] = Silent
NothingStored == traceRow = NoRules
TraceImports ==
  /\ ~traceUp /\ NothingStored /\ loadLegacyState # Broken
  /\ IF loadLegacyState = NoRules
     THEN rules' = defaultState /\ traceUp' = TRUE /\ TraceFine /\ UNCHANGED <<traceRow, said>>
     ELSE \/ /\ TraceStored(loadLegacyState) /\ rules' = loadLegacyState /\ traceUp' = TRUE
             /\ said' = [k \in RuleKeys |-> said[k] \cap {loadLegacyState[k]}]
          \/ TraceLost(loadLegacyState) /\ UNCHANGED <<rules, traceUp, said>>
  /\ UNCHANGED <<traceWorld, tracing, traceMu>>
TraceRestarts ==
  /\ TraceFault /\ traceUp' = FALSE /\ rules' = defaultState /\ tracing' = TraceIdle /\ traceMu' = NoTrace
  /\ UNCHANGED <<traceWorld, traceRow, said>>
-----------------------------------------------------------------------------
(* The owner's commands.                                                   *)

\* Who replies to a message names its sender, for whom the plugin has to ask.
TraceHandle(w) == \E c \in traceWorld.commands :
  /\ traceUp /\ tracing[w] = NoTrace /\ traceSpent.orders < MaxTrace
  /\ traceSpent' = [traceSpent EXCEPT !.orders = @ + 1]
  /\ tracing' = [tracing EXCEPT ![w] = [at |-> IF c.key = "user" THEN "replied" ELSE "change", cmd |-> c]]
  /\ UNCHANGED <<traceWorld, rules, traceRow, said, traceMu, traceUp>>
repliedUserID(w) ==
  /\ TraceAt(w, "replied")
  /\ \/ TraceFine /\ TraceGo(w, "change")
     \/ TraceFault /\ TraceGo(w, "answer")
  /\ UNCHANGED <<traceWorld, rules, traceRow, said, traceMu, traceUp>>

\* A bug: clean takes the settings with it.
CleanAll(s) == defaultState
Cleaned(s) == [k \in RuleKeys |-> IF k \in Config THEN s[k] ELSE defaultState[k]]
Changed(c, s) == CASE c.key = "clean" -> Cleaned(s)
                   [] c.key = "reset" -> defaultState
                   [] OTHER -> [s EXCEPT ![c.key] = c.value]
\* What the command is about, and what the owner wants there.
Touched(c) == CASE c.key = "clean" -> RuleKeys \ Config
                [] c.key = "reset" -> RuleKeys
                [] OTHER -> {c.key}
Wanted(c, k) == IF c.key \in {"clean", "reset"} THEN defaultState[k] ELSE c.value
\* A bug: the mutex is given up before the rules are stored.
AnyTime(w) == TRUE
MutexFree(w) == traceMu = NoTrace
Change(w) ==
  /\ TraceAt(w, "change") /\ MutexFree(w)
  /\ LET c == tracing[w].cmd IN
       \* A user who is not traced is not removed.
       IF c.key = "user" /\ c.value = Silent /\ rules.user = Silent
       THEN TraceGo(w, "answer") /\ UNCHANGED <<rules, said, traceMu>>
       ELSE /\ rules' = Changed(c, rules) /\ traceMu' = w
            /\ tracing' = [tracing EXCEPT ![w] = [at |-> "store", cmd |-> c, raw |-> rules']]
            /\ said' = [k \in RuleKeys |-> said[k] \cup (IF k \in Touched(c) THEN {Wanted(c, k)} ELSE {})]
  /\ TraceFine /\ UNCHANGED <<traceWorld, traceRow, traceUp>>
persistLocked(w) ==
  /\ TraceAt(w, "store") /\ traceMu' = NoTrace
  /\ LET c == tracing[w].cmd IN
       \/ /\ TraceStored(tracing[w].raw)
          /\ said' = [k \in RuleKeys |-> IF k \in Touched(c) THEN {Wanted(c, k)} ELSE said[k]]
          /\ TraceGo(w, IF c.key = "user" /\ c.value # Silent THEN "react" ELSE "answer")
       \/ TraceLost(tracing[w].raw) /\ TraceGo(w, "answer") /\ UNCHANGED said
  /\ UNCHANGED <<traceWorld, rules, traceUp>>
\* The first reaction may fail and is answered all the same; big and keep are read for it.
SendInitial(w) ==
  /\ TraceAt(w, "react") /\ traceMu = NoTrace /\ TraceGo(w, "answer") /\ TraceFine
  /\ UNCHANGED <<traceWorld, rules, traceRow, said, traceMu, traceUp>>
TraceAnswer(w) ==
  /\ TraceAt(w, "answer") /\ traceMu = NoTrace /\ TraceEnds(w) /\ TraceFine
  /\ UNCHANGED <<traceWorld, rules, traceRow, said, traceMu, traceUp>>
-----------------------------------------------------------------------------
(* Messages: the rule of the user, or that of the first keyword.           *)

OnMessage(w) == \E m \in traceWorld.texts :
  /\ traceUp /\ tracing[w] = NoTrace /\ traceMu = NoTrace /\ traceSpent.orders < MaxTrace
  /\ traceSpent' = [traceSpent EXCEPT !.orders = @ + 1]
  /\ LET words == {k \in m.words : rules[k] # Silent}
         reaction == IF m.traced /\ rules.user # Silent THEN rules.user
                     ELSE IF "alpha" \in words THEN rules.alpha ELSE IF "beta" \in words THEN rules.beta ELSE Silent IN
       /\ reaction # Silent
       /\ tracing' = [tracing EXCEPT ![w] = [at |-> "send", reaction |-> reaction, big |-> rules.big]]
  /\ UNCHANGED <<traceWorld, rules, traceRow, said, traceMu, traceUp>>
SendReaction(w) ==
  /\ TraceAt(w, "send") /\ TraceEnds(w) /\ TraceFine
  /\ UNCHANGED <<traceWorld, rules, traceRow, said, traceMu, traceUp>>

TraceNext ==
  \/ TraceStarts \/ TraceImports \/ TraceRestarts
  \/ \E w \in Tracers :
       \/ TraceHandle(w) \/ repliedUserID(w) \/ Change(w) \/ persistLocked(w) \/ SendInitial(w) \/ TraceAnswer(w)
       \/ OnMessage(w) \/ SendReaction(w)
TraceSpec == (\E world \in TraceWorlds : TraceInit(world)) /\ [][TraceNext]_traceVars
-----------------------------------------------------------------------------
(* What was answered holds: whatever two workers, failed writes, lost      *)
(* answers and restarts did, memory and row have for every rule and        *)
(* setting what the last command that succeeded made it, or what one that  *)
(* failed since then would have; the predecessor's rules are there until   *)
(* they are changed, and once removed do not come back.                    *)
Allowed(s) == \A k \in RuleKeys : s[k] \in said[k]
RulesAreKept == (traceRow # NoRules => Allowed(traceRow)) /\ (traceUp => Allowed(rules))
=============================================================================
