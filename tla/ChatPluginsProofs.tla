------------------------- MODULE ChatPluginsProofs -------------------------
(***************************************************************************)
(* Theorems about the plugins an owner keeps his chats with.               *)
(*                                                                         *)
(* PMCaptcha, for any strangers, workers, timers, settings, floods and     *)
(* faults: nothing of the account is lost to a flood; a question is ended  *)
(* once, or twice if it was brought back, and always runs out.  For that a *)
(* number is one person's and in the hands of one thread that sends it,    *)
(* and what has ended is nowhere but with that thread.                     *)
(*                                                                         *)
(* Trace, for any rules, rows and workers: the rules in memory and in the  *)
(* row are ones the answers allow.  The invariant says what the holder of  *)
(* the mutex is about to store, and what it will answer.                   *)
(*                                                                         *)
(* Search, for any channels, posts and words: the stored list is sound and *)
(* is what the owner was told, nothing that was asked for is missed and    *)
(* nothing else is sent.  The invariant says what each command's copy of   *)
(* the list is made of, and what a search has seen so far.                 *)
(*                                                                         *)
(* Moderation, for any messages, chats and page size: only messages asked  *)
(* for are deleted, and counts add up.  The invariant says what is behind  *)
(* the offset of a search through the history, and what the list of        *)
(* managed chats has seen.                                                 *)
(***************************************************************************)
EXTENDS PMCaptcha, ChatTools, TLAPS, FiniteSetTheorems, SequenceTheorems, WellFoundedInduction

Critical == Beginning \cup Restoring

-----------------------------------------------------------------------------
(* What the parts of the actions do to the values.                         *)

LEMMA RestingIsJob == IsJob(Resting) /\ Resting.at = "idle"
BY DEF IsJob, Resting, Restoring

LEMMA GotoEffect ==
  ASSUME Shape, NEW t \in Threads, NEW step, Goto(t, step)
  PROVE  /\ jobs' = [s \in Threads |-> jobs'[s]]
         /\ \A s \in Threads : s # t => jobs'[s] = jobs[s]
         /\ step # "done" => jobs'[t] = [jobs[t] EXCEPT !.at = step]
         /\ step = "done" /\ jobs[t].flood # Nothing => jobs'[t] = [jobs[t] EXCEPT !.at = "next"]
         /\ step = "done" /\ jobs[t].flood = Nothing => jobs'[t] = Resting
BY DEF Shape, Goto

\* A step to somewhere else with the same record.
LEMMA GotoStep ==
  ASSUME Shape, NEW t \in Threads, NEW step, Goto(t, step), step # "done"
  PROVE  /\ jobs'[t].at = step
         /\ jobs'[t].user = jobs[t].user /\ jobs'[t].c = jobs[t].c
         /\ jobs'[t].config = jobs[t].config /\ jobs'[t].users = jobs[t].users
         /\ jobs'[t].flood = jobs[t].flood
         /\ jobs'[t] = [jobs[t] EXCEPT !.at = step]
         /\ jobs'[t] = [at |-> jobs'[t].at, user |-> jobs'[t].user, c |-> jobs'[t].c,
                        says |-> jobs'[t].says, config |-> jobs'[t].config,
                        users |-> jobs'[t].users, flood |-> jobs'[t].flood]
<1>1. jobs'[t] = [jobs[t] EXCEPT !.at = step]
  BY GotoEffect
<1>2. IsJob(jobs[t])
  BY DEF Shape
<1> QED BY <1>1, <1>2 DEF IsJob

\* The steps about which IsJob says something.
Telling == {"rules", "observe", "punish", "notice", "reopen", "block", "keepAuto"} \cup Restoring

LEMMA JobWith ==
  ASSUME NEW j, IsJob(j), NEW step, step \notin Telling, NEW c
  PROVE  LET k == [[j EXCEPT !.at = step] EXCEPT !.c = c] IN IsJob(k) /\ k.at = step
<1> DEFINE r == [j EXCEPT !.at = step]
<1>1. r = [at |-> step, user |-> j.user, c |-> j.c, says |-> j.says, config |-> j.config,
           users |-> j.users, flood |-> j.flood]
  BY DEF IsJob
<1> DEFINE k == [r EXCEPT !.c = c]
<1> HIDE DEF r
<1>2. k = [at |-> step, user |-> j.user, c |-> c, says |-> j.says, config |-> j.config,
           users |-> j.users, flood |-> j.flood]
  BY <1>1
<1> HIDE DEF k
<1>3. IsJob(k) /\ k.at = step
  BY <1>2 DEF IsJob, Telling
<1> QED BY <1>3 DEF k, r

LEMMA GotoDone ==
  ASSUME Shape, NEW t \in Threads, Goto(t, "done")
  PROVE  /\ jobs'[t].at \in {"idle", "next"}
         /\ IsJob(jobs'[t])
<1>1. CASE jobs[t].flood # Nothing
  <2>1. jobs'[t] = [jobs[t] EXCEPT !.at = "next"] /\ IsJob(jobs[t])
    BY <1>1, GotoEffect DEF Shape
  <2> QED BY <2>1 DEF IsJob, Restoring
<1>2. CASE jobs[t].flood = Nothing
  <2>1. jobs'[t] = Resting BY <1>2, GotoEffect
  <2> QED BY <2>1, RestingIsJob
<1> QED BY <1>1, <1>2

\* A thread goes on, to a step about which there is nothing to say.
LEMMA GotoOn ==
  ASSUME Shape, NEW t \in Threads, NEW step, Goto(t, step), step \notin Telling
  PROVE  /\ jobs' = [s \in Threads |-> jobs'[s]]
         /\ \A s \in Threads : s # t => jobs'[s] = jobs[s]
         /\ \A s \in Threads : IsJob(jobs'[s])
         /\ IF step = "done" THEN jobs'[t].at \in {"idle", "next"} ELSE jobs'[t].at = step
         /\ step # "done" => jobs'[t].flood = jobs[t].flood /\ jobs'[t].c = jobs[t].c
<1>1. /\ jobs' = [s \in Threads |-> jobs'[s]]
      /\ \A s \in Threads : s # t => jobs'[s] = jobs[s]
  BY GotoEffect
<1>2. CASE step = "done"
  BY <1>1, <1>2, GotoDone DEF Shape
<1>3. CASE step # "done"
  <2>1. IsJob(jobs'[t])
    BY <1>3, GotoStep DEF IsJob, Telling
  <2> QED BY <1>1, <1>3, <2>1, GotoStep DEF Shape
<1> QED BY <1>2, <1>3

LEMMA WriteEffect ==
  ASSUME Shape, NEW new, IsState(new), Write(new)
  PROVE  /\ mem' = new /\ IsState(mem') /\ IsState(row')
         /\ row' = IF Saved THEN new ELSE row
         /\ faults' \in Nat
BY DEF Shape, Write, Saved, CanFail

LEMMA CanFailCounts == ASSUME Shape, CanFail PROVE faults' \in Nat /\ ~Saved
BY DEF Shape, CanFail, Saved

\* The account as far as floods are concerned is as it was, and so is the past.
SameAccount ==
  /\ account' = [blocked |-> account'.blocked, archived |-> account'.archived,
                 auto |-> account'.auto, name |-> account'.name, channel |-> account'.channel]
  /\ account'.auto = account.auto /\ account'.name = account.name
PastKept ==
  /\ past' = [ended |-> past'.ended, revived |-> past'.revived, untimed |-> past'.untimed,
              crossed |-> past'.crossed, unsaved |-> past'.unsaved, cut |-> past'.cut, auto |-> past'.auto]
  /\ past'.auto = past.auto /\ (past.cut => past'.cut)

LEMMA PastSteps ==
  ASSUME Shape
  PROVE  /\ UNCHANGED past => PastKept /\ past'.cut = past.cut
         /\ Remember => PastKept /\ past'.cut = past.cut
         /\ RememberCut => PastKept /\ past'.cut = (past.cut \/ ~Saved)
<1>1. past = [ended |-> past.ended, revived |-> past.revived, untimed |-> past.untimed,
              crossed |-> past.crossed, unsaved |-> past.unsaved, cut |-> past.cut, auto |-> past.auto]
  BY DEF Shape
<1>2. UNCHANGED past => PastKept /\ past'.cut = past.cut
  BY <1>1 DEF PastKept
<1>3. Remember => PastKept /\ past'.cut = past.cut
  BY <1>1 DEF PastKept, Remember
<1>4. RememberCut => PastKept /\ past'.cut = (past.cut \/ ~Saved)
  BY <1>1 DEF PastKept, RememberCut
<1> QED BY <1>2, <1>3, <1>4

\* Two fields of the past that say nothing of the account.
LEMMA PastWith ==
  ASSUME Shape, NEW a, NEW b
  PROVE  /\ past' = [past EXCEPT !.revived = a, !.unsaved = b] => PastKept /\ past'.cut = past.cut
         /\ past' = [past EXCEPT !.untimed = a, !.crossed = b] => PastKept /\ past'.cut = past.cut
         /\ past' = [past EXCEPT !.untimed = a] => PastKept /\ past'.cut = past.cut
         /\ past' = [past EXCEPT !.ended = a, !.unsaved = b] => PastKept /\ past'.cut = past.cut
BY DEF Shape, PastKept

LEMMA AccountSteps ==
  ASSUME Shape
  PROVE  /\ UNCHANGED account => SameAccount
         /\ \A u : \A yes \in BOOLEAN : account' = Archived(u, yes) => SameAccount
         /\ \A u : \A yes \in BOOLEAN : account' = Blocked(u, yes) => SameAccount
         /\ \A u : account' = Erased(u) => SameAccount
<1>1. account = [blocked |-> account.blocked, archived |-> account.archived, auto |-> account.auto,
                 name |-> account.name, channel |-> account.channel]
  BY DEF Shape
<1>2. UNCHANGED account => SameAccount
  BY <1>1 DEF SameAccount
<1>3. ASSUME NEW u, NEW yes \in BOOLEAN, account' = Archived(u, yes) PROVE SameAccount
  BY <1>1, <1>3 DEF SameAccount, Archived
<1>4. ASSUME NEW u, NEW yes \in BOOLEAN, account' = Blocked(u, yes) PROVE SameAccount
  BY <1>1, <1>4 DEF SameAccount, Blocked
<1>5. ASSUME NEW u, account' = Erased(u) PROVE SameAccount
  BY <1>1, <1>5 DEF SameAccount, Erased
<1> QED BY <1>2, <1>3, <1>4, <1>5

-----------------------------------------------------------------------------
(* Steps that have nothing to do with the beginning or the end of a flood. *)

\* The flags of a flood as far as the account depends on them.
SameFlags(f, g) == f.active = g.active /\ f.auto = g.auto /\ f.name = g.name

Aside ==
  /\ alive /\ alive' = alive /\ (quiet' => quiet)
  /\ SameFlags(mem'.flood, mem.flood)
  /\ SameFlags(row'.flood, row.flood) \/ SameFlags(row'.flood, mem.flood)
  /\ account'.auto = account.auto /\ account'.name = account.name
  /\ past'.auto = past.auto /\ past'.cut = past.cut
  /\ \A t \in Threads :
       jobs'[t] = jobs[t] \/ (jobs[t].at \notin Critical /\ jobs'[t].at \notin Critical)

LEMMA AsideKeeps ==
  ASSUME FloodInv, Aside
  PROVE  FloodInv'
<1> SUFFICES ASSUME ~past.cut
             PROVE  (FloodIsStored /\ OneBegins /\ OneRestores /\ SettingKept /\ NameKept)'
  BY DEF FloodInv, Aside
<1>1. FloodIsStored /\ OneBegins /\ OneRestores /\ SettingKept /\ NameKept
  BY DEF FloodInv
<1>2. /\ alive /\ alive' /\ (quiet' => quiet)
      /\ account'.auto = account.auto /\ account'.name = account.name /\ past'.auto = past.auto
      /\ mem'.flood.active = mem.flood.active /\ mem'.flood.auto = mem.flood.auto
      /\ mem'.flood.name = mem.flood.name
      /\ row'.flood.active = row.flood.active /\ row'.flood.auto = row.flood.auto
      /\ row'.flood.name \in {row.flood.name, mem.flood.name}
  BY <1>1 DEF Aside, FloodIsStored, SameFlags
<1>3. ASSUME NEW t \in Threads
      PROVE  /\ jobs'[t] = jobs[t] \/ (jobs[t].at \notin Critical /\ jobs'[t].at \notin Critical)
             /\ \A S \in SUBSET Critical : jobs'[t].at \in S <=> jobs[t].at \in S
             /\ jobs[t].at \in Critical => jobs'[t] = jobs[t]
  BY DEF Aside
<1>4. FloodIsStored'
  BY <1>1, <1>2 DEF FloodIsStored
<1>5. OneBegins'
  BY <1>1, <1>2, <1>3 DEF OneBegins, In, Critical
<1>6. OneRestores'
  BY <1>1, <1>2, <1>3 DEF OneRestores, In, Critical
<1>7. /\ {"readAuto", "keepAuto"} \subseteq Critical /\ {"keepAuto"} \subseteq Critical
      /\ {"giveBack"} \subseteq Critical /\ Beginning \ {"moveName", "undoName"} \subseteq Critical
      /\ {"dropName", "moveName", "undoName"} \subseteq Critical /\ {"takeName"} \subseteq Critical
      /\ {"giveBack", "freeName", "takeName"} \subseteq Critical
  BY DEF Critical, Beginning, Restoring
<1>8. SettingKept'
  <2>1. \/ row'.flood.active => row'.flood.auto = past'.auto
        \/ \E t \in Threads : jobs'[t].at \in {"readAuto", "keepAuto"}
    BY <1>1, <1>2, <1>3, <1>7 DEF SettingKept, In
  <2>2. \A t \in Threads : jobs'[t].at \in {"keepAuto"} => jobs'[t].c = past'.auto
    BY <1>1, <1>2, <1>3, <1>7 DEF SettingKept, In
  <2>3. account'.auto # past'.auto =>
          \/ row'.flood.active /\ \A t \in Threads : ~(jobs'[t].at \in {"readAuto", "keepAuto"})
          \/ \E t \in Threads : jobs'[t].at \in {"giveBack"}
    BY <1>1, <1>2, <1>3, <1>7 DEF SettingKept, In
  <2> QED BY <2>1, <2>2, <2>3 DEF SettingKept, In
<1>9. NameKept'
  <2>1. ASSUME NEW t \in Threads
        PROVE  /\ jobs'[t].at \in Beginning \ {"moveName", "undoName"} => account'.name = "account"
               /\ jobs'[t].at \in {"dropName", "moveName", "undoName"} =>
                    mem'.flood.name /\ row'.flood.name
               /\ jobs'[t].at \in {"takeName"} => account'.name # "channel"
    BY <1>1, <1>2, <1>3, <1>7 DEF NameKept, In
  <2>2. account'.name # "account" =>
          \/ row'.flood.active /\ row'.flood.name /\ (alive' => mem'.flood.name)
          \/ \E t \in Threads : /\ jobs'[t].at \in {"giveBack", "freeName", "takeName"}
                                /\ jobs'[t].flood.name
    BY <1>1, <1>2, <1>3, <1>7 DEF NameKept, In
  <2> QED BY <2>1, <2>2 DEF NameKept, In
<1> QED BY <1>4, <1>5, <1>6, <1>8, <1>9

\* What the threads do is of no concern to a flood.
JobsAside ==
  /\ jobs' = [t \in Threads |-> jobs'[t]] /\ \A t \in Threads : IsJob(jobs'[t])
  /\ \A t \in Threads :
       jobs'[t] = jobs[t] \/ (jobs[t].at \notin Critical /\ jobs'[t].at \notin Critical)

LEMMA StepAside ==
  ASSUME CaptchaInv, alive, alive' = alive, quiet' \in {quiet, FALSE}, faults' \in Nat,
         IsState(mem'), IsState(row'), SameFlags(mem'.flood, mem.flood),
         SameFlags(row'.flood, row.flood) \/ SameFlags(row'.flood, mem.flood),
         SameAccount, PastKept, past'.cut = past.cut, JobsAside
  PROVE  CaptchaInv'
<1>1. Shape'
  <2>1. alive' \in BOOLEAN /\ quiet' \in BOOLEAN /\ account'.auto \in BOOLEAN
    BY DEF CaptchaInv, Shape, SameAccount
  <2> QED BY <2>1 DEF Shape, SameAccount, PastKept, JobsAside
<1>2. Aside
  <2>1. quiet' => quiet
    BY DEF CaptchaInv, Shape
  <2> QED BY <2>1 DEF Aside, SameAccount, PastKept, JobsAside
<1> QED BY <1>1, <1>2, AsideKeeps DEF CaptchaInv

LEMMA GotoAside ==
  ASSUME Shape, NEW t \in Threads, NEW step, Goto(t, step), jobs[t].at \notin Critical,
         step \notin Critical \cup {"rules", "observe"},
         step \in {"punish", "notice", "reopen", "block"} => jobs[t].config.action \in Actions
  PROVE  JobsAside
<1>1. /\ jobs' = [s \in Threads |-> jobs'[s]]
      /\ \A s \in Threads : s # t => jobs'[s] = jobs[s] /\ IsJob(jobs[s])
  BY GotoEffect DEF Shape
<1>2. IsJob(jobs'[t]) /\ jobs'[t].at \notin Critical
  <2>1. CASE step = "done"
    BY <2>1, GotoDone DEF Critical, Beginning, Restoring
  <2>2. CASE step # "done"
    <3>1. jobs'[t].at = step /\ jobs'[t].config = jobs[t].config
      BY <2>2, GotoStep
    <3>2. step # "keepAuto" /\ step \notin Restoring
      BY DEF Critical, Beginning
    <3> QED BY <2>2, <3>1, <3>2, GotoStep DEF IsJob
  <2> QED BY <2>1, <2>2
<1> QED BY <1>1, <1>2 DEF JobsAside

\* A call about a chat.
LEMMA CallAside ==
  ASSUME CaptchaInv, NEW t \in Threads, NEW effect, NEW ok, NEW failed,
         Call(t, effect, ok, failed), alive, jobs[t].at \notin Critical,
         account' = effect => SameAccount,
         ok \notin Critical \cup {"rules", "observe"}, failed \notin Critical \cup {"rules", "observe"},
         ok \in {"punish", "notice", "reopen", "block"} \/ failed \in {"punish", "notice", "reopen", "block"}
           => jobs[t].config.action \in Actions
  PROVE  CaptchaInv'
<1>1. Shape BY DEF CaptchaInv
<1>2. /\ UNCHANGED <<alive, mem, row, quiet, past>>
      /\ Goto(t, ok) \/ Goto(t, failed)
      /\ SameAccount /\ faults' \in Nat
  BY <1>1, AccountSteps, CanFailCounts DEF Call, Quietly, state, timing, Shape
<1>3. JobsAside
  BY <1>1, <1>2, GotoAside
<1>4. PastKept /\ past'.cut = past.cut
  BY <1>1, <1>2, PastSteps
<1> QED BY <1>1, <1>2, <1>3, <1>4, StepAside DEF Shape, SameFlags

\* The state is changed, and stored if that succeeds.
LEMMA WriteAside ==
  ASSUME CaptchaInv, NEW new, Write(new), IsState(new), SameFlags(new.flood, mem.flood),
         alive, alive' = alive, quiet' \in {quiet, FALSE}, UNCHANGED account,
         PastKept, past'.cut = past.cut, JobsAside
  PROVE  CaptchaInv'
<1>1. Shape BY DEF CaptchaInv
<1>2. /\ mem' = new /\ IsState(mem') /\ IsState(row') /\ faults' \in Nat
      /\ row' = new \/ row' = row
  BY <1>1, WriteEffect
<1>3. SameAccount
  BY <1>1, AccountSteps
<1>4. SameFlags(row'.flood, row.flood) \/ SameFlags(row'.flood, mem.flood)
  BY <1>2 DEF SameFlags
<1> QED BY <1>2, <1>3, <1>4, StepAside

LEMMA PersistAside ==
  ASSUME CaptchaInv, NEW t \in Threads, NEW new, NEW ok, NEW failed,
         Persist(new, t, ok, failed), IsState(new), SameFlags(new.flood, mem.flood),
         alive, jobs[t].at \notin Critical, quiet' \in {quiet, FALSE}, PastKept, past'.cut = past.cut,
         ok \notin Critical \cup {"rules", "observe"}, failed \notin Critical \cup {"rules", "observe"},
         ok \in {"punish", "notice", "reopen", "block"} \/ failed \in {"punish", "notice", "reopen", "block"}
           => jobs[t].config.action \in Actions
  PROVE  CaptchaInv'
<1>1. Shape BY DEF CaptchaInv
<1>2. /\ Write(new) /\ UNCHANGED <<alive, account>>
      /\ Goto(t, ok) \/ Goto(t, failed)
  BY DEF Persist
<1>3. JobsAside
  BY <1>1, <1>2, GotoAside
<1> QED BY <1>2, <1>3, WriteAside

\* Nothing but the thread and what does not matter changes.
LEMMA QuietAside ==
  ASSUME CaptchaInv, UNCHANGED <<alive, quiet, mem, row, account>>, alive, faults' \in Nat,
         PastKept, past'.cut = past.cut, JobsAside
  PROVE  CaptchaInv'
BY StepAside, AccountSteps DEF CaptchaInv, Shape, SameFlags

\* The state with another question, list or configuration is still a state.
LEMMA StateSteps ==
  ASSUME Shape
  PROVE  /\ IsState(mem) /\ SameFlags(mem.flood, mem.flood)
         /\ \A v : LET new == [mem EXCEPT !.verified = v] IN
              IsState(new) /\ SameFlags(new.flood, mem.flood)
         /\ \A u, c : LET new == [mem EXCEPT !.pending[u] = c] IN
              IsState(new) /\ SameFlags(new.flood, mem.flood)
         /\ \A u, v : IsState(Over(u, v)) /\ SameFlags(Over(u, v).flood, mem.flood)
         /\ \A c : LET new == [mem EXCEPT !.config = c] IN
              c.action \in Actions => IsState(new) /\ SameFlags(new.flood, mem.flood)
<1> USE DEF SameFlags
<1>1. IsState(mem) BY DEF Shape
<1>2. ASSUME NEW v
      PROVE LET new == [mem EXCEPT !.verified = v] IN IsState(new) /\ SameFlags(new.flood, mem.flood)
  BY <1>1 DEF IsState
<1>3. ASSUME NEW u, NEW c
      PROVE LET new == [mem EXCEPT !.pending[u] = c] IN IsState(new) /\ SameFlags(new.flood, mem.flood)
  BY <1>1 DEF IsState
<1>4. ASSUME NEW u, NEW v
      PROVE IsState(Over(u, v)) /\ SameFlags(Over(u, v).flood, mem.flood)
  <2> DEFINE r == [mem EXCEPT !.pending[u] = Nothing]
  <2>1. Over(u, v) = [r EXCEPT !.verified = v]
    BY DEF Over
  <2>2. IsState(r) /\ r.flood = mem.flood
    BY <1>3
  <2> HIDE DEF r
  <2> QED BY <2>1, <2>2 DEF IsState
<1>5. ASSUME NEW c, c.action \in Actions
      PROVE LET new == [mem EXCEPT !.config = c] IN IsState(new) /\ SameFlags(new.flood, mem.flood)
  BY <1>1, <1>5 DEF IsState
<1> QED BY <1>1, <1>2, <1>3, <1>4, <1>5

-----------------------------------------------------------------------------
(* The steps of a handler that are aside.                                  *)

LEMMA VerdictIsStep ==
  \A config, u, says : Verdict(config, u, says) \in {"done", "punish", "trust", "observe"}
BY Zenon DEF Verdict

LEMMA AskingKeeps ==
  ASSUME CaptchaInv, NEW t \in Threads,
         \/ Trust(t) \/ PunishDirect(t) \/ AlreadyAsked(t) \/ Begin(t) \/ Archive(t) \/ Send(t)
         \/ RemoveChallenge(t) \/ Fallback(t) \/ Save(t) \/ Shut(t) \/ Schedule(t) \/ Rearm(t)
  PROVE  CaptchaInv'
<1>1. Shape BY DEF CaptchaInv
<1>2. /\ Remember => PastKept /\ past'.cut = past.cut
      /\ UNCHANGED past => PastKept /\ past'.cut = past.cut
      /\ faults \in Nat
  BY <1>1, PastSteps DEF Shape
<1> USE DEF Critical, Beginning, Restoring
<1>3. CASE Trust(t)
  <2> DEFINE new == [mem EXCEPT !.verified = @ \cup {jobs[t].user}]
  <2>1. /\ Persist(new, t, "done", "done") /\ alive /\ jobs[t].at = "trust" /\ quiet' = quiet
        /\ Remember
    BY <1>3 DEF Trust, At, timing
  <2>2. IsState(new) /\ SameFlags(new.flood, mem.flood)
    BY <1>1, StateSteps
  <2> HIDE DEF new
  <2> QED BY <1>2, <2>1, <2>2, PersistAside
<1>4. CASE PunishDirect(t)
  <2>1. /\ Persist(mem, t, "notice", "done") /\ alive /\ jobs[t].at = "punish" /\ quiet' = quiet
        /\ Remember /\ jobs[t].config.action \in Actions
    BY <1>1, <1>4 DEF PunishDirect, At, timing, Shape, IsJob
  <2> QED BY <1>1, <1>2, <2>1, PersistAside, StateSteps
<1>5. CASE AlreadyAsked(t)
  <2>1. /\ Goto(t, "done") /\ alive /\ jobs[t].at = "begin"
        /\ UNCHANGED <<alive, quiet, mem, row, account, past, faults>>
    BY <1>5 DEF AlreadyAsked, At, timing, Quietly, state
  <2>2. JobsAside
    BY <1>1, <2>1, GotoAside
  <2> QED BY <1>2, <2>1, <2>2, QuietAside
<1>6. CASE Begin(t)
  <2> DEFINE c == Question(jobs[t].config.type)
             new == [mem EXCEPT !.pending[jobs[t].user] = c]
  <2>1. /\ alive /\ jobs[t].at = "begin" /\ UNCHANGED <<alive, quiet, past, account>>
    BY <1>6 DEF Begin, At, timing
  <2>2. CASE UNCHANGED faults
    <3>1. /\ UNCHANGED faults /\ mem' = new /\ row' = mem'
          /\ jobs' = [jobs EXCEPT ![t].at = "archive", ![t].c = c]
      BY <1>6, <2>2, <1>2 DEF Begin, CanFail
    <3>2. IsState(new) /\ SameFlags(new.flood, mem.flood)
      BY <1>1, StateSteps
    <3>3. JobsAside
      <4> DEFINE j == [[jobs[t] EXCEPT !.at = "archive"] EXCEPT !.c = c]
      <4>1. jobs' = [jobs EXCEPT ![t] = j]
        BY <1>1, <3>1 DEF Shape
      <4>2. IsJob(j) /\ j.at = "archive"
        <5>1. IsJob(jobs[t]) /\ "archive" \notin Telling
          BY <1>1 DEF Shape, Telling
        <5> QED BY <5>1, JobWith
      <4> HIDE DEF j
      <4> QED BY <1>1, <2>1, <4>1, <4>2 DEF Shape, JobsAside
    <3> HIDE DEF new
    <3>4. SameAccount BY <1>1, <2>1, AccountSteps
    <3> QED BY <1>2, <2>1, <3>1, <3>2, <3>3, <3>4, StepAside
  <2>3. CASE ~UNCHANGED faults
    <3>1. CanFail /\ UNCHANGED <<mem, row>> /\ Goto(t, "done")
      BY <1>6, <2>3 DEF Begin
    <3>2. JobsAside
      BY <1>1, <2>1, <3>1, GotoAside
    <3>3. faults' \in Nat BY <1>1, <3>1, CanFailCounts
    <3> QED BY <1>2, <2>1, <3>1, <3>2, <3>3, QuietAside
  <2> QED BY <2>2, <2>3
<1>7. CASE Archive(t)
  <2> DEFINE effect == Archived(jobs[t].user, TRUE)
  <2>1. alive /\ jobs[t].at = "archive" /\ Call(t, effect, "send", "send")
    BY <1>7 DEF Archive, At
  <2>2. account' = effect => SameAccount
    BY <1>1, AccountSteps
  <2> HIDE DEF effect
  <2> QED BY <2>1, <2>2, CallAside
<1>8. CASE Send(t)
  <2>1. CASE jobs[t].c.type = "img"
    BY <1>1, <1>8, <2>1, CallAside, AccountSteps DEF Send, At
  <2>2. CASE jobs[t].c.type # "img"
    BY <1>1, <1>8, <2>2, CallAside, AccountSteps DEF Send, At
  <2> QED BY <2>1, <2>2
<1>9. CASE RemoveChallenge(t)
  <2> DEFINE new == [mem EXCEPT !.pending[jobs[t].user] = Nothing]
  <2>1. /\ Persist(new, t, "done", "done") /\ alive /\ jobs[t].at = "remove" /\ quiet' = quiet
        /\ Remember
    BY <1>9 DEF RemoveChallenge, At
  <2>2. IsState(new) /\ SameFlags(new.flood, mem.flood)
    BY <1>1, StateSteps
  <2> HIDE DEF new
  <2> QED BY <1>2, <2>1, <2>2, PersistAside
<1>10. CASE Fallback(t)
  <2>1. /\ alive /\ jobs[t].at = "fallback"
        /\ UNCHANGED <<alive, quiet, mem, row, account, past, faults>>
    BY <1>10 DEF Fallback, At, timing, state
  <2>2. JobsAside
    <3>1. CASE Goto(t, "done")
      BY <1>1, <2>1, <3>1, GotoAside
    <3>2. CASE ~Goto(t, "done")
      <4> DEFINE j == [[jobs[t] EXCEPT !.at = "send"] EXCEPT !.c = Question("math")]
      <4>1. jobs' = [jobs EXCEPT ![t].at = "send", ![t].c = Question("math")]
        BY <1>10, <3>2 DEF Fallback
      <4>2. jobs' = [jobs EXCEPT ![t] = j]
        BY <1>1, <4>1 DEF Shape
      <4>3. IsJob(j) /\ j.at = "send"
        BY <1>1, JobWith DEF Shape, Telling
      <4> HIDE DEF j
      <4>4. jobs = [s \in Threads |-> jobs[s]] /\ \A s \in Threads : IsJob(jobs[s])
        BY <1>1 DEF Shape
      <4>5. jobs'[t] = j /\ jobs' = [s \in Threads |-> jobs'[s]] /\ \A s \in Threads : s # t => jobs'[s] = jobs[s]
        BY <1>1, <4>2, <4>4
      <4>6. j.at \notin Critical /\ jobs[t].at \notin Critical
        BY <2>1, <4>3 DEF Critical, Beginning, Restoring
      <4> QED BY <4>3, <4>4, <4>5, <4>6, Zenon DEF JobsAside
    <3> QED BY <3>1, <3>2
  <2> QED BY <1>2, <2>1, <2>2, QuietAside
<1>11. CASE Save(t)
  <2> DEFINE c == [jobs[t].c EXCEPT !.answer = IF jobs[t].c.type = "math" THEN jobs[t].c.id ELSE 0]
             new == [mem EXCEPT !.pending[jobs[t].user] = c]
             ok == IF c.type = "img" THEN "shut" ELSE "arm"
  <2>1. /\ Persist(new, t, ok, "done") /\ alive /\ jobs[t].at = "save" /\ quiet' = quiet
        /\ past' = [past EXCEPT !.revived = IF past.ended[c.id] > 0 THEN @ \cup {c.id} ELSE @,
                               !.unsaved = @ \/ ~Saved]
    BY <1>11 DEF Save, At, timing
  <2>4. PastKept /\ past'.cut = past.cut
    BY <1>1, <2>1, PastWith DEF Shape
  <2>2. IsState(new) /\ SameFlags(new.flood, mem.flood)
    BY <1>1, StateSteps
  <2>3. ok \in {"shut", "arm"}
    OBVIOUS
  <2> HIDE DEF c, new, ok
  <2> QED BY <2>1, <2>2, <2>3, <2>4, PersistAside
<1>12. CASE Shut(t)
  <2> DEFINE effect == Blocked(jobs[t].user, TRUE)
  <2>1. alive /\ jobs[t].at = "shut" /\ Call(t, effect, "arm", "arm")
    BY <1>12 DEF Shut, At
  <2>2. account' = effect => SameAccount
    BY <1>1, AccountSteps
  <2> HIDE DEF effect
  <2> QED BY <2>1, <2>2, CallAside
<1>13. CASE Schedule(t) \/ Rearm(t)
  <2>1. /\ alive /\ jobs[t].at \in {"arm", "rearm"}
        /\ \E next \in ImageResults : Armed(t, next)
    BY <1>13 DEF Schedule, Rearm, At, ImageResults
  <2>2. PICK next \in ImageResults : Armed(t, next)
    BY <2>1
  <2>3. Goto(t, next) /\ UNCHANGED <<alive, quiet, mem, row, account, faults>>
    BY <2>2 DEF Armed, state
  <2>4. JobsAside
    BY <1>1, <2>1, <2>3, GotoAside DEF ImageResults
  <2>5. PastKept /\ past'.cut = past.cut
    BY <1>1, <2>2, PastWith DEF Armed
  <2> QED BY <1>2, <2>1, <2>3, <2>4, <2>5, QuietAside
<1> QED
  BY <1>3, <1>4, <1>5, <1>6, <1>7, <1>8, <1>9, <1>10, <1>11, <1>12, <1>13

LEMMA AnsweringKeeps ==
  ASSUME CaptchaInv, NEW t \in Threads,
         \/ Rules(t) \/ Verify(t) \/ Complete(t) \/ Open(t) \/ Release(t) \/ Fail(t) \/ Reopen(t)
         \/ Notice(t) \/ Block(t) \/ Finish(t) \/ ImageRetry(t) \/ ImageFallback(t) \/ AddVerified(t)
  PROVE  CaptchaInv'
<1>1. Shape BY DEF CaptchaInv
<1>2. /\ Remember => PastKept /\ past'.cut = past.cut
      /\ UNCHANGED past => PastKept /\ past'.cut = past.cut
      /\ faults \in Nat
      /\ \A u : Ends(u) => PastKept /\ past'.cut = past.cut
  <2>1. \A u : Ends(u) => PastKept /\ past'.cut = past.cut
    BY <1>1, PastWith DEF Ends
  <2> QED BY <1>1, <2>1, PastSteps DEF Shape
<1> USE DEF Critical, Beginning, Restoring
<1>3. CASE Rules(t)
  <2>1. /\ alive /\ jobs[t].at = "rules" /\ UNCHANGED <<alive, quiet, mem, row, account, past>>
        /\ faults' \in Nat
    BY <1>1, <1>3, CanFailCounts DEF Rules, At, timing, state, Quietly, Shape
  <2>2. JobsAside
    <3>1. CASE Goto(t, "done")
      BY <1>1, <2>1, <3>1, GotoAside
    <3>2. CASE ~Goto(t, "done")
      <4> DEFINE v == Verdict(mem.config, jobs[t].user, jobs[t].says)
                 r == [jobs[t] EXCEPT !.at = v]
                 j == IF v = "done" THEN Resting ELSE [r EXCEPT !.config = mem.config]
      <4>1. jobs' = [jobs EXCEPT ![t] = IF v = "done" THEN Resting
                                        ELSE [@ EXCEPT !.at = v, !.config = mem.config]]
        BY <1>3, <3>2 DEF Rules
      <4>2. v \in {"done", "punish", "trust", "observe"}
        BY VerdictIsStep
      <4> HIDE DEF v
      <4>3. jobs' = [jobs EXCEPT ![t] = j]
        BY <1>1, <4>1 DEF Shape
      <4>4. /\ IsJob(jobs[t]) /\ jobs[t].user \in Users
            /\ mem.config.action \in Actions
        BY <1>1, <2>1 DEF Shape, IsJob, IsState
      <4>5. r = [at |-> v, user |-> jobs[t].user, c |-> jobs[t].c, says |-> jobs[t].says,
                 config |-> jobs[t].config, users |-> jobs[t].users, flood |-> jobs[t].flood]
        BY <4>4 DEF IsJob
      <4> HIDE DEF r
      <4>6. [r EXCEPT !.config = mem.config] =
              [at |-> v, user |-> jobs[t].user, c |-> jobs[t].c, says |-> jobs[t].says,
               config |-> mem.config, users |-> jobs[t].users, flood |-> jobs[t].flood]
        BY <4>5
      <4>7. IsJob(j) /\ j.at \in {"idle", "punish", "trust", "observe"}
        <5>1. CASE v = "done"
          BY <5>1, RestingIsJob
        <5>2. CASE v # "done"
          BY <4>2, <4>4, <4>6, <5>2 DEF IsJob
        <5> QED BY <5>1, <5>2
      <4> HIDE DEF j
      <4> QED BY <1>1, <2>1, <4>3, <4>7 DEF Shape, JobsAside
    <3> QED BY <3>1, <3>2
  <2> QED BY <1>2, <2>1, <2>2, QuietAside
<1>4. CASE Verify(t)
  <2> DEFINE right == CASE jobs[t].c.type = "math" -> jobs[t].says.number = jobs[t].c.answer
                        [] OTHER -> jobs[t].says.sticker
             step == IF jobs[t].c.type = "img" THEN "done" ELSE IF right THEN "complete" ELSE "fail"
  <2>1. /\ alive /\ jobs[t].at = "verify" /\ Goto(t, step)
        /\ UNCHANGED <<alive, quiet, mem, row, account, past, faults>>
    BY <1>4 DEF Verify, At, timing, state, Quietly
  <2> HIDE DEF right
  <2>2. step \in {"done", "complete", "fail"}
    OBVIOUS
  <2> HIDE DEF step
  <2>3. JobsAside
    BY <1>1, <2>1, <2>2, GotoAside
  <2> QED BY <1>2, <2>1, <2>3, QuietAside
<1>5. CASE Complete(t)
  <2>1. alive /\ jobs[t].at = "complete"
    BY <1>5 DEF Complete, At
  <2>2. CASE Goto(t, "done") /\ UNCHANGED <<state, timing, retries, account, faults, past>>
    <3>1. JobsAside
      BY <1>1, <2>1, <2>2, GotoAside
    <3> QED BY <1>2, <2>1, <2>2, <3>1, QuietAside DEF state, timing
  <2>3. CASE ~(Goto(t, "done") /\ UNCHANGED <<state, timing, retries, account, faults, past>>)
    <3> DEFINE new == Over(jobs[t].user, mem.verified \cup {jobs[t].user})
               ok == IF mem.pending[jobs[t].user].type = "img" THEN "open" ELSE "release"
    <3>1. Persist(new, t, ok, "done") /\ Ends(jobs[t].user) /\ quiet' = quiet
      BY <1>5, <2>3 DEF Complete
    <3>2. IsState(new) /\ SameFlags(new.flood, mem.flood)
      BY <1>1, StateSteps
    <3>3. ok \in {"open", "release"}
      OBVIOUS
    <3>4. PastKept /\ past'.cut = past.cut
      BY <1>2, <3>1
    <3> HIDE DEF new, ok
    <3> QED BY <2>1, <3>1, <3>2, <3>3, <3>4, PersistAside
  <2> QED BY <2>2, <2>3
<1>6. CASE Open(t)
  <2> DEFINE effect == Blocked(jobs[t].user, FALSE)
  <2>1. alive /\ jobs[t].at = "open" /\ Call(t, effect, "release", "release")
    BY <1>6 DEF Open, At
  <2>2. account' = effect => SameAccount
    BY <1>1, AccountSteps
  <2> HIDE DEF effect
  <2> QED BY <2>1, <2>2, CallAside
<1>7. CASE Release(t)
  <2> DEFINE effect == Archived(jobs[t].user, FALSE)
  <2>1. alive /\ jobs[t].at = "release" /\ Call(t, effect, "done", "done")
    BY <1>7 DEF Release, At
  <2>2. account' = effect => SameAccount
    BY <1>1, AccountSteps
  <2> HIDE DEF effect
  <2> QED BY <2>1, <2>2, CallAside
<1>8. CASE Fail(t)
  <2>1. alive /\ jobs[t].at = "fail" /\ UNCHANGED <<alive, account>>
    BY <1>8 DEF Fail, At
  <2>2. CASE Goto(t, "done") /\ UNCHANGED <<mem, row, timing, faults, past>>
    <3>1. JobsAside
      BY <1>1, <2>1, <2>2, GotoAside
    <3> QED BY <1>2, <2>1, <2>2, <3>1, QuietAside DEF timing
  <2>3. CASE ~(Goto(t, "done") /\ UNCHANGED <<mem, row, timing, faults, past>>)
    <3> DEFINE new == Over(jobs[t].user, mem.verified)
               step == IF mem.pending[jobs[t].user].type = "img" THEN "reopen" ELSE "notice"
    <3>1. /\ Write(new) /\ Ends(jobs[t].user) /\ quiet' = quiet
          /\ IF Saved THEN jobs' = [jobs EXCEPT ![t].config = mem.config, ![t].at = step]
             ELSE Goto(t, "done")
      BY <1>8, <2>3 DEF Fail
    <3>2. IsState(new) /\ SameFlags(new.flood, mem.flood)
      BY <1>1, StateSteps
    <3>3. step \in {"reopen", "notice"}
      OBVIOUS
    <3>4. PastKept /\ past'.cut = past.cut
      BY <1>2, <3>1
    <3> HIDE DEF new, step
    <3>5. JobsAside
      <4>1. CASE Goto(t, "done")
        BY <1>1, <2>1, <4>1, GotoAside
      <4>2. CASE jobs' = [jobs EXCEPT ![t].config = mem.config, ![t].at = step]
        <5> DEFINE r == [jobs[t] EXCEPT !.config = mem.config]
                   j == [r EXCEPT !.at = step]
        <5>1. jobs' = [jobs EXCEPT ![t] = j]
          BY <1>1, <4>2 DEF Shape
        <5>2. IsJob(jobs[t]) /\ mem.config.action \in Actions
          BY <1>1 DEF Shape, IsState
        <5>3. r = [at |-> jobs[t].at, user |-> jobs[t].user, c |-> jobs[t].c, says |-> jobs[t].says,
                   config |-> mem.config, users |-> jobs[t].users, flood |-> jobs[t].flood]
          BY <5>2 DEF IsJob
        <5> HIDE DEF r
        <5>4. j = [at |-> step, user |-> jobs[t].user, c |-> jobs[t].c, says |-> jobs[t].says,
                   config |-> mem.config, users |-> jobs[t].users, flood |-> jobs[t].flood]
          BY <5>3
        <5> HIDE DEF j
        <5>5. IsJob(j) /\ j.at = step
          BY <3>3, <5>2, <5>4 DEF IsJob
        <5> QED BY <1>1, <2>1, <3>3, <5>1, <5>5 DEF Shape, JobsAside
      <4> QED BY <3>1, <4>1, <4>2
    <3> QED BY <2>1, <3>1, <3>2, <3>4, <3>5, WriteAside
  <2> QED BY <2>2, <2>3
<1>9. CASE Reopen(t)
  <2> DEFINE effect == Blocked(jobs[t].user, FALSE)
  <2>1. /\ alive /\ jobs[t].at = "reopen" /\ Call(t, effect, "notice", "notice")
        /\ jobs[t].config.action \in Actions
    BY <1>1, <1>9 DEF Reopen, At, Shape, IsJob
  <2>2. account' = effect => SameAccount
    BY <1>1, AccountSteps
  <2> HIDE DEF effect
  <2> QED BY <2>1, <2>2, CallAside
<1>10. CASE Notice(t)
  <2> DEFINE step == IF jobs[t].config.action = "none" THEN "release" ELSE "block"
  <2>1. /\ alive /\ jobs[t].at = "notice" /\ Goto(t, step) /\ jobs[t].config.action \in Actions
        /\ UNCHANGED <<alive, quiet, mem, row, account, past, faults>>
    BY <1>1, <1>10 DEF Notice, At, timing, state, Quietly, Shape, IsJob
  <2>2. step \in {"release", "block"}
    OBVIOUS
  <2> HIDE DEF step
  <2>3. JobsAside
    BY <1>1, <2>1, <2>2, GotoAside
  <2> QED BY <1>2, <2>1, <2>3, QuietAside
<1>11. CASE Block(t)
  <2> DEFINE effect == Blocked(jobs[t].user, TRUE)
             action == jobs[t].config.action
  <2>1. /\ alive /\ jobs[t].at = "block" /\ Call(t, effect, action, action)
        /\ action \in Actions
    BY <1>1, <1>11 DEF Block, At, Shape, IsJob
  <2>2. account' = effect => SameAccount
    BY <1>1, AccountSteps
  <2>3. action \in {"ban", "delete", "none"}
    BY <2>1 DEF Actions
  <2> HIDE DEF effect, action
  <2> QED BY <2>1, <2>2, <2>3, CallAside
<1>12. CASE Finish(t)
  <2>1. /\ alive /\ jobs[t].at \in {"ban", "delete"} /\ Goto(t, "done")
        /\ UNCHANGED <<alive, quiet, mem, row, past>> /\ faults' \in Nat
    BY <1>1, <1>12, CanFailCounts DEF Finish, timing, state, Shape
  <2>2. SameAccount
    BY <1>1, <1>12, AccountSteps DEF Finish, Carry
  <2>3. JobsAside
    BY <1>1, <2>1, GotoAside
  <2>4. alive' = alive /\ quiet' \in {quiet, FALSE} /\ IsState(mem') /\ IsState(row')
    BY <1>1, <2>1 DEF Shape
  <2> QED BY <1>2, <2>1, <2>2, <2>3, <2>4, StepAside DEF SameFlags
<1>13. CASE ImageRetry(t)
  <2>1. alive /\ jobs[t].at = "retry" /\ quiet' = quiet
    BY <1>13 DEF ImageRetry, At, timing
  <2>2. CASE Goto(t, "done") /\ UNCHANGED <<state, retries, account, faults, past>>
    <3>1. JobsAside
      BY <1>1, <2>1, <2>2, GotoAside
    <3> QED BY <1>2, <2>1, <2>2, <3>1, QuietAside DEF state
  <2>3. CASE ~(Goto(t, "done") /\ UNCHANGED <<state, retries, account, faults, past>>)
    <3> DEFINE more == [mem.pending[jobs[t].user] EXCEPT !.tries = @ + 1]
               new == [mem EXCEPT !.pending[jobs[t].user] = more]
               ok == IF more.tries >= mem.config.tries THEN "fail" ELSE "done"
    <3>1. Persist(new, t, ok, "done") /\ Remember
      BY <1>13, <2>3 DEF ImageRetry
    <3>2. IsState(new) /\ SameFlags(new.flood, mem.flood)
      BY <1>1, StateSteps
    <3>3. ok \in {"fail", "done"}
      OBVIOUS
    <3>4. PastKept /\ past'.cut = past.cut
      BY <1>2, <3>1
    <3> HIDE DEF new, ok
    <3> QED BY <2>1, <3>1, <3>2, <3>3, <3>4, PersistAside
  <2> QED BY <2>2, <2>3
<1>14. CASE ImageFallback(t)
  <2> DEFINE effect == Blocked(jobs[t].user, FALSE)
  <2>1. alive /\ jobs[t].at = "unshut" /\ Call(t, effect, "fallback", "fallback")
    BY <1>14 DEF ImageFallback, At
  <2>2. account' = effect => SameAccount
    BY <1>1, AccountSteps
  <2> HIDE DEF effect
  <2> QED BY <2>1, <2>2, CallAside
<1>15. CASE AddVerified(t)
  <2> DEFINE new == [mem EXCEPT !.verified = @ \cup {jobs[t].user}]
  <2>1. /\ Persist(new, t, "release", "done") /\ alive /\ jobs[t].at = "add" /\ quiet' = quiet
        /\ Remember
    BY <1>15 DEF AddVerified, At, timing
  <2>2. IsState(new) /\ SameFlags(new.flood, mem.flood)
    BY <1>1, StateSteps
  <2> HIDE DEF new
  <2> QED BY <1>2, <2>1, <2>2, PersistAside
<1> QED
  BY <1>3, <1>4, <1>5, <1>6, <1>7, <1>8, <1>9, <1>10, <1>11, <1>12, <1>13, <1>14, <1>15

-----------------------------------------------------------------------------
(* The steps of a flood that are aside: whom it reaches.                   *)

\* A thread takes up something that is of no concern to a flood.
LEMMA JobAside ==
  ASSUME Shape, NEW t \in Threads, NEW j, IsJob(j), jobs' = [jobs EXCEPT ![t] = j],
         jobs[t].at \notin Critical, j.at \notin Critical
  PROVE  JobsAside
BY DEF Shape, JobsAside

\* The state with other flags is a state with these.
LEMMA StateWith ==
  ASSUME Shape, NEW f \in Flags
  PROVE  LET new == [mem EXCEPT !.flood = f] IN IsState(new) /\ new.flood = f
BY DEF Shape, IsState

\* The strangers that a flood has reached.
LEMMA ReachedSteps ==
  ASSUME Shape, NEW U \in SUBSET Users
  PROVE  /\ LET new == [mem EXCEPT !.flood.users = @ \cup U] IN
              IsState(new) /\ SameFlags(new.flood, mem.flood)
         /\ LET new == [mem EXCEPT !.flood.recent = U] IN
              IsState(new) /\ SameFlags(new.flood, mem.flood)
<1> DEFINE f == [mem.flood EXCEPT !.users = @ \cup U]
           g == [mem.flood EXCEPT !.recent = U]
<1>1. mem.flood \in Flags
  BY DEF Shape, IsState
<1>2. f \in Flags /\ SameFlags(f, mem.flood)
  BY <1>1 DEF Flags, SameFlags
<1>3. g \in Flags /\ SameFlags(g, mem.flood)
  BY <1>1 DEF Flags, SameFlags
<1>4. /\ [mem EXCEPT !.flood.users = @ \cup U] = [mem EXCEPT !.flood = f]
      /\ [mem EXCEPT !.flood.recent = U] = [mem EXCEPT !.flood = g]
  OBVIOUS
<1> HIDE DEF f, g
<1>5. LET new == [mem EXCEPT !.flood = f] IN IsState(new) /\ new.flood = f
  BY <1>2, StateWith
<1>6. LET new == [mem EXCEPT !.flood = g] IN IsState(new) /\ new.flood = g
  BY <1>3, StateWith
<1> QED BY <1>2, <1>3, <1>4, <1>5, <1>6

LEMMA ReachingKeeps ==
  ASSUME CaptchaInv, NEW t \in Threads,
         FloodGoesOn(t) \/ NoFloodYet(t) \/ Join(t) \/ AwaitEnd(t) \/ FloodOver(t)
  PROVE  CaptchaInv'
<1>1. Shape BY DEF CaptchaInv
<1>2. /\ Remember => PastKept /\ past'.cut = past.cut
      /\ UNCHANGED past => PastKept /\ past'.cut = past.cut
      /\ faults \in Nat
  BY <1>1, PastSteps DEF Shape
<1> USE DEF Critical, Beginning, Restoring
<1>3. CASE FloodGoesOn(t)
  <2> DEFINE new == [mem EXCEPT !.flood.users = @ \cup {jobs[t].user}]
  <2>1. /\ Persist(new, t, "join", "done") /\ alive /\ jobs[t].at = "observe" /\ quiet' = FALSE
        /\ Remember
    BY <1>3 DEF FloodGoesOn, At
  <2>2. jobs[t].user \in Users
    BY <1>1, <2>1 DEF Shape, IsJob
  <2>3. IsState(new) /\ SameFlags(new.flood, mem.flood)
    BY <1>1, <2>2, ReachedSteps
  <2> HIDE DEF new
  <2> QED BY <1>2, <2>1, <2>3, PersistAside
<1>4. CASE NoFloodYet(t)
  <2> DEFINE recent == Recent(jobs[t].user)
             new == [mem EXCEPT !.flood.recent = recent]
  <2>1. /\ Persist(new, t, "begin", "begin") /\ alive /\ jobs[t].at = "observe" /\ quiet' = quiet
        /\ Remember
    BY <1>4 DEF NoFloodYet, At, timing
  <2>2. recent \in SUBSET Users
    BY <1>1, <2>1 DEF Shape, IsJob, IsState, Flags, Recent
  <2> HIDE DEF recent
  <2>3. IsState(new) /\ SameFlags(new.flood, mem.flood)
    BY <1>1, <2>2, ReachedSteps
  <2> HIDE DEF new
  <2> QED BY <1>2, <2>1, <2>3, PersistAside
<1>5. CASE Join(t)
  <2> DEFINE effect == Archived(jobs[t].user, TRUE)
  <2>1. alive /\ jobs[t].at = "join" /\ Call(t, effect, "awaitEnd", "awaitEnd")
    BY <1>5 DEF Join, At
  <2>2. account' = effect => SameAccount
    BY <1>1, AccountSteps
  <2> HIDE DEF effect
  <2> QED BY <2>1, <2>2, CallAside
<1>6. CASE AwaitEnd(t)
  <2>1. /\ alive /\ jobs[t].at = "awaitEnd" /\ Goto(t, "done")
        /\ UNCHANGED <<alive, quiet, mem, row, account, past, faults>>
    BY <1>6 DEF AwaitEnd, At, state
  <2>2. JobsAside
    BY <1>1, <2>1, GotoAside
  <2> QED BY <1>2, <2>1, <2>2, QuietAside
<1>7. CASE FloodOver(t)
  <2>1. /\ alive /\ jobs[t].at = "next" /\ jobs' = [jobs EXCEPT ![t] = Resting]
        /\ UNCHANGED <<alive, quiet, mem, row, account, past, faults>>
    BY <1>7 DEF FloodOver, At, state, timing, Quietly
  <2>2. JobsAside
    BY <1>1, <2>1, JobAside, RestingIsJob
  <2> QED BY <1>2, <2>1, <2>2, QuietAside
<1> QED BY <1>3, <1>4, <1>5, <1>6, <1>7

LEMMA NextUserKeeps ==
  ASSUME CaptchaInv, NEW t \in Threads, NEW u, NextUser(t, u)
  PROVE  CaptchaInv'
<1>1. Shape BY DEF CaptchaInv
<1> DEFINE how == jobs[t].config.floodAction
           step == IF how = "captcha" THEN "begin" ELSE "next"
<1>2. /\ alive /\ jobs[t].at = "next" /\ UNCHANGED <<alive, quiet, mem, row, past, faults>>
      /\ jobs' = [jobs EXCEPT ![t].users = @ \ {u}, ![t].user = u, ![t].at = step]
  BY DEF NextUser, At, Quietly, state, timing
<1>3. SameAccount
  <2> DEFINE e == Blocked(u, TRUE)
  <2>1. \/ account' = e \/ account' = [e EXCEPT !.archived = @ \ {u}]
        \/ account' = Erased(u) \/ account' = account
    BY Zenon DEF NextUser
  <2>2. e = [blocked |-> e.blocked, archived |-> account.archived, auto |-> account.auto,
             name |-> account.name, channel |-> account.channel]
    BY <1>1 DEF Shape, Blocked
  <2>3. account' = e => SameAccount
    BY <1>1, AccountSteps
  <2> HIDE DEF e
  <2>4. account' = [e EXCEPT !.archived = @ \ {u}] => SameAccount
    BY <2>2 DEF SameAccount
  <2> QED BY <1>1, <2>1, <2>3, <2>4, AccountSteps
<1>4. JobsAside
  <2> DEFINE a == [jobs[t] EXCEPT !.users = @ \ {u}]
             b == [a EXCEPT !.user = u]
             j == [b EXCEPT !.at = step]
  <2>1. jobs' = [jobs EXCEPT ![t] = j]
    BY <1>1, <1>2 DEF Shape
  <2>2. IsJob(jobs[t])
    BY <1>1 DEF Shape
  <2>3. step \in {"begin", "next"}
    OBVIOUS
  <2> HIDE DEF step
  <2>4. a = [at |-> jobs[t].at, user |-> jobs[t].user, c |-> jobs[t].c, says |-> jobs[t].says,
             config |-> jobs[t].config, users |-> jobs[t].users \ {u}, flood |-> jobs[t].flood]
    BY <2>2 DEF IsJob
  <2> HIDE DEF a
  <2>5. b = [at |-> jobs[t].at, user |-> u, c |-> jobs[t].c, says |-> jobs[t].says,
             config |-> jobs[t].config, users |-> jobs[t].users \ {u}, flood |-> jobs[t].flood]
    BY <2>4
  <2> HIDE DEF b
  <2>6. j = [at |-> step, user |-> u, c |-> jobs[t].c, says |-> jobs[t].says,
             config |-> jobs[t].config, users |-> jobs[t].users \ {u}, flood |-> jobs[t].flood]
    BY <2>5
  <2> HIDE DEF j
  <2>7. IsJob(j) /\ j.at = step
    BY <2>3, <2>6 DEF IsJob, Restoring
  <2> QED BY <1>1, <1>2, <2>1, <2>3, <2>7, JobAside DEF Critical, Beginning, Restoring
<1>5. PastKept /\ past'.cut = past.cut
  BY <1>1, <1>2, PastSteps
<1> QED
  <2>1. faults' \in Nat /\ IsState(mem') /\ IsState(row')
    BY <1>1, <1>2 DEF Shape
  <2> QED BY <1>2, <1>3, <1>4, <1>5, <2>1, StepAside DEF SameFlags

-----------------------------------------------------------------------------
(* What arrives is aside.                                                  *)

LEMMA TakeAside ==
  ASSUME CaptchaInv, NEW t \in Threads, NEW u \in Users, NEW step, NEW c, NEW says,
         Take(t, u, step, c, says), PastKept, past'.cut = past.cut, step \notin Critical,
         step \notin {"punish", "notice", "reopen", "block"}
  PROVE  CaptchaInv'
<1>1. Shape BY DEF CaptchaInv
<1> DEFINE a == [Resting EXCEPT !.at = step]
           b == [a EXCEPT !.user = u]
           d == [b EXCEPT !.c = c]
           j == [d EXCEPT !.says = says]
<1>2. /\ alive /\ jobs[t].at = "idle" /\ jobs' = [jobs EXCEPT ![t] = j]
      /\ UNCHANGED <<alive, quiet, mem, row, account, faults>>
  BY DEF Take, At, state
<1>3. IsJob(j) /\ j.at = step
  <2>1. step \notin Restoring /\ step # "keepAuto"
    BY DEF Critical, Beginning
  <2>2. a = [at |-> step, user |-> Nothing, c |-> Nothing, says |-> Nothing, config |-> Nothing,
             users |-> {}, flood |-> Nothing]
    BY DEF Resting
  <2> HIDE DEF a
  <2>3. b = [at |-> step, user |-> u, c |-> Nothing, says |-> Nothing, config |-> Nothing,
             users |-> {}, flood |-> Nothing]
    BY <2>2
  <2> HIDE DEF b
  <2>4. d = [at |-> step, user |-> u, c |-> c, says |-> Nothing, config |-> Nothing,
             users |-> {}, flood |-> Nothing]
    BY <2>3
  <2> HIDE DEF d
  <2>5. j = [at |-> step, user |-> u, c |-> c, says |-> says, config |-> Nothing,
             users |-> {}, flood |-> Nothing]
    BY <2>4
  <2> HIDE DEF j
  <2> QED BY <2>1, <2>5 DEF IsJob
<1> HIDE DEF j
<1>4. JobsAside
  BY <1>1, <1>2, <1>3, JobAside DEF Critical, Beginning, Restoring
<1> QED BY <1>1, <1>2, <1>4, QuietAside, PastSteps DEF Shape

LEMMA OrderAside ==
  ASSUME CaptchaInv, NEW t \in Threads, NEW new, NEW u, NEW next, Order(t, new, u, next),
         IsState(new), SameFlags(new.flood, mem.flood), next \notin Critical \cup Telling
  PROVE  CaptchaInv'
<1>1. Shape BY DEF CaptchaInv
<1> DEFINE a == [Resting EXCEPT !.at = next]
           b == [a EXCEPT !.user = u]
           j == IF next = "done" \/ ~Saved THEN Resting ELSE b
<1>2. /\ alive /\ jobs[t].at = "idle" /\ jobs' = [jobs EXCEPT ![t] = j]
      /\ Write(new) /\ Remember /\ UNCHANGED <<alive, quiet, account>>
  BY DEF Order, At
<1>3. IsJob(j) /\ j.at \notin Critical
  <2>1. a = [at |-> next, user |-> Nothing, c |-> Nothing, says |-> Nothing, config |-> Nothing,
             users |-> {}, flood |-> Nothing]
    BY DEF Resting
  <2> HIDE DEF a
  <2>2. b = [at |-> next, user |-> u, c |-> Nothing, says |-> Nothing, config |-> Nothing,
             users |-> {}, flood |-> Nothing]
    BY <2>1
  <2> HIDE DEF b
  <2>3. IsJob(b) /\ b.at \notin Critical
    BY <2>2 DEF IsJob, Telling
  <2>4. IsJob(Resting) /\ Resting.at \notin Critical
    BY RestingIsJob DEF Critical, Beginning, Restoring
  <2> QED BY <2>3, <2>4
<1> HIDE DEF j
<1>4. JobsAside
  BY <1>1, <1>2, <1>3, JobAside DEF Critical, Beginning, Restoring
<1> QED BY <1>1, <1>2, <1>4, WriteAside, PastSteps

LEMMA ArrivingKeeps ==
  ASSUME CaptchaInv, NEW t \in Threads, NEW u \in Users, Arriving(t, u)
  PROVE  CaptchaInv'
<1>1. Shape BY DEF CaptchaInv
<1> USE DEF Critical, Beginning, Restoring
<1>2. ASSUME NEW says \in Says, Receive(t, u, says) PROVE CaptchaInv'
  <2> DEFINE step == IF mem.pending[u] = Nothing THEN "rules" ELSE "verify"
  <2>1. Take(t, u, step, mem.pending[u], says) /\ PastKept /\ past'.cut = past.cut
    BY <1>1, <1>2, PastSteps DEF Receive
  <2>2. step \in {"rules", "verify"}
    OBVIOUS
  <2> HIDE DEF step
  <2> QED BY <2>1, <2>2, TakeAside
<1>3. CASE ImageResult(t, u)
  <2> DEFINE c == mem.pending[u]
             a == [Resting EXCEPT !.at = "rearm"]
             b == [a EXCEPT !.user = u]
             j == [b EXCEPT !.c = c]
  <2>1. /\ alive /\ jobs[t].at = "idle" /\ Write(mem) /\ Remember
        /\ UNCHANGED <<alive, quiet, account>>
        /\ jobs' = jobs \/ jobs' = [jobs EXCEPT ![t] = j]
    BY <1>3 DEF ImageResult, At, timing
  <2> HIDE DEF c
  <2>2. a = [at |-> "rearm", user |-> Nothing, c |-> Nothing, says |-> Nothing, config |-> Nothing,
             users |-> {}, flood |-> Nothing]
    BY DEF Resting
  <2> HIDE DEF a
  <2>3. b = [at |-> "rearm", user |-> u, c |-> Nothing, says |-> Nothing, config |-> Nothing,
             users |-> {}, flood |-> Nothing]
    BY <2>2
  <2> HIDE DEF b
  <2>4. IsJob(j) /\ j.at = "rearm"
    BY <2>3 DEF IsJob
  <2> HIDE DEF j
  <2>5. JobsAside
    <3>1. CASE jobs' = jobs
      BY <1>1, <3>1 DEF Shape, JobsAside
    <3>2. CASE jobs' = [jobs EXCEPT ![t] = j]
      BY <1>1, <2>1, <2>4, <3>2, JobAside
    <3> QED BY <2>1, <3>1, <3>2
  <2>6. IsState(mem) /\ SameFlags(mem.flood, mem.flood)
    BY <1>1 DEF Shape, SameFlags
  <2> QED BY <1>1, <2>1, <2>5, <2>6, WriteAside, PastSteps
<1>4. CASE OwnerWrites(t, u)
  <2> DEFINE new == [mem EXCEPT !.verified = @ \cup {u}]
  <2>1. /\ alive /\ Write(new) /\ Remember /\ UNCHANGED <<alive, quiet, jobs, account>>
    BY <1>4 DEF OwnerWrites, At, timing
  <2>2. IsState(new) /\ SameFlags(new.flood, mem.flood)
    BY <1>1, StateSteps
  <2>3. JobsAside
    BY <1>1, <2>1 DEF Shape, JobsAside
  <2> HIDE DEF new
  <2> QED BY <1>1, <2>1, <2>2, <2>3, WriteAside, PastSteps
<1>5. CASE Add(t, u)
  <2> DEFINE step == IF mem.pending[u] = Nothing THEN "add" ELSE "complete"
  <2>1. Take(t, u, step, Nothing, Nothing) /\ PastKept /\ past'.cut = past.cut
    BY <1>1, <1>5, PastSteps DEF Add
  <2>2. step \in {"add", "complete"}
    OBVIOUS
  <2> HIDE DEF step
  <2> QED BY <2>1, <2>2, TakeAside
<1>6. CASE Delete(t, u)
  <2> DEFINE new == [mem EXCEPT !.verified = @ \ {u}]
  <2>1. Order(t, new, u, "done")
    BY <1>6 DEF Delete
  <2>2. IsState(new) /\ SameFlags(new.flood, mem.flood)
    BY <1>1, StateSteps
  <2> HIDE DEF new
  <2> QED BY <2>1, <2>2, OrderAside DEF Telling
<1>7. CASE Unstuck(t, u)
  <2>1. Order(t, Over(u, mem.verified), u, "open")
    BY <1>7 DEF Unstuck
  <2>2. IsState(Over(u, mem.verified)) /\ SameFlags(Over(u, mem.verified).flood, mem.flood)
    BY <1>1, StateSteps
  <2> QED BY <2>1, <2>2, OrderAside DEF Telling
<1>8. CASE TimeUp(t, u)
  <2> DEFINE c == [id |-> timers[u]]
             a == [Resting EXCEPT !.at = "fail"]
             b == [a EXCEPT !.user = u]
             j == [b EXCEPT !.c = c]
  <2>1. /\ alive /\ jobs[t].at = "idle" /\ jobs' = [jobs EXCEPT ![t] = j]
        /\ UNCHANGED <<alive, quiet, mem, row, account, past, faults>>
    BY <1>8 DEF TimeUp, At, state
  <2> HIDE DEF c
  <2>2. a = [at |-> "fail", user |-> Nothing, c |-> Nothing, says |-> Nothing, config |-> Nothing,
             users |-> {}, flood |-> Nothing]
    BY DEF Resting
  <2> HIDE DEF a
  <2>3. b = [at |-> "fail", user |-> u, c |-> Nothing, says |-> Nothing, config |-> Nothing,
             users |-> {}, flood |-> Nothing]
    BY <2>2
  <2> HIDE DEF b
  <2>4. IsJob(j) /\ j.at = "fail"
    BY <2>3 DEF IsJob
  <2> HIDE DEF j
  <2>5. JobsAside
    BY <1>1, <2>1, <2>4, JobAside
  <2> QED BY <1>1, <2>1, <2>5, QuietAside, PastSteps DEF Shape
<1> QED BY <1>2, <1>3, <1>4, <1>5, <1>6, <1>7, <1>8 DEF Arriving

\* The configurations that are set have an action that there is.
LEMMA ConfigureKeeps ==
  ASSUME CaptchaInv, NEW t \in Threads, Configure(t)
  PROVE  CaptchaInv'
<1>1. PICK new \in Settings : Order(t, [mem EXCEPT !.config = new], Nothing, "done")
  BY DEF Configure
<1> DEFINE s == [mem EXCEPT !.config = new]
<1>2. Shape /\ new.action \in Actions
  BY CaptchaAssumption DEF CaptchaInv
<1>3. IsState(s) /\ SameFlags(s.flood, mem.flood)
  BY <1>2, StateSteps
<1> HIDE DEF s
<1> QED BY <1>1, <1>3, OrderAside DEF Telling, Critical, Beginning, Restoring, s

LEMMA TimePasses ==
  ASSUME CaptchaInv, MinuteEnds \/ \E r \in retries : Retry(r)
  PROVE  CaptchaInv'
<1>1. Shape BY DEF CaptchaInv
<1>2. CASE MinuteEnds
  <2> DEFINE new == [mem EXCEPT !.flood.recent = {}]
  <2>1. /\ alive /\ mem' = new /\ UNCHANGED <<alive, row, quiet, jobs, account, past, faults>>
    BY <1>2 DEF MinuteEnds, timing
  <2>2. IsState(new) /\ SameFlags(new.flood, mem.flood)
    BY <1>1, ReachedSteps
  <2> HIDE DEF new
  <2>3. JobsAside
    BY <1>1, <2>1 DEF Shape, JobsAside
  <2>4. SameAccount /\ PastKept /\ past'.cut = past.cut /\ faults' \in Nat
    BY <1>1, <2>1, AccountSteps, PastSteps DEF Shape
  <2>5. IsState(row') /\ SameFlags(row'.flood, row.flood)
    BY <1>1, <2>1 DEF Shape, SameFlags
  <2> QED BY <2>1, <2>2, <2>3, <2>4, <2>5, StepAside
<1>3. ASSUME NEW r \in retries, Retry(r) PROVE CaptchaInv'
  <2>1. alive /\ Carry(r.what, r.user) /\ UNCHANGED <<alive, mem, row, quiet, jobs, past, faults>>
    BY <1>3 DEF Retry, state, timing
  <2>2. SameAccount
    BY <1>1, <2>1, AccountSteps DEF Carry
  <2>3. JobsAside
    BY <1>1, <2>1 DEF Shape, JobsAside
  <2>4. PastKept /\ past'.cut = past.cut /\ faults' \in Nat /\ IsState(mem') /\ IsState(row')
    BY <1>1, <2>1, PastSteps DEF Shape
  <2> QED BY <2>1, <2>2, <2>3, <2>4, StepAside DEF SameFlags
<1> QED BY <1>2, <1>3

-----------------------------------------------------------------------------
(* The beginning of a flood.                                               *)

\* What is known while a thread begins a flood.
LEMMA BeginningFacts ==
  ASSUME FloodInv, ~past.cut, NEW t \in Threads, jobs[t].at \in Beginning
  PROVE  /\ alive /\ mem.flood.active /\ row.flood.active /\ ~quiet
         /\ mem.flood.auto = row.flood.auto
         /\ \A s \in Threads : s # t => jobs[s].at \notin Critical
         /\ jobs[t].at \notin {"readAuto", "keepAuto"} => row.flood.auto = past.auto
         /\ jobs[t].at \in {"readAuto", "keepAuto"} => account.auto = past.auto
         /\ jobs[t].at = "keepAuto" => jobs[t].c = past.auto
         /\ jobs[t].at \notin {"moveName", "undoName"} => account.name = "account"
         /\ jobs[t].at \in {"dropName", "moveName", "undoName"} => mem.flood.name /\ row.flood.name
         /\ account.name # "account" => mem.flood.name /\ row.flood.name
<1>1. FloodIsStored /\ OneBegins /\ OneRestores /\ SettingKept /\ NameKept
  BY DEF FloodInv
<1>2. alive /\ mem.flood.active /\ row.flood.active /\ ~quiet /\ mem.flood.auto = row.flood.auto
  BY <1>1 DEF OneBegins, FloodIsStored, In
<1>3. ASSUME NEW s \in Threads
      PROVE  jobs[s].at \notin Restoring /\ (s # t => jobs[s].at \notin Beginning)
  BY <1>1, <1>2 DEF OneBegins, OneRestores, In
<1>4. /\ jobs[t].at \notin {"readAuto", "keepAuto"} => row.flood.auto = past.auto
      /\ jobs[t].at \in {"readAuto", "keepAuto"} => account.auto = past.auto
      /\ jobs[t].at = "keepAuto" => jobs[t].c = past.auto
  <2>1. \A s \in Threads : s # t => jobs[s].at \notin {"readAuto", "keepAuto"}
    BY <1>3 DEF Beginning
  <2>2. \A s \in Threads : jobs[s].at \notin {"giveBack"}
    BY <1>3 DEF Restoring
  <2> QED BY <1>1, <1>2, <2>1, <2>2 DEF SettingKept, In
<1>5. /\ jobs[t].at \notin {"moveName", "undoName"} => account.name = "account"
      /\ jobs[t].at \in {"dropName", "moveName", "undoName"} => mem.flood.name /\ row.flood.name
      /\ account.name # "account" => mem.flood.name /\ row.flood.name
  <2>1. \A s \in Threads : jobs[s].at \notin {"giveBack", "freeName", "takeName"}
    BY <1>3 DEF Restoring
  <2> QED BY <1>1, <1>2, <2>1 DEF NameKept, In
<1> QED BY <1>2, <1>3, <1>4, <1>5 DEF Critical

\* What has to be seen to after a step of that thread.
BeginningStep(t) ==
  /\ alive' = alive /\ quiet' = quiet /\ past'.auto = past.auto
  /\ mem'.flood.active = mem.flood.active /\ row'.flood.active = row.flood.active
  /\ mem'.flood.auto = row'.flood.auto
  /\ \A s \in Threads : s # t => jobs'[s] = jobs[s]
  /\ jobs'[t].at \notin Restoring \cup {"readAuto"}
  /\ IF jobs'[t].at = "keepAuto" THEN jobs'[t].c = past.auto /\ account'.auto = past.auto
     ELSE row'.flood.auto = past.auto
  /\ jobs'[t].at \in Beginning \ {"moveName", "undoName"} => account'.name = "account"
  /\ jobs'[t].at \in {"dropName", "moveName", "undoName"} => mem'.flood.name /\ row'.flood.name
  /\ account'.name # "account" => mem'.flood.name /\ row'.flood.name

LEMMA BeginningKeeps ==
  ASSUME FloodInv, ~past.cut, NEW t \in Threads, jobs[t].at \in Beginning, BeginningStep(t)
  PROVE  (FloodIsStored /\ OneBegins /\ OneRestores /\ SettingKept /\ NameKept)'
<1>1. /\ alive' /\ mem'.flood.active /\ row'.flood.active /\ ~quiet'
      /\ mem'.flood.auto = row'.flood.auto /\ past'.auto = past.auto
  BY BeginningFacts DEF BeginningStep
<1>2. \A s \in Threads : jobs'[s].at \notin Restoring /\ (s # t => jobs'[s].at \notin Beginning)
  BY BeginningFacts DEF BeginningStep, Critical
<1>3. FloodIsStored'
  BY <1>1 DEF FloodIsStored
<1>4. OneBegins'
  BY <1>1, <1>2 DEF OneBegins, In
<1>5. OneRestores'
  BY <1>2 DEF OneRestores, In
<1>6. SettingKept'
  <2>1. \A s \in Threads : s # t => jobs'[s].at \notin {"readAuto", "keepAuto"}
    BY <1>2 DEF Beginning
  <2>2. /\ jobs'[t].at # "readAuto"
        /\ jobs'[t].at = "keepAuto" => jobs'[t].c = past'.auto /\ account'.auto = past'.auto
        /\ jobs'[t].at # "keepAuto" => row'.flood.auto = past'.auto
    BY DEF BeginningStep
  <2> QED BY <1>1, <2>1, <2>2 DEF SettingKept, In
<1>7. NameKept'
  <2>1. \A s \in Threads : /\ jobs'[s].at \notin {"takeName"}
                           /\ s # t => /\ jobs'[s].at \notin Beginning \ {"moveName", "undoName"}
                                       /\ jobs'[s].at \notin {"dropName", "moveName", "undoName"}
    BY <1>2 DEF Beginning, Restoring
  <2>2. /\ jobs'[t].at \in Beginning \ {"moveName", "undoName"} => account'.name = "account"
        /\ jobs'[t].at \in {"dropName", "moveName", "undoName"} => mem'.flood.name /\ row'.flood.name
        /\ account'.name # "account" => mem'.flood.name /\ row'.flood.name
    BY DEF BeginningStep
  <2> QED BY <1>1, <2>1, <2>2 DEF NameKept, In
<1> QED BY <1>3, <1>4, <1>5, <1>6, <1>7

-----------------------------------------------------------------------------
(* The end of a flood.                                                     *)

\* What is known while a thread undoes what a flood has changed.
LEMMA RestoringFacts ==
  ASSUME FloodInv, ~past.cut, NEW t \in Threads, jobs[t].at \in Restoring
  PROVE  /\ alive /\ ~mem.flood.active /\ row.flood.active = mem.flood.active
         /\ mem.flood.auto = row.flood.auto
         /\ \A s \in Threads : s # t => jobs[s].at \notin Critical
         /\ jobs[t].flood.auto = past.auto
         /\ account.auto # past.auto => jobs[t].at = "giveBack"
         /\ account.name # "account" =>
              jobs[t].at \in {"giveBack", "freeName", "takeName"} /\ jobs[t].flood.name
         /\ jobs[t].at = "takeName" => account.name # "channel"
<1>1. FloodIsStored /\ OneBegins /\ OneRestores /\ SettingKept /\ NameKept
  BY DEF FloodInv
<1>2. /\ alive /\ ~mem.flood.active /\ row.flood.active = mem.flood.active
      /\ mem.flood.auto = row.flood.auto /\ jobs[t].flood.auto = past.auto
  BY <1>1 DEF OneRestores, FloodIsStored, In
<1>3. ASSUME NEW s \in Threads
      PROVE  jobs[s].at \notin Beginning /\ (s # t => jobs[s].at \notin Restoring)
  BY <1>1, <1>2 DEF OneBegins, OneRestores, In
<1>4. account.auto # past.auto => jobs[t].at = "giveBack"
  <2>1. \A s \in Threads : s # t => jobs[s].at \notin {"giveBack"}
    BY <1>3 DEF Restoring
  <2> QED BY <1>1, <1>2, <2>1 DEF SettingKept, In
<1>5. /\ account.name # "account" =>
           jobs[t].at \in {"giveBack", "freeName", "takeName"} /\ jobs[t].flood.name
      /\ jobs[t].at = "takeName" => account.name # "channel"
  <2>1. \A s \in Threads : s # t => jobs[s].at \notin {"giveBack", "freeName", "takeName"}
    BY <1>3 DEF Restoring
  <2> QED BY <1>1, <1>2, <2>1 DEF NameKept, In
<1> QED BY <1>2, <1>3, <1>4, <1>5 DEF Critical

\* What has to be seen to after a step of that thread.
RestoringStep(t) ==
  /\ UNCHANGED <<alive, mem, row>> /\ past'.auto = past.auto
  /\ \A s \in Threads : s # t => jobs'[s] = jobs[s]
  /\ jobs'[t].flood = jobs[t].flood /\ jobs'[t].at \in {"freeName", "takeName", "dropChannel", "next"}
  /\ account'.auto = past.auto
  /\ jobs'[t].at = "takeName" => account'.name # "channel"
  /\ account'.name # "account" => jobs'[t].at \in {"freeName", "takeName"} /\ jobs'[t].flood.name

LEMMA RestoringKeeps ==
  ASSUME FloodInv, ~past.cut, NEW t \in Threads, jobs[t].at \in Restoring, RestoringStep(t)
  PROVE  (FloodIsStored /\ OneBegins /\ OneRestores /\ SettingKept /\ NameKept)'
<1>1. /\ alive' /\ ~mem'.flood.active /\ ~row'.flood.active /\ row'.flood.active = mem'.flood.active
      /\ mem'.flood.auto = row'.flood.auto /\ past'.auto = past.auto
      /\ jobs'[t].flood.auto = past'.auto
  BY RestoringFacts DEF RestoringStep
<1>2. \A s \in Threads : jobs'[s].at \notin Beginning /\ (s # t => jobs'[s].at \notin Restoring)
  <2>1. jobs'[t].at \notin Beginning
    BY DEF RestoringStep, Beginning
  <2> QED BY <2>1, RestoringFacts DEF RestoringStep, Critical
<1>3. FloodIsStored'
  BY <1>1 DEF FloodIsStored
<1>4. OneBegins'
  BY <1>2 DEF OneBegins, In
<1>5. OneRestores'
  BY <1>1, <1>2 DEF OneRestores, In
<1>6. SettingKept'
  <2>1. \A s \in Threads : jobs'[s].at \notin {"keepAuto"}
    BY <1>2 DEF Beginning
  <2>2. account'.auto = past'.auto
    BY DEF RestoringStep
  <2> QED BY <1>1, <2>1, <2>2 DEF SettingKept, In
<1>7. NameKept'
  <2>1. \A s \in Threads : /\ jobs'[s].at \notin Beginning \ {"moveName", "undoName"}
                           /\ jobs'[s].at \notin {"dropName", "moveName", "undoName"}
                           /\ s # t => jobs'[s].at \notin {"takeName"}
    BY <1>2 DEF Beginning, Restoring
  <2>2. /\ jobs'[t].at = "takeName" => account'.name # "channel"
        /\ account'.name # "account" => jobs'[t].at \in {"freeName", "takeName"} /\ jobs'[t].flood.name
    BY DEF RestoringStep
  <2> QED BY <2>1, <2>2 DEF NameKept, In
<1> QED BY <1>3, <1>4, <1>5, <1>6, <1>7

-----------------------------------------------------------------------------
(* The steps of the thread with which a flood begins.                      *)

IsAccount(a) ==
  /\ a = [blocked |-> a.blocked, archived |-> a.archived, auto |-> a.auto, name |-> a.name,
          channel |-> a.channel]
  /\ a.auto \in BOOLEAN

LEMMA AccountEffects ==
  ASSUME Shape
  PROVE  /\ IsAccount(account)
         /\ \A x \in BOOLEAN : LET a == [account EXCEPT !.auto = x] IN
              IsAccount(a) /\ a.auto = x /\ a.name = account.name
         /\ \A x : LET a == [account EXCEPT !.name = x] IN
              IsAccount(a) /\ a.name = x /\ a.auto = account.auto
         /\ \A x : LET a == [account EXCEPT !.channel = x] IN
              IsAccount(a) /\ a.name = account.name /\ a.auto = account.auto
         /\ \A x : LET a == [account EXCEPT !.archived = x] IN
              IsAccount(a) /\ a.name = account.name /\ a.auto = account.auto
<1>1. IsAccount(account)
  BY DEF Shape, IsAccount
<1>2. ASSUME NEW x \in BOOLEAN
      PROVE  LET a == [account EXCEPT !.auto = x] IN
               IsAccount(a) /\ a.auto = x /\ a.name = account.name
  BY <1>1 DEF IsAccount
<1>3. ASSUME NEW x
      PROVE  LET a == [account EXCEPT !.name = x] IN
               IsAccount(a) /\ a.name = x /\ a.auto = account.auto
  BY <1>1 DEF IsAccount
<1>4. ASSUME NEW x
      PROVE  LET a == [account EXCEPT !.channel = x] IN
               IsAccount(a) /\ a.name = account.name /\ a.auto = account.auto
  BY <1>1 DEF IsAccount
<1>5. ASSUME NEW x
      PROVE  LET a == [account EXCEPT !.archived = x] IN
               IsAccount(a) /\ a.name = account.name /\ a.auto = account.auto
  BY <1>1 DEF IsAccount
<1> QED BY <1>1, <1>2, <1>3, <1>4, <1>5

LEMMA ShapeStep ==
  ASSUME Shape, alive' \in BOOLEAN, quiet' \in BOOLEAN, faults' \in Nat, IsState(mem'), IsState(row'),
         IsAccount(account'), PastKept,
         jobs' = [t \in Threads |-> jobs'[t]], \A t \in Threads : IsJob(jobs'[t])
  PROVE  Shape'
BY DEF Shape, IsAccount, PastKept

LEMMA CutGrows ==
  ASSUME CaptchaInv, Shape', PastKept,
         ~past.cut /\ ~past'.cut => (FloodIsStored /\ OneBegins /\ OneRestores /\ SettingKept /\ NameKept)'
  PROVE  CaptchaInv'
BY DEF CaptchaInv, FloodInv, PastKept

\* A thread has gone from one step to another.
Gone(t, step) ==
  /\ \A s \in Threads : s # t => jobs'[s] = jobs[s]
  /\ jobs'[t].at = step /\ jobs'[t].flood = jobs[t].flood /\ jobs'[t].c = jobs[t].c

LEMMA CallGoes ==
  ASSUME Shape, NEW t \in Threads, NEW effect, NEW ok, NEW failed, Call(t, effect, ok, failed),
         IsAccount(effect), ok \notin Telling \cup {"done"}, failed \notin Telling \cup {"done"}
  PROVE  /\ Shape' /\ PastKept /\ past'.cut = past.cut /\ UNCHANGED <<alive, quiet, mem, row>>
         /\ (account' = effect /\ Gone(t, ok)) \/ (account' = account /\ Gone(t, failed))
<1>1. /\ UNCHANGED <<alive, mem, row, quiet, past>>
      /\ (account' = effect /\ Goto(t, ok)) \/ (account' = account /\ Goto(t, failed))
      /\ faults' \in Nat
  BY CanFailCounts DEF Call, Quietly, state, timing, Shape
<1>2. /\ Goto(t, ok) => Gone(t, ok)
      /\ Goto(t, failed) => Gone(t, failed)
      /\ jobs' = [s \in Threads |-> jobs'[s]] /\ \A s \in Threads : IsJob(jobs'[s])
  BY <1>1, GotoOn DEF Gone
<1>3. PastKept /\ past'.cut = past.cut
  BY <1>1, PastSteps
<1>4. IsAccount(account')
  BY <1>1, AccountEffects
<1>5. alive' \in BOOLEAN /\ quiet' \in BOOLEAN /\ IsState(mem') /\ IsState(row')
  BY <1>1 DEF Shape
<1>6. Shape'
  BY <1>1, <1>2, <1>3, <1>4, <1>5, ShapeStep
<1> QED BY <1>1, <1>2, <1>3, <1>6

LEMMA PersistGoes ==
  ASSUME Shape, NEW t \in Threads, NEW new, NEW ok, NEW failed, Persist(new, t, ok, failed),
         IsState(new), ok \notin Telling \cup {"done"}, failed \notin Telling \cup {"done"},
         quiet' = quiet, Remember \/ RememberCut
  PROVE  /\ Shape' /\ PastKept /\ UNCHANGED <<alive, account>> /\ mem' = new
         /\ (row' = new /\ Saved /\ Gone(t, ok)) \/ (row' = row /\ ~Saved /\ Gone(t, failed))
         /\ Remember => past'.cut = past.cut
         /\ RememberCut => past'.cut = (past.cut \/ ~Saved)
<1>1. /\ UNCHANGED <<alive, account>> /\ mem' = new /\ IsState(mem') /\ IsState(row') /\ faults' \in Nat
      /\ row' = IF Saved THEN new ELSE row
      /\ Saved => Goto(t, ok)
      /\ ~Saved => Goto(t, failed)
  BY WriteEffect DEF Persist
<1>2. /\ Goto(t, ok) => Gone(t, ok)
      /\ Goto(t, failed) => Gone(t, failed)
      /\ jobs' = [s \in Threads |-> jobs'[s]] /\ \A s \in Threads : IsJob(jobs'[s])
  BY <1>1, GotoOn DEF Gone
<1>3. /\ PastKept
      /\ Remember => past'.cut = past.cut
      /\ RememberCut => past'.cut = (past.cut \/ ~Saved)
  BY PastSteps
<1>4. IsAccount(account') /\ alive' \in BOOLEAN /\ quiet' \in BOOLEAN
  BY <1>1, AccountEffects DEF Shape
<1>5. Shape'
  BY <1>1, <1>2, <1>3, <1>4, ShapeStep
<1> QED BY <1>1, <1>2, <1>3, <1>5

\* Putting something back goes on, unless it fails.
LEMMA PutBackGoes ==
  ASSUME Shape, NEW t \in Threads, NEW step, NEW effect, NEW next, PutBack(t, step, effect, next),
         IsAccount(effect), next # "done", next \in Restoring => jobs[t].flood \in Flags,
         next \notin Telling \ Restoring
  PROVE  /\ Shape' /\ PastKept /\ alive /\ jobs[t].at = step /\ UNCHANGED <<alive, quiet, mem, row>>
         /\ Gone(t, next)
         /\ past'.cut \/ account' = effect
<1>1. /\ alive /\ jobs[t].at = step /\ UNCHANGED <<alive, mem, row, quiet>> /\ Goto(t, next)
      /\ faults' \in Nat
      /\ account' = effect \/ account' = account
  BY CanFailCounts DEF PutBack, At, state, timing, Shape
<1>2. /\ Gone(t, next)
      /\ jobs' = [s \in Threads |-> jobs'[s]] /\ \A s \in Threads : IsJob(jobs'[s])
  <2>1. IsJob(jobs'[t])
    BY <1>1, GotoStep DEF IsJob, Telling, Restoring
  <2> QED BY <1>1, <2>1, GotoStep, GotoEffect DEF Gone, Shape
<1>3. PastKept /\ (past'.cut \/ account' = effect)
  BY PastSteps DEF PutBack, PastKept, Shape
<1>4. IsAccount(account') /\ alive' \in BOOLEAN /\ quiet' \in BOOLEAN /\ IsState(mem') /\ IsState(row')
  BY <1>1, AccountEffects DEF Shape
<1>5. Shape'
  BY <1>1, <1>2, <1>3, <1>4, ShapeStep
<1> QED BY <1>1, <1>2, <1>3, <1>5

\* What is written down of a flood.
LEMMA NotedSteps ==
  ASSUME Shape
  PROVE  /\ \A x \in BOOLEAN : LET new == [mem EXCEPT !.flood.auto = x] IN
              /\ IsState(new) /\ new.flood.auto = x
              /\ new.flood.active = mem.flood.active /\ new.flood.name = mem.flood.name
         /\ \A x \in BOOLEAN : LET new == [mem EXCEPT !.flood.name = x, !.flood.channel = x] IN
              /\ IsState(new) /\ new.flood.name = x
              /\ new.flood.active = mem.flood.active /\ new.flood.auto = mem.flood.auto
<1>1. mem.flood \in Flags
  BY DEF Shape, IsState
<1>2. ASSUME NEW x \in BOOLEAN
      PROVE  LET new == [mem EXCEPT !.flood.auto = x] IN
              /\ IsState(new) /\ new.flood.auto = x
              /\ new.flood.active = mem.flood.active /\ new.flood.name = mem.flood.name
  <2> DEFINE f == [mem.flood EXCEPT !.auto = x]
             g == [mem EXCEPT !.flood = f]
  <2>1. /\ f \in Flags /\ f.auto = x
        /\ f.active = mem.flood.active /\ f.name = mem.flood.name
    BY <1>1 DEF Flags
  <2>2. [mem EXCEPT !.flood.auto = x] = g
    OBVIOUS
  <2> HIDE DEF f
  <2>3. IsState(g) /\ g.flood = f
    BY <2>1, StateWith
  <2> HIDE DEF g
  <2> QED BY <2>1, <2>2, <2>3
<1>3. ASSUME NEW x \in BOOLEAN
      PROVE  LET new == [mem EXCEPT !.flood.name = x, !.flood.channel = x] IN
              /\ IsState(new) /\ new.flood.name = x
              /\ new.flood.active = mem.flood.active /\ new.flood.auto = mem.flood.auto
  <2> DEFINE e == [mem.flood EXCEPT !.name = x]
             f == [e EXCEPT !.channel = x]
             m == [mem EXCEPT !.flood = e]
             g == [m EXCEPT !.flood = [@ EXCEPT !.channel = x]]
  <2>1. /\ e \in Flags /\ e.name = x
        /\ e.active = mem.flood.active /\ e.auto = mem.flood.auto
    BY <1>1 DEF Flags
  <2>2. [mem EXCEPT !.flood.name = x, !.flood.channel = x] = g
    OBVIOUS
  <2> HIDE DEF e
  <2>3. f \in Flags /\ f.name = x /\ f.active = mem.flood.active /\ f.auto = mem.flood.auto
    BY <2>1 DEF Flags
  <2>4. IsState(m) /\ m.flood = e
    BY <2>1, StateWith
  <2> HIDE DEF m
  <2>5. g = [m EXCEPT !.flood = f]
    BY <2>4
  <2> HIDE DEF g, f
  <2>6. IsState(g) /\ g.flood = f
    BY <2>3, <2>4, <2>5 DEF IsState
  <2> QED BY <2>2, <2>3, <2>6
<1> QED BY <1>2, <1>3

LEMMA BeginningMoves ==
  ASSUME CaptchaInv, NEW t \in Threads, jobs[t].at \in Beginning, Shape', PastKept,
         ~past.cut /\ ~past'.cut => BeginningStep(t)
  PROVE  CaptchaInv'
BY BeginningKeeps, CutGrows DEF CaptchaInv

\* The calls of that thread.
LEMMA BeginningCalls ==
  ASSUME CaptchaInv, NEW t \in Threads,
         SetAuto(t) \/ WhoAmI(t) \/ Create(t) \/ DropName(t) \/ MoveName(t) \/ UndoChannel(t)
  PROVE  CaptchaInv'
<1>1. Shape BY DEF CaptchaInv
<1>2. IsAccount(account)
  BY <1>1, AccountEffects
<1>3. CASE SetAuto(t)
  <2> DEFINE effect == [account EXCEPT !.auto = TRUE]
  <2>1. jobs[t].at = "setAuto" /\ Call(t, effect, "shutOut", "shutOut")
    BY <1>3 DEF SetAuto, At
  <2>2. IsAccount(effect) /\ effect.name = account.name
    BY <1>1, AccountEffects
  <2> HIDE DEF effect
  <2>3. /\ Shape' /\ PastKept /\ past'.cut = past.cut /\ UNCHANGED <<alive, quiet, mem, row>>
        /\ account' \in {effect, account} /\ Gone(t, "shutOut")
    BY <1>1, <2>1, <2>2, CallGoes DEF Telling, Restoring
  <2>4. ASSUME ~past.cut PROVE BeginningStep(t)
    BY <2>1, <2>2, <2>3, <2>4, BeginningFacts
    DEF CaptchaInv, BeginningStep, Gone, PastKept, Beginning, Restoring
  <2> QED BY <2>1, <2>3, <2>4, BeginningMoves DEF Beginning
<1>4. CASE WhoAmI(t)
  <2> DEFINE ok == IF account.name = "account" THEN "create" ELSE "awaitEnd"
  <2>1. jobs[t].at = "whoAmI" /\ Call(t, account, ok, "awaitEnd")
    BY <1>4 DEF WhoAmI, At
  <2>2. ok \in {"create", "awaitEnd"}
    OBVIOUS
  <2> HIDE DEF ok
  <2>3. /\ Shape' /\ PastKept /\ past'.cut = past.cut /\ UNCHANGED <<alive, quiet, mem, row>>
        /\ account' = account /\ (Gone(t, ok) \/ Gone(t, "awaitEnd"))
    BY <1>1, <1>2, <2>1, <2>2, CallGoes DEF Telling, Restoring
  <2>4. ASSUME ~past.cut PROVE BeginningStep(t)
    BY <2>1, <2>2, <2>3, <2>4, BeginningFacts
    DEF CaptchaInv, BeginningStep, Gone, PastKept, Beginning, Restoring
  <2> QED BY <2>1, <2>3, <2>4, BeginningMoves DEF Beginning
<1>5. CASE Create(t)
  <2> DEFINE effect == [account EXCEPT !.channel = TRUE]
  <2>1. jobs[t].at = "create" /\ Call(t, effect, "keepName", "awaitEnd")
    BY <1>5 DEF Create, At
  <2>2. IsAccount(effect) /\ effect.name = account.name /\ effect.auto = account.auto
    BY <1>1, AccountEffects
  <2> HIDE DEF effect
  <2>3. /\ Shape' /\ PastKept /\ past'.cut = past.cut /\ UNCHANGED <<alive, quiet, mem, row>>
        /\ account' \in {effect, account} /\ (Gone(t, "keepName") \/ Gone(t, "awaitEnd"))
    BY <1>1, <2>1, <2>2, CallGoes DEF Telling, Restoring
  <2>4. ASSUME ~past.cut PROVE BeginningStep(t)
    BY <2>1, <2>2, <2>3, <2>4, BeginningFacts
    DEF CaptchaInv, BeginningStep, Gone, PastKept, Beginning, Restoring
  <2> QED BY <2>1, <2>3, <2>4, BeginningMoves DEF Beginning
<1>6. CASE DropName(t)
  <2> DEFINE effect == [account EXCEPT !.name = "nobody"]
  <2>1. jobs[t].at = "dropName" /\ Call(t, effect, "moveName", "undoBoth")
    BY <1>6 DEF DropName, At
  <2>2. IsAccount(effect) /\ effect.auto = account.auto
    BY <1>1, AccountEffects
  <2> HIDE DEF effect
  <2>3. /\ Shape' /\ PastKept /\ past'.cut = past.cut /\ UNCHANGED <<alive, quiet, mem, row>>
        /\ (account' = effect /\ Gone(t, "moveName")) \/ (account' = account /\ Gone(t, "undoBoth"))
    BY <1>1, <2>1, <2>2, CallGoes DEF Telling, Restoring
  <2>4. ASSUME ~past.cut PROVE BeginningStep(t)
    BY <2>1, <2>2, <2>3, <2>4, BeginningFacts
    DEF CaptchaInv, BeginningStep, Gone, PastKept, Beginning, Restoring
  <2> QED BY <2>1, <2>3, <2>4, BeginningMoves DEF Beginning
<1>7. CASE MoveName(t)
  <2> DEFINE effect == [account EXCEPT !.name = "channel"]
  <2>1. jobs[t].at = "moveName" /\ Call(t, effect, "awaitEnd", "undoName")
    BY <1>7 DEF MoveName, At
  <2>2. IsAccount(effect) /\ effect.auto = account.auto
    BY <1>1, AccountEffects
  <2> HIDE DEF effect
  <2>3. /\ Shape' /\ PastKept /\ past'.cut = past.cut /\ UNCHANGED <<alive, quiet, mem, row>>
        /\ (account' = effect /\ Gone(t, "awaitEnd")) \/ (account' = account /\ Gone(t, "undoName"))
    BY <1>1, <2>1, <2>2, CallGoes DEF Telling, Restoring
  <2>4. ASSUME ~past.cut PROVE BeginningStep(t)
    BY <2>1, <2>2, <2>3, <2>4, BeginningFacts
    DEF CaptchaInv, BeginningStep, Gone, PastKept, Beginning, Restoring
  <2> QED BY <2>1, <2>3, <2>4, BeginningMoves DEF Beginning
<1>8. CASE UndoChannel(t)
  <2> DEFINE effect == [account EXCEPT !.channel = FALSE]
             next == IF jobs[t].at = "undoBoth" THEN "forget" ELSE "awaitEnd"
  <2>1. jobs[t].at \in {"undoBoth", "undoChannel"} /\ Call(t, effect, next, next)
    BY <1>8 DEF UndoChannel, At
  <2>2. IsAccount(effect) /\ effect.name = account.name /\ effect.auto = account.auto
    BY <1>1, AccountEffects
  <2>3. next \in {"forget", "awaitEnd"}
    OBVIOUS
  <2> HIDE DEF effect, next
  <2>4. /\ Shape' /\ PastKept /\ past'.cut = past.cut /\ UNCHANGED <<alive, quiet, mem, row>>
        /\ account' \in {effect, account} /\ Gone(t, next)
    BY <1>1, <2>1, <2>2, <2>3, CallGoes DEF Telling, Restoring
  <2>5. ASSUME ~past.cut PROVE BeginningStep(t)
    BY <2>1, <2>2, <2>3, <2>4, <2>5, BeginningFacts
    DEF CaptchaInv, BeginningStep, Gone, PastKept, Beginning, Restoring
  <2> QED BY <2>1, <2>4, <2>5, BeginningMoves DEF Beginning
<1> QED BY <1>3, <1>4, <1>5, <1>6, <1>7, <1>8

\* What that thread reads, writes down, and does without a failure to see.
LEMMA BeginningWrites ==
  ASSUME CaptchaInv, NEW t \in Threads,
         ReadAuto(t) \/ KeepAuto(t) \/ ShutOut(t) \/ KeepName(t) \/ UndoName(t) \/ Forget(t)
  PROVE  CaptchaInv'
<1>1. Shape BY DEF CaptchaInv
<1>2. ASSUME NEW new, NEW ok, NEW failed, Persist(new, t, ok, failed), IsState(new), quiet' = quiet,
             jobs[t].at \in Beginning \ {"readAuto", "moveName", "undoName"},
             new.flood.active = mem.flood.active,
             ~past.cut => new.flood.auto = past.auto,
             ok \in {"setAuto", "dropName", "awaitEnd"}, failed \in {"setAuto", "undoChannel", "awaitEnd"},
             ok = "dropName" => new.flood.name,
             \/ Remember /\ jobs[t].at # "keepAuto" /\ new.flood.auto = mem.flood.auto
             \/ RememberCut
      PROVE  CaptchaInv'
  <2>1. /\ Shape' /\ PastKept /\ UNCHANGED <<alive, account>> /\ mem' = new
        /\ (row' = new /\ Saved /\ Gone(t, ok)) \/ (row' = row /\ ~Saved /\ Gone(t, failed))
        /\ Remember => past'.cut = past.cut
        /\ RememberCut => past'.cut = (past.cut \/ ~Saved)
    BY <1>1, <1>2, PersistGoes DEF Telling, Restoring
  <2>2. ASSUME ~past.cut, ~past'.cut PROVE BeginningStep(t)
    <3>1. FloodInv BY DEF CaptchaInv
    <3>2. /\ account.name = "account" /\ mem.flood.auto = row.flood.auto
          /\ row.flood.active = mem.flood.active
          /\ jobs[t].at # "keepAuto" => row.flood.auto = past.auto
      BY <1>2, <2>2, <3>1, BeginningFacts
    <3>3. CASE row' = new /\ Saved /\ Gone(t, ok)
      BY <1>2, <2>1, <2>2, <3>2, <3>3 DEF BeginningStep, Gone, PastKept, Restoring
    <3>4. CASE row' = row /\ ~Saved /\ Gone(t, failed)
      <4>1. jobs[t].at # "keepAuto" /\ new.flood.auto = mem.flood.auto
        BY <1>2, <2>1, <2>2, <3>4
      <4> QED BY <1>2, <2>1, <2>2, <3>2, <3>4, <4>1 DEF BeginningStep, Gone, PastKept, Restoring
    <3> QED BY <2>1, <3>3, <3>4
  <2> QED BY <1>2, <2>1, <2>2, BeginningMoves
<1>3. CASE ReadAuto(t)
  <2>1. jobs[t].at = "readAuto" /\ UNCHANGED <<alive, mem, row, quiet, account>>
    BY <1>3 DEF ReadAuto, At, state, timing
  <2>2. /\ IsAccount(account') /\ alive' \in BOOLEAN /\ quiet' \in BOOLEAN
        /\ IsState(mem') /\ IsState(row')
    BY <1>1, <2>1, AccountEffects DEF Shape
  <2>3. CASE CanFail /\ Goto(t, "setAuto") /\ past' = [past EXCEPT !.cut = TRUE]
    <3>1. PastKept /\ past'.cut
      BY <1>1, <2>3 DEF Shape, PastKept
    <3>2. /\ jobs' = [s \in Threads |-> jobs'[s]] /\ \A s \in Threads : IsJob(jobs'[s])
          /\ faults' \in Nat
      BY <1>1, <2>3, GotoOn, CanFailCounts DEF Telling, Restoring
    <3>3. Shape'
      BY <1>1, <2>2, <3>1, <3>2, ShapeStep
    <3> QED BY <2>1, <3>1, <3>3, BeginningMoves DEF Beginning
  <2>4. CASE /\ jobs' = [jobs EXCEPT ![t].at = "keepAuto", ![t].c = account.auto]
             /\ UNCHANGED <<faults, past>>
    <3> DEFINE r == [jobs[t] EXCEPT !.at = "keepAuto"]
               j == [r EXCEPT !.c = account.auto]
    <3>1. jobs' = [jobs EXCEPT ![t] = j]
      BY <1>1, <2>4 DEF Shape
    <3>2. r = [at |-> "keepAuto", user |-> jobs[t].user, c |-> jobs[t].c, says |-> jobs[t].says,
               config |-> jobs[t].config, users |-> jobs[t].users, flood |-> jobs[t].flood]
      BY <1>1 DEF Shape, IsJob
    <3> HIDE DEF r
    <3>3. j = [at |-> "keepAuto", user |-> jobs[t].user, c |-> account.auto, says |-> jobs[t].says,
               config |-> jobs[t].config, users |-> jobs[t].users, flood |-> jobs[t].flood]
      BY <3>2
    <3> HIDE DEF j
    <3>4. IsJob(j) /\ j.at = "keepAuto" /\ j.c = account.auto
      BY <1>1, <3>3 DEF IsJob, Restoring, Shape
    <3>5. /\ jobs' = [s \in Threads |-> jobs'[s]] /\ \A s \in Threads : IsJob(jobs'[s])
          /\ jobs'[t] = j /\ \A s \in Threads : s # t => jobs'[s] = jobs[s]
      BY <1>1, <3>1, <3>4 DEF Shape
    <3>6. PastKept /\ past'.cut = past.cut /\ faults' \in Nat
      BY <1>1, <2>4, PastSteps DEF Shape
    <3>7. Shape'
      BY <1>1, <2>2, <3>5, <3>6, ShapeStep
    <3>8. ASSUME ~past.cut PROVE BeginningStep(t)
      <4>1. /\ account.name = "account" /\ account.auto = past.auto
            /\ mem.flood.auto = row.flood.auto
        BY <2>1, <3>8, BeginningFacts DEF CaptchaInv, Beginning
      <4> QED BY <2>1, <2>4, <3>4, <3>5, <4>1 DEF BeginningStep, Restoring
    <3> QED BY <2>1, <3>6, <3>7, <3>8, BeginningMoves DEF Beginning
  <2> QED BY <1>3, <2>3, <2>4 DEF ReadAuto
<1>4. CASE KeepAuto(t)
  <2> DEFINE new == [mem EXCEPT !.flood.auto = jobs[t].c]
  <2>1. /\ jobs[t].at = "keepAuto" /\ Persist(new, t, "setAuto", "setAuto") /\ RememberCut
        /\ quiet' = quiet
    BY <1>4 DEF KeepAuto, At, timing
  <2>2. jobs[t].c \in BOOLEAN
    BY <1>1, <2>1 DEF Shape, IsJob
  <2>3. IsState(new) /\ new.flood.active = mem.flood.active /\ new.flood.auto = jobs[t].c
    BY <1>1, <2>2, NotedSteps
  <2>4. ~past.cut => jobs[t].c = past.auto
    BY <2>1, BeginningFacts DEF CaptchaInv, Beginning
  <2> HIDE DEF new
  <2> QED BY <1>2, <2>1, <2>3, <2>4 DEF Beginning
<1>5. CASE ShutOut(t)
  <2> DEFINE effect == [account EXCEPT !.archived = @ \cup jobs[t].users]
             step == IF jobs[t].config.floodUsername THEN "whoAmI" ELSE "awaitEnd"
  <2>1. /\ jobs[t].at = "shutOut" /\ account' = effect /\ Goto(t, step)
        /\ UNCHANGED <<alive, mem, row, quiet, past, faults>>
    BY <1>5 DEF ShutOut, At, Quietly, state, timing
  <2>2. step \in {"whoAmI", "awaitEnd"}
    OBVIOUS
  <2>3. IsAccount(effect) /\ effect.name = account.name /\ effect.auto = account.auto
    BY <1>1, AccountEffects
  <2> HIDE DEF effect, step
  <2>4. /\ jobs' = [s \in Threads |-> jobs'[s]] /\ \A s \in Threads : IsJob(jobs'[s])
        /\ Gone(t, step)
    BY <1>1, <2>1, <2>2, GotoOn DEF Gone, Telling, Restoring
  <2>5. PastKept /\ past'.cut = past.cut
    BY <1>1, <2>1, PastSteps
  <2>6. /\ alive' \in BOOLEAN /\ quiet' \in BOOLEAN /\ IsState(mem') /\ IsState(row')
        /\ faults' \in Nat
    BY <1>1, <2>1 DEF Shape
  <2>7. Shape'
    BY <1>1, <2>1, <2>3, <2>4, <2>5, <2>6, ShapeStep
  <2>8. ASSUME ~past.cut PROVE BeginningStep(t)
    BY <2>1, <2>2, <2>3, <2>4, <2>5, <2>8, BeginningFacts
    DEF CaptchaInv, BeginningStep, Gone, PastKept, Beginning, Restoring
  <2> QED BY <2>1, <2>5, <2>7, <2>8, BeginningMoves DEF Beginning
<1>6. CASE KeepName(t)
  <2> DEFINE new == [mem EXCEPT !.flood.name = TRUE, !.flood.channel = TRUE]
  <2>1. /\ jobs[t].at = "keepName" /\ Persist(new, t, "dropName", "undoChannel") /\ Remember
        /\ quiet' = quiet
    BY <1>6 DEF KeepName, At, timing
  <2>2. /\ IsState(new) /\ new.flood.active = mem.flood.active /\ new.flood.auto = mem.flood.auto
        /\ new.flood.name
    BY <1>1, NotedSteps
  <2>3. ~past.cut => mem.flood.auto = past.auto
    BY <2>1, BeginningFacts DEF CaptchaInv, Beginning
  <2> HIDE DEF new
  <2> QED BY <1>2, <2>1, <2>2, <2>3 DEF Beginning
<1>7. CASE Forget(t)
  <2> DEFINE new == [mem EXCEPT !.flood.name = FALSE, !.flood.channel = FALSE]
  <2>1. /\ jobs[t].at = "forget" /\ Persist(new, t, "awaitEnd", "awaitEnd") /\ Remember
        /\ quiet' = quiet
    BY <1>7 DEF Forget, At, timing
  <2>2. IsState(new) /\ new.flood.active = mem.flood.active /\ new.flood.auto = mem.flood.auto
    BY <1>1, NotedSteps
  <2>3. ~past.cut => mem.flood.auto = past.auto
    BY <2>1, BeginningFacts DEF CaptchaInv, Beginning
  <2> HIDE DEF new
  <2> QED BY <1>2, <2>1, <2>2, <2>3 DEF Beginning
<1>8. CASE UndoName(t)
  <2> DEFINE effect == [account EXCEPT !.name = "account"]
  <2>1. PutBack(t, "undoName", effect, "undoBoth")
    BY <1>8 DEF UndoName
  <2>2. IsAccount(effect) /\ effect.name = "account" /\ effect.auto = account.auto
    BY <1>1, AccountEffects
  <2> HIDE DEF effect
  <2>3. /\ Shape' /\ PastKept /\ jobs[t].at = "undoName" /\ UNCHANGED <<alive, quiet, mem, row>>
        /\ Gone(t, "undoBoth") /\ (past'.cut \/ account' = effect)
    BY <1>1, <2>1, <2>2, PutBackGoes DEF Telling, Restoring
  <2>4. ASSUME ~past.cut, ~past'.cut PROVE BeginningStep(t)
    BY <2>2, <2>3, <2>4, BeginningFacts
    DEF CaptchaInv, BeginningStep, Gone, PastKept, Beginning, Restoring
  <2> QED BY <2>3, <2>4, BeginningMoves DEF Beginning
<1> QED BY <1>3, <1>4, <1>5, <1>6, <1>7, <1>8

-----------------------------------------------------------------------------
(* The steps of the thread with which a flood ends.                        *)

LEMMA RestoringMoves ==
  ASSUME CaptchaInv, NEW t \in Threads, jobs[t].at \in Restoring, Shape', PastKept,
         ~past.cut /\ ~past'.cut => RestoringStep(t)
  PROVE  CaptchaInv'
BY RestoringKeeps, CutGrows DEF CaptchaInv

LEMMA RestoringActs ==
  ASSUME CaptchaInv, NEW t \in Threads, GiveBack(t) \/ FreeName(t) \/ TakeName(t) \/ DropChannel(t)
  PROVE  CaptchaInv'
<1>1. Shape BY DEF CaptchaInv
<1> DEFINE f == jobs[t].flood
<1>2. jobs[t].at \in Restoring /\ f \in Flags
  BY <1>1 DEF GiveBack, FreeName, TakeName, DropChannel, PutBack, At, Restoring, Shape, IsJob
<1>3. ASSUME NEW step, NEW effect, NEW next, PutBack(t, step, effect, next), IsAccount(effect),
             next \in {"freeName", "takeName", "dropChannel", "next"}
      PROVE  /\ Shape' /\ PastKept /\ UNCHANGED <<alive, mem, row>>
             /\ Gone(t, next) /\ (past'.cut \/ account' = effect)
  BY <1>1, <1>2, <1>3, PutBackGoes DEF Telling, Restoring
<1>4. CASE GiveBack(t)
  <2> DEFINE effect == [account EXCEPT !.auto = f.auto]
             next == IF f.name \/ f.channel THEN "freeName" ELSE "next"
  <2>1. PutBack(t, "giveBack", effect, next) /\ jobs[t].at = "giveBack"
    BY <1>4 DEF GiveBack, PutBack, At
  <2>2. IsAccount(effect) /\ effect.auto = f.auto /\ effect.name = account.name
    BY <1>1, <1>2, AccountEffects DEF Flags
  <2>3. next \in {"freeName", "next"} /\ (f.name => next = "freeName")
    OBVIOUS
  <2> HIDE DEF effect, next
  <2>4. /\ Shape' /\ PastKept /\ UNCHANGED <<alive, mem, row>>
        /\ Gone(t, next) /\ (past'.cut \/ account' = effect)
    BY <1>3, <2>1, <2>2, <2>3
  <2>5. ASSUME ~past.cut, ~past'.cut PROVE RestoringStep(t)
    BY <1>2, <2>1, <2>2, <2>3, <2>4, <2>5, RestoringFacts DEF CaptchaInv, RestoringStep, Gone, PastKept
  <2> QED BY <1>2, <2>4, <2>5, RestoringMoves
<1>5. CASE FreeName(t)
  <2> DEFINE name == IF account.name = "channel" THEN "nobody" ELSE account.name
             effect == [account EXCEPT !.name = name]
  <2>1. PutBack(t, "freeName", effect, "takeName") /\ jobs[t].at = "freeName"
    BY <1>5 DEF FreeName, PutBack, At
  <2>2. name # "channel" /\ (name # "account" => account.name # "account")
    OBVIOUS
  <2> HIDE DEF name
  <2>3. IsAccount(effect) /\ effect.auto = account.auto /\ effect.name = name
    BY <1>1, AccountEffects
  <2> HIDE DEF effect
  <2>4. /\ Shape' /\ PastKept /\ UNCHANGED <<alive, mem, row>>
        /\ Gone(t, "takeName") /\ (past'.cut \/ account' = effect)
    BY <1>3, <2>1, <2>3
  <2>5. ASSUME ~past.cut, ~past'.cut PROVE RestoringStep(t)
    BY <1>2, <2>1, <2>2, <2>3, <2>4, <2>5, RestoringFacts DEF CaptchaInv, RestoringStep, Gone, PastKept
  <2> QED BY <1>2, <2>4, <2>5, RestoringMoves
<1>6. CASE TakeName(t)
  <2> DEFINE name == IF account.name = "channel" THEN account.name ELSE "account"
             effect == [account EXCEPT !.name = name]
  <2>1. PutBack(t, "takeName", effect, "dropChannel") /\ jobs[t].at = "takeName"
    BY <1>6 DEF TakeName, PutBack, At
  <2>2. account.name # "channel" => name = "account"
    OBVIOUS
  <2> HIDE DEF name
  <2>3. IsAccount(effect) /\ effect.auto = account.auto /\ effect.name = name
    BY <1>1, AccountEffects
  <2> HIDE DEF effect
  <2>4. /\ Shape' /\ PastKept /\ UNCHANGED <<alive, mem, row>>
        /\ Gone(t, "dropChannel") /\ (past'.cut \/ account' = effect)
    BY <1>3, <2>1, <2>3
  <2>5. ASSUME ~past.cut, ~past'.cut PROVE RestoringStep(t)
    BY <1>2, <2>1, <2>2, <2>3, <2>4, <2>5, RestoringFacts DEF CaptchaInv, RestoringStep, Gone, PastKept
  <2> QED BY <1>2, <2>4, <2>5, RestoringMoves
<1>7. CASE DropChannel(t)
  <2> DEFINE name == IF account.name = "channel" THEN "nobody" ELSE account.name
             e == [account EXCEPT !.channel = FALSE]
             effect == [e EXCEPT !.name = name]
  <2>1. PutBack(t, "dropChannel", effect, "next") /\ jobs[t].at = "dropChannel"
    BY <1>7 DEF DropChannel, PutBack, At
  <2>2. account.name = "account" => name = "account"
    OBVIOUS
  <2> HIDE DEF name
  <2>3. IsAccount(e) /\ e.auto = account.auto
    BY <1>1, AccountEffects
  <2> HIDE DEF e
  <2>4. IsAccount(effect) /\ effect.auto = account.auto /\ effect.name = name
    BY <2>3 DEF IsAccount
  <2> HIDE DEF effect
  <2>5. /\ Shape' /\ PastKept /\ UNCHANGED <<alive, mem, row>>
        /\ Gone(t, "next") /\ (past'.cut \/ account' = effect)
    BY <1>3, <2>1, <2>4
  <2>6. ASSUME ~past.cut, ~past'.cut PROVE RestoringStep(t)
    BY <1>2, <2>1, <2>2, <2>4, <2>5, <2>6, RestoringFacts DEF CaptchaInv, RestoringStep, Gone, PastKept
  <2> QED BY <1>2, <2>5, <2>6, RestoringMoves
<1> QED BY <1>4, <1>5, <1>6, <1>7

-----------------------------------------------------------------------------
(* A flood starts, and ends.                                               *)

LEMMA FloodStartsKeeps ==
  ASSUME CaptchaInv, NEW t \in Threads, FloodStarts(t)
  PROVE  CaptchaInv'
<1>1. Shape BY DEF CaptchaInv
<1> DEFINE recent == Recent(jobs[t].user)
           pending == [v \in Users |-> IF v \in recent THEN Nothing ELSE mem.pending[v]]
           a == [mem EXCEPT !.flood.active = TRUE]
           b == [a EXCEPT !.flood.users = recent]
           c == [b EXCEPT !.flood.recent = recent]
           new == [c EXCEPT !.pending = pending]
           r == [jobs[t] EXCEPT !.at = "readAuto"]
           j == IF Saved THEN [r EXCEPT !.users = recent] ELSE Resting
<1>2. /\ alive /\ jobs[t].at = "observe" /\ ~mem.flood.active
      /\ UNCHANGED <<alive, account>> /\ quiet' = FALSE
  BY DEF FloodStarts, At
<1>3. Write(new)
  BY <1>1 DEF FloodStarts, Shape, IsState
<1>4. jobs' = [jobs EXCEPT ![t] = j]
  BY <1>1 DEF FloodStarts, Shape
<1>5. /\ PastKept
      /\ ~past'.cut => Saved /\ ~past.cut /\ \A h \in Threads : jobs[h].at \notin Restoring
  <2>1. past' = [[past EXCEPT !.unsaved = @ \/ ~Saved]
                  EXCEPT !.cut = @ \/ ~Saved \/ \E h \in Threads : jobs[h].at \in Restoring]
    BY DEF FloodStarts
  <2> DEFINE e == [past EXCEPT !.unsaved = @ \/ ~Saved]
             cut == past.cut \/ ~Saved \/ \E h \in Threads : jobs[h].at \in Restoring
  <2>2. e = [ended |-> past.ended, revived |-> past.revived, crossed |-> past.crossed,
             untimed |-> past.untimed, unsaved |-> past.unsaved \/ ~Saved,
             cut |-> past.cut, auto |-> past.auto]
    BY <1>1 DEF Shape
  <2>3. past' = [e EXCEPT !.cut = cut]
    BY <2>1, <2>2
  <2> HIDE DEF e
  <2>4. past' = [ended |-> past.ended, revived |-> past.revived, crossed |-> past.crossed,
             untimed |-> past.untimed, unsaved |-> past.unsaved \/ ~Saved,
                 cut |-> cut, auto |-> past.auto]
    BY <2>2, <2>3
  <2> QED BY <2>4 DEF PastKept
<1>6. /\ IsState(new) /\ new.flood.active = TRUE /\ new.flood.auto = mem.flood.auto
  <2>1. recent \in SUBSET Users /\ mem.flood \in Flags
    BY <1>1, <1>2 DEF Shape, IsJob, IsState, Flags, Recent
  <2> HIDE DEF recent
  <2> DEFINE f == [mem.flood EXCEPT !.active = TRUE]
             g == [f EXCEPT !.users = recent]
             h == [g EXCEPT !.recent = recent]
  <2>2. f \in Flags /\ f.active = TRUE /\ f.auto = mem.flood.auto
    BY <2>1 DEF Flags
  <2>3. a = [mem EXCEPT !.flood = f]
    OBVIOUS
  <2> HIDE DEF f
  <2>4. g \in Flags /\ g.active = TRUE /\ g.auto = mem.flood.auto
    BY <2>1, <2>2 DEF Flags
  <2>5. IsState(a) /\ a.flood = f
    BY <1>1, <2>2, <2>3, StateWith
  <2> HIDE DEF a
  <2>6. b = [a EXCEPT !.flood = g]
    BY <2>5
  <2> HIDE DEF g
  <2>7. h \in Flags /\ h.active = TRUE /\ h.auto = mem.flood.auto
    BY <2>1, <2>4 DEF Flags
  <2>8. IsState(b) /\ b.flood = g
    BY <2>4, <2>5, <2>6 DEF IsState
  <2> HIDE DEF b
  <2>9. c = [b EXCEPT !.flood = h]
    BY <2>8
  <2> HIDE DEF h
  <2>10. IsState(c) /\ c.flood = h
    BY <2>7, <2>8, <2>9 DEF IsState
  <2> HIDE DEF c, pending
  <2>11. IsState(new) /\ new.flood = c.flood
    BY <2>10 DEF IsState
  <2> QED BY <2>7, <2>10, <2>11
<1>7. /\ IsJob(j) /\ (Saved => j.at = "readAuto") /\ j.at \in {"readAuto", "idle"}
  <2>1. r = [at |-> "readAuto", user |-> jobs[t].user, c |-> jobs[t].c, says |-> jobs[t].says,
             config |-> jobs[t].config, users |-> jobs[t].users, flood |-> jobs[t].flood]
    BY <1>1 DEF Shape, IsJob
  <2> HIDE DEF r, recent
  <2>2. [r EXCEPT !.users = recent] =
            [at |-> "readAuto", user |-> jobs[t].user, c |-> jobs[t].c, says |-> jobs[t].says,
             config |-> jobs[t].config, users |-> recent, flood |-> jobs[t].flood]
    BY <2>1
  <2>3. CASE Saved
    BY <2>2, <2>3 DEF IsJob, Restoring
  <2>4. CASE ~Saved
    BY <2>4, RestingIsJob
  <2> QED BY <2>3, <2>4
<1> HIDE DEF new, j
<1>8. /\ mem' = new /\ IsState(mem') /\ IsState(row') /\ faults' \in Nat
      /\ row' = IF Saved THEN new ELSE row
  BY <1>1, <1>3, <1>6, WriteEffect
<1>9. /\ jobs' = [s \in Threads |-> jobs'[s]] /\ \A s \in Threads : IsJob(jobs'[s])
      /\ jobs'[t] = j /\ \A s \in Threads : s # t => jobs'[s] = jobs[s]
  BY <1>1, <1>4, <1>7 DEF Shape
<1>10. Shape'
  <2>1. IsAccount(account') /\ alive' \in BOOLEAN /\ quiet' \in BOOLEAN
    BY <1>1, <1>2, AccountEffects DEF Shape
  <2> QED BY <1>1, <1>5, <1>8, <1>9, <2>1, ShapeStep
<1>11. ASSUME ~past.cut, ~past'.cut
       PROVE  (FloodIsStored /\ OneBegins /\ OneRestores /\ SettingKept /\ NameKept)'
  <2>1. FloodIsStored /\ OneBegins /\ OneRestores /\ SettingKept /\ NameKept
    BY <1>11 DEF CaptchaInv, FloodInv
  <2>2. /\ row' = new /\ mem' = new /\ jobs'[t].at = "readAuto" /\ alive' /\ ~quiet'
        /\ mem.flood.auto = row.flood.auto /\ ~row.flood.active /\ past'.auto = past.auto
        /\ account' = account
    BY <1>2, <1>5, <1>7, <1>8, <1>9, <1>11, <2>1 DEF FloodIsStored, PastKept
  <2>3. ASSUME NEW s \in Threads
        PROVE  jobs[s].at \notin Critical /\ (s # t => jobs'[s].at \notin Critical)
    BY <1>2, <1>5, <1>9, <1>11, <2>1 DEF OneBegins, In, Critical
  <2>4. account.auto = past.auto
    BY <2>1, <2>2, <2>3 DEF SettingKept, In, Critical, Restoring
  <2>5. account.name = "account"
    BY <2>1, <2>2, <2>3 DEF NameKept, In, Critical, Restoring
  <2>6. FloodIsStored'
    BY <2>2 DEF FloodIsStored
  <2>7. OneBegins'
    BY <1>6, <2>2, <2>3 DEF OneBegins, In, Critical
  <2>8. OneRestores'
    BY <2>2, <2>3 DEF OneRestores, In, Critical, Restoring
  <2>9. SettingKept'
    BY <2>2, <2>3, <2>4 DEF SettingKept, In, Critical, Beginning
  <2>10. NameKept'
    BY <2>2, <2>3, <2>5 DEF NameKept, In, Critical, Beginning, Restoring
  <2> QED BY <2>6, <2>7, <2>8, <2>9, <2>10
<1> QED BY <1>5, <1>10, <1>11, CutGrows

LEMMA EndFloodKeeps ==
  ASSUME CaptchaInv, NEW t \in Threads, EndFlood(t)
  PROVE  CaptchaInv'
<1>1. Shape BY DEF CaptchaInv
<1> DEFINE new == [mem EXCEPT !.flood = NoFlood]
           a == [Resting EXCEPT !.at = "giveBack"]
           b == [a EXCEPT !.users = mem.flood.users]
           c == [b EXCEPT !.config = mem.config]
           d == [c EXCEPT !.flood = mem.flood]
           j == IF Saved THEN d ELSE Resting
<1>2. /\ alive /\ mem.flood.active /\ quiet /\ Write(new) /\ RememberCut /\ jobs[t].at = "idle"
      /\ UNCHANGED <<alive, quiet, account>> /\ jobs' = [jobs EXCEPT ![t] = j]
  BY DEF EndFlood, At
<1>3. NoFlood \in Flags /\ NoFlood.active = FALSE
  BY DEF NoFlood, Flags
<1>4. IsState(new) /\ new.flood = NoFlood
  BY <1>1, <1>3, StateWith
<1>5. /\ IsJob(j) /\ (Saved => j.at = "giveBack" /\ j.flood = mem.flood)
      /\ j.at \in {"giveBack", "idle"}
  <2>1. a = [at |-> "giveBack", user |-> Nothing, c |-> Nothing, says |-> Nothing,
             config |-> Nothing, users |-> {}, flood |-> Nothing]
    BY DEF Resting
  <2> HIDE DEF a
  <2>2. b = [at |-> "giveBack", user |-> Nothing, c |-> Nothing, says |-> Nothing,
             config |-> Nothing, users |-> mem.flood.users, flood |-> Nothing]
    BY <2>1
  <2> HIDE DEF b
  <2>3. c = [at |-> "giveBack", user |-> Nothing, c |-> Nothing, says |-> Nothing,
             config |-> mem.config, users |-> mem.flood.users, flood |-> Nothing]
    BY <2>2
  <2> HIDE DEF c
  <2>4. d = [at |-> "giveBack", user |-> Nothing, c |-> Nothing, says |-> Nothing,
             config |-> mem.config, users |-> mem.flood.users, flood |-> mem.flood]
    BY <2>3
  <2> HIDE DEF d
  <2>5. mem.flood \in Flags
    BY <1>1 DEF Shape, IsState
  <2>6. IsJob(d) /\ d.at = "giveBack" /\ d.flood = mem.flood
    BY <2>4, <2>5 DEF IsJob
  <2> QED BY <2>6, RestingIsJob
<1> HIDE DEF new, j
<1>6. /\ mem' = new /\ IsState(mem') /\ IsState(row') /\ faults' \in Nat
      /\ row' = IF Saved THEN new ELSE row
  BY <1>1, <1>2, <1>4, WriteEffect
<1>7. /\ jobs' = [s \in Threads |-> jobs'[s]] /\ \A s \in Threads : IsJob(jobs'[s])
      /\ jobs'[t] = j /\ \A s \in Threads : s # t => jobs'[s] = jobs[s]
  BY <1>1, <1>2, <1>5 DEF Shape
<1>8. PastKept /\ past'.cut = (past.cut \/ ~Saved)
  BY <1>1, <1>2, PastSteps
<1>9. Shape'
  <2>1. IsAccount(account') /\ alive' \in BOOLEAN /\ quiet' \in BOOLEAN
    BY <1>1, <1>2, AccountEffects DEF Shape
  <2> QED BY <1>1, <1>6, <1>7, <1>8, <2>1, ShapeStep
<1>10. ASSUME ~past.cut, ~past'.cut
       PROVE  (FloodIsStored /\ OneBegins /\ OneRestores /\ SettingKept /\ NameKept)'
  <2>1. FloodIsStored /\ OneBegins /\ OneRestores /\ SettingKept /\ NameKept
    BY <1>10 DEF CaptchaInv, FloodInv
  <2>2. /\ row' = new /\ mem' = new /\ jobs'[t].at = "giveBack" /\ jobs'[t].flood = mem.flood
        /\ alive' /\ mem.flood.auto = row.flood.auto /\ row.flood.active = mem.flood.active
        /\ past'.auto = past.auto /\ account' = account
    BY <1>2, <1>5, <1>6, <1>7, <1>8, <1>10, <2>1 DEF FloodIsStored, PastKept
  <2>3. ASSUME NEW s \in Threads
        PROVE  jobs[s].at \notin Critical /\ (s # t => jobs'[s].at \notin Critical)
    BY <1>2, <1>7, <2>1 DEF OneBegins, OneRestores, In, Critical
  <2>4. mem.flood.auto = past.auto
    BY <1>2, <2>1, <2>2, <2>3 DEF SettingKept, In, Critical, Beginning
  <2>5. account.name # "account" => mem.flood.name
    BY <1>2, <2>1, <2>2, <2>3 DEF NameKept, In, Critical, Restoring
  <2>6. FloodIsStored'
    BY <2>2 DEF FloodIsStored
  <2>7. OneBegins'
    BY <2>2, <2>3 DEF OneBegins, In, Critical, Beginning
  <2>8. OneRestores'
    BY <1>3, <1>4, <2>2, <2>3, <2>4 DEF OneRestores, In, Critical
  <2>9. SettingKept'
    <3>1. ~row'.flood.active
      BY <1>3, <1>4, <2>2
    <3>2. \A s \in Threads : jobs'[s].at \notin {"readAuto", "keepAuto"}
      BY <2>2, <2>3 DEF Critical, Beginning
    <3> QED BY <2>2, <3>1, <3>2 DEF SettingKept, In
  <2>10. NameKept'
    <3>1. \A s \in Threads : jobs'[s].at \notin Beginning /\ jobs'[s].at # "takeName"
      BY <2>2, <2>3 DEF Critical, Beginning, Restoring
    <3> QED BY <2>2, <2>5, <3>1 DEF NameKept, In, Beginning
  <2> QED BY <2>6, <2>7, <2>8, <2>9, <2>10
<1> QED BY <1>8, <1>9, <1>10, CutGrows

-----------------------------------------------------------------------------
(* Start, stop, the end of the process, and five quiet minutes.            *)

LEMMA ResumeKeeps ==
  ASSUME CaptchaInv, Resume
  PROVE  CaptchaInv'
<1>1. Shape BY DEF CaptchaInv
<1>2. /\ ~alive /\ alive' = TRUE /\ mem' = row /\ UNCHANGED <<row, quiet, jobs, account, faults>>
  BY DEF Resume
<1>3. PastKept /\ past'.cut = past.cut
  <2> DEFINE asked == {u \in Users : row.pending[u] # Nothing}
             timed == {u \in asked : row.pending[u].type \in row.config.limited}
             untimed == past.untimed \cup {row.pending[u].id : u \in asked \ timed}
             no == FALSE
             e == [past EXCEPT !.unsaved = no]
  <2>1. past' = [e EXCEPT !.untimed = untimed]
    BY <1>1 DEF Resume, Shape
  <2> HIDE DEF untimed, no
  <2>2. e = [ended |-> past.ended, revived |-> past.revived, crossed |-> past.crossed,
             untimed |-> past.untimed, unsaved |-> no,
             cut |-> past.cut, auto |-> past.auto]
    <3>1. past = [ended |-> past.ended, revived |-> past.revived, crossed |-> past.crossed,
                  untimed |-> past.untimed, unsaved |-> past.unsaved,
                  cut |-> past.cut, auto |-> past.auto]
      BY <1>1 DEF Shape
    <3> QED BY <3>1
  <2> HIDE DEF e
  <2>3. past' = [ended |-> past.ended, revived |-> past.revived, crossed |-> past.crossed,
                 untimed |-> untimed, unsaved |-> no,
                 cut |-> past.cut, auto |-> past.auto]
    BY <2>1, <2>2
  <2> QED BY <2>3 DEF PastKept
<1>4. Shape'
  <2>1. IsAccount(account') /\ alive' \in BOOLEAN /\ quiet' \in BOOLEAN /\ faults' \in Nat
        /\ IsState(mem') /\ IsState(row')
    BY <1>1, <1>2, AccountEffects DEF Shape
  <2>2. jobs' = [t \in Threads |-> jobs'[t]] /\ \A t \in Threads : IsJob(jobs'[t])
    BY <1>1, <1>2 DEF Shape
  <2> QED BY <1>1, <1>3, <2>1, <2>2, ShapeStep
<1>5. ASSUME ~past.cut
      PROVE  (FloodIsStored /\ OneBegins /\ OneRestores /\ SettingKept /\ NameKept)'
  <2>1. FloodIsStored /\ OneBegins /\ OneRestores /\ SettingKept /\ NameKept
    BY <1>5 DEF CaptchaInv, FloodInv
  <2>2. \A t \in Threads : jobs'[t].at \notin Beginning /\ jobs'[t].at \notin Restoring
    BY <1>2, <2>1 DEF OneBegins, OneRestores, In
  <2>3. past'.auto = past.auto
    BY <1>3 DEF PastKept
  <2>4. FloodIsStored'
    BY <1>2 DEF FloodIsStored
  <2>5. OneBegins' /\ OneRestores'
    BY <2>2 DEF OneBegins, OneRestores, In
  <2>6. SettingKept'
    BY <1>2, <2>1, <2>3 DEF SettingKept, In
  <2>7. NameKept'
    <3>1. \A t \in Threads : jobs'[t].at \notin {"giveBack", "freeName", "takeName"}
      BY <2>2 DEF Restoring
    <3>2. account'.name # "account" => row'.flood.active /\ row'.flood.name /\ mem'.flood.name
      BY <1>2, <2>1, <3>1 DEF NameKept, In
    <3>3. \A t \in Threads : jobs'[t].at \notin {"dropName", "moveName", "undoName"}
      BY <2>2 DEF Beginning
    <3> QED BY <2>2, <3>1, <3>2, <3>3 DEF NameKept, In
  <2> QED BY <2>4, <2>5, <2>6, <2>7
<1> QED BY <1>3, <1>4, <1>5, CutGrows

LEMMA CeaseKeeps ==
  ASSUME CaptchaInv, NEW stored \in BOOLEAN, Cease(stored)
  PROVE  CaptchaInv'
<1>1. Shape BY DEF CaptchaInv
<1> DEFINE cut == past.cut \/ \E t \in Threads :
                    jobs[t].flood # Nothing \/ jobs[t].at \in {"readAuto", "keepAuto"}
<1>2. /\ alive /\ alive' = FALSE /\ row' \in {mem, row} /\ faults' \in Nat
      /\ jobs' = [t \in Threads |-> Resting] /\ UNCHANGED <<mem, quiet, account>>
  BY <1>1, CanFailCounts DEF Cease
<1>3. PastKept /\ past'.cut = cut
  BY <1>1 DEF Cease, Shape, PastKept
<1>4. Shape'
  <2>1. IsAccount(account') /\ alive' \in BOOLEAN /\ quiet' \in BOOLEAN
        /\ IsState(mem') /\ IsState(row')
    BY <1>1, <1>2, AccountEffects DEF Shape
  <2>2. jobs' = [t \in Threads |-> jobs'[t]] /\ \A t \in Threads : IsJob(jobs'[t])
    BY <1>2, RestingIsJob
  <2> QED BY <1>1, <1>2, <1>3, <2>1, <2>2, ShapeStep
<1>5. ASSUME ~past.cut, ~past'.cut
      PROVE  (FloodIsStored /\ OneBegins /\ OneRestores /\ SettingKept /\ NameKept)'
  <2>1. FloodIsStored /\ OneBegins /\ OneRestores /\ SettingKept /\ NameKept
    BY <1>5 DEF CaptchaInv, FloodInv
  <2>2. ASSUME NEW t \in Threads
        PROVE  jobs[t].at \notin Restoring /\ jobs[t].at \notin {"readAuto", "keepAuto"}
    <3>1. jobs[t].flood = Nothing /\ jobs[t].at \notin {"readAuto", "keepAuto"}
      BY <1>3, <1>5
    <3>2. Nothing \notin Flags
      BY CaptchaAssumption
    <3> QED BY <1>1, <3>1, <3>2 DEF Shape, IsJob
  <2>3. \A t \in Threads : jobs'[t].at = "idle"
    BY <1>2, RestingIsJob
  <2>4. /\ row'.flood.active = row.flood.active /\ row'.flood.auto = row.flood.auto
        /\ row'.flood.name \in {row.flood.name, mem.flood.name} /\ past'.auto = past.auto
    BY <1>2, <1>3, <2>1 DEF FloodIsStored, PastKept
  <2>5. FloodIsStored'
    BY <1>2 DEF FloodIsStored
  <2>6. OneBegins' /\ OneRestores'
    BY <2>3 DEF OneBegins, OneRestores, In, Beginning, Restoring
  <2>7. SettingKept'
    <3>1. /\ row.flood.active => row.flood.auto = past.auto
          /\ account.auto # past.auto => row.flood.active
      BY <2>1, <2>2 DEF SettingKept, In, Restoring
    <3> QED BY <1>2, <2>3, <2>4, <3>1 DEF SettingKept, In
  <2>8. NameKept'
    <3>1. \A t \in Threads : jobs[t].at \notin {"giveBack", "freeName", "takeName"}
      BY <2>2 DEF Restoring
    <3>2. account.name # "account" => row.flood.active /\ row.flood.name /\ mem.flood.name
      BY <1>2, <2>1, <3>1 DEF NameKept, In
    <3> QED BY <1>2, <2>3, <2>4, <3>2 DEF NameKept, In, Beginning
  <2> QED BY <2>5, <2>6, <2>7, <2>8
<1> QED BY <1>3, <1>4, <1>5, CutGrows

\* While a flood is on nobody undoes one; if it still begins, cut tells of it.
LEMMA QuietKeeps ==
  ASSUME CaptchaInv, Quiet
  PROVE  CaptchaInv'
<1>1. Shape BY DEF CaptchaInv
<1>2. /\ quiet' = TRUE /\ UNCHANGED <<alive, mem, row, jobs, account, faults>>
  BY DEF Quiet, state
<1>3. PastKept /\ (past'.cut <=> past.cut \/ \E t \in Threads : jobs[t].at \in Beginning)
  BY <1>1 DEF Quiet, Shape, PastKept
<1>4. Shape'
  BY <1>1, <1>2, <1>3 DEF Shape, PastKept
<1>5. ASSUME ~past.cut, ~past'.cut
      PROVE  (FloodIsStored /\ OneBegins /\ OneRestores /\ SettingKept /\ NameKept)'
  <2>1. FloodIsStored /\ OneBegins /\ OneRestores /\ SettingKept /\ NameKept
    BY <1>5 DEF CaptchaInv, FloodInv
  <2>2. past'.auto = past.auto
    BY <1>3 DEF PastKept
  <2>3. FloodIsStored' /\ SettingKept' /\ NameKept' /\ OneRestores'
    BY <1>2, <2>1, <2>2 DEF FloodIsStored, SettingKept, NameKept, OneRestores, In
  <2>4. OneBegins'
    BY <1>2, <1>3, <1>5 DEF OneBegins, In
  <2> QED BY <2>3, <2>4
<1> QED BY <1>3, <1>4, <1>5, CutGrows

LEMMA RestKeeps ==
  ASSUME CaptchaInv, UNCHANGED captchaVars
  PROVE  CaptchaInv'
<1>1. UNCHANGED <<alive, mem, row, quiet, jobs, account, faults, past>>
  BY DEF captchaVars
<1>2. Shape'
  BY <1>1 DEF CaptchaInv, Shape
<1>3. FloodInv'
  BY <1>1 DEF CaptchaInv, FloodInv, FloodIsStored, OneBegins, OneRestores, SettingKept, NameKept, In
<1> QED BY <1>2, <1>3 DEF CaptchaInv

-----------------------------------------------------------------------------
(* The invariant and the theorems.                                         *)

LEMMA InitHolds ==
  ASSUME NEW world \in CaptchaWorlds, CaptchaInit(world)
  PROVE  CaptchaInv
<1>1. world.auto \in BOOLEAN /\ world.config.action \in Actions
  BY CaptchaAssumption
<1>2. NoFlood \in Flags /\ NoFlood.active = FALSE
  BY DEF NoFlood, Flags
<1>3. /\ alive = FALSE /\ quiet = FALSE /\ faults = 0
      /\ mem = Fresh(world.config) /\ row = Fresh(world.config)
      /\ jobs = [t \in Threads |-> Resting]
      /\ account = [blocked |-> {}, archived |-> {}, auto |-> world.auto,
                    name |-> "account", channel |-> FALSE]
      /\ past = [ended |-> [n \in Numbers |-> 0], revived |-> {}, untimed |-> {}, crossed |-> {},
                 unsaved |-> FALSE, cut |-> FALSE, auto |-> world.auto]
  BY DEF CaptchaInit
<1>4. IsState(Fresh(world.config)) /\ Fresh(world.config).flood = NoFlood
  BY <1>1, <1>2 DEF IsState, Fresh
<1>5. Shape
  BY <1>1, <1>3, <1>4, RestingIsJob DEF Shape
<1>6. \A t \in Threads : jobs[t].at = "idle"
  BY <1>3, RestingIsJob
<1>7. FloodIsStored /\ OneBegins /\ OneRestores /\ SettingKept /\ NameKept
  <2>1. row.flood.active = FALSE
    BY <1>2, <1>3, <1>4
  <2>2. account.auto = past.auto /\ account.name = "account"
    BY <1>3
  <2>3. FloodIsStored /\ OneBegins /\ OneRestores
    BY <1>3, <1>6 DEF FloodIsStored, OneBegins, OneRestores, In, Beginning, Restoring
  <2> QED BY <1>6, <2>1, <2>2, <2>3 DEF SettingKept, NameKept, In, Beginning
<1> QED BY <1>5, <1>7 DEF CaptchaInv, FloodInv

LEMMA HandlingKeeps ==
  ASSUME CaptchaInv, NEW t \in Threads, Handling(t)
  PROVE  CaptchaInv'
BY AskingKeeps, AnsweringKeeps, ReachingKeeps, NextUserKeeps, BeginningCalls, BeginningWrites,
   RestoringActs, FloodStartsKeeps, EndFloodKeeps DEF Handling

LEMMA NextKeeps == CaptchaInv /\ [CaptchaNext]_captchaVars => CaptchaInv'
<1> SUFFICES ASSUME CaptchaInv, [CaptchaNext]_captchaVars PROVE CaptchaInv'
  OBVIOUS
<1>1. CASE Resume
  BY <1>1, ResumeKeeps
<1>2. CASE StopPlugin \/ Killed
  BY <1>2, CeaseKeeps DEF StopPlugin, Killed
<1>3. CASE MinuteEnds \/ \E r \in retries : Retry(r)
  BY <1>3, TimePasses
<1>4. CASE Quiet
  BY <1>4, QuietKeeps
<1>5. ASSUME NEW t \in Threads, Handling(t) \/ Configure(t) \/ (\E u \in Users : Arriving(t, u))
      PROVE  CaptchaInv'
  BY <1>5, HandlingKeeps, ConfigureKeeps, ArrivingKeeps
<1>6. CASE UNCHANGED captchaVars
  BY <1>6, RestKeeps
<1> QED BY <1>1, <1>2, <1>3, <1>4, <1>5, <1>6 DEF CaptchaNext

\* The inductive invariant holds of every run: at most one thread begins the flood
\* there is or undoes the one there was, and what is to be put back is written down
\* before it is changed (flood.go:44-94, 143-190).
THEOREM Invariance == CaptchaSpec => []CaptchaInv
<1>1. (\E world \in CaptchaWorlds : CaptchaInit(world)) => CaptchaInv
  BY InitHolds
<1> QED BY <1>1, NextKeeps, PTL DEF CaptchaSpec

\* Nothing of the account is lost to a flood, whatever messages, timers, failed
\* calls and crashes come together: the setting and the name that are not the
\* owner's are on disk, or in the hands of the thread that puts them back, except
\* where past.cut says that nothing could keep them (flood.go:44-94, 143-190, 252-337).
THEOREM AccountStays == CaptchaSpec => []AccountKept
<1>1. CaptchaInv => AccountKept
  <2> SUFFICES ASSUME CaptchaInv, ~past.cut
               PROVE  LET held == {t \in Threads : jobs[t].flood # Nothing}
                          kept == {row.flood} \cup {jobs[t].flood : t \in held}
                      IN  /\ account.name # "account" => \E f \in kept : f.name
                          /\ account.auto # past.auto => \E f \in kept : f.auto = past.auto
    BY DEF AccountKept
  <2>1. FloodIsStored /\ OneBegins /\ OneRestores /\ SettingKept /\ NameKept
    BY DEF CaptchaInv, FloodInv
  <2> DEFINE held == {t \in Threads : jobs[t].flood # Nothing}
             kept == {row.flood} \cup {jobs[t].flood : t \in held}
  <2>2. ASSUME NEW t \in Threads, jobs[t].at \in Restoring
        PROVE  jobs[t].flood \in kept /\ jobs[t].flood.auto = past.auto
    <3>1. jobs[t].flood \in Flags /\ Nothing \notin Flags
      BY <2>2, CaptchaAssumption DEF CaptchaInv, Shape, IsJob
    <3> QED BY <2>1, <2>2, <3>1 DEF OneRestores, In
  <2>3. account.name # "account" => \E f \in kept : f.name
    <3>1. CASE row.flood.name
      BY <3>1
    <3>2. ASSUME NEW t \in Threads, jobs[t].at \in {"giveBack", "freeName", "takeName"},
                 jobs[t].flood.name
          PROVE  \E f \in kept : f.name
      BY <2>2, <3>2 DEF Restoring
    <3> QED BY <2>1, <3>1, <3>2 DEF NameKept, In
  <2>4. account.auto # past.auto => \E f \in kept : f.auto = past.auto
    <3>1. CASE row.flood.auto = past.auto
      BY <3>1
    <3>2. ASSUME NEW t \in Threads, jobs[t].at \in {"giveBack"}
          PROVE  \E f \in kept : f.auto = past.auto
      BY <2>2, <3>2 DEF Restoring
    <3> QED BY <2>1, <3>1, <3>2 DEF SettingKept, In
  <2> QED BY <2>3, <2>4
<1> QED BY <1>1, Invariance, PTL
-----------------------------------------------------------------------------
(* Questions: who holds which after a step that asks and ends none.        *)

UsedKept ==
  /\ used' = [messages |-> used'.messages, challenges |-> used'.challenges, floods |-> used'.floods]
  /\ used'.challenges \in Numbers /\ used.challenges <= used'.challenges

\* The questions of p are some of those of q.
Fewer(p, q) ==
  /\ p = [u \in Users |-> p[u]]
  /\ \A u \in Users : p[u] = Nothing \/ (q[u] # Nothing /\ IsQuestion(p[u]) /\ p[u].id = q[u].id)

\* A thread takes up no question to write.
HolderKeeps(t) ==
  /\ jobs'[t].at \in AboutUser => jobs'[t].user \in Users
  /\ jobs'[t].at \in Sending =>
       jobs[t].at \in Sending /\ jobs'[t].user = jobs[t].user /\ jobs'[t].c = jobs[t].c

\* A thread goes on seeing to the question it sees to.
SeerKeeps(t) ==
  /\ jobs[t].at \in Asking => jobs'[t].at \in Asking /\ jobs'[t].user = jobs[t].user
  /\ jobs[t].at \in Timing =>
       jobs'[t].at \in Timing /\ jobs'[t].user = jobs[t].user /\ jobs'[t].c = jobs[t].c

LEMMA FewerItself ==
  ASSUME QuestionShape
  PROVE  Fewer(mem.pending, mem.pending) /\ Fewer(row.pending, row.pending)
BY DEF QuestionShape, Fewer

\* Nothing is where it was not before.
LEMMA HoldersFewer ==
  ASSUME QuestionShape, OneOwner, UsedKept, past'.ended \in [Numbers -> Nat],
         timers' = [u \in Users |-> timers'[u]],
         Fewer(mem'.pending, mem.pending) \/ Fewer(mem'.pending, row.pending),
         Fewer(row'.pending, mem.pending) \/ Fewer(row'.pending, row.pending),
         \A t \in Threads : HolderKeeps(t)
  PROVE  /\ (QuestionShape /\ OneOwner)'
         /\ \A u \in Users, n \in Numbers : InState(u, n)' => InState(u, n)
         /\ \A t \in Threads, u \in Users, n \in Numbers : Sends(t, u, n)' => Sends(t, u, n)
<1>1. used.challenges \in Nat /\ used'.challenges \in Nat /\ used.challenges <= used'.challenges
  BY CaptchaAssumption DEF QuestionShape, UsedKept, Numbers
<1>2. /\ mem'.pending = [u \in Users |-> mem'.pending[u]] /\ row'.pending = [u \in Users |-> row'.pending[u]]
      /\ \A u \in Users : mem'.pending[u] = Nothing \/ IsQuestion(mem'.pending[u])
      /\ \A u \in Users : row'.pending[u] = Nothing \/ IsQuestion(row'.pending[u])
  BY DEF Fewer
<1>3. \A t \in Threads : /\ jobs'[t].at \in AboutUser => jobs'[t].user \in Users
                         /\ jobs'[t].at \in Sending => IsQuestion(jobs'[t].c)
  BY DEF HolderKeeps, QuestionShape, In
<1>4. QuestionShape'
  <2>3. ASSUME NEW c, IsQuestion(c)
        PROVE  /\ c = [id |-> c.id, type |-> c.type, answer |-> c.answer, tries |-> c.tries]
               /\ c.id \in 1 .. used'.challenges
    BY <1>1, <2>3 DEF IsQuestion
  <2>1. \A u \in Users : /\ mem'.pending[u] = Nothing \/ IsQuestion(mem.pending[u])'
                         /\ row'.pending[u] = Nothing \/ IsQuestion(row.pending[u])'
    BY <1>2, <2>3 DEF IsQuestion
  <2>2. \A t \in Threads : jobs'[t].at \in Sending => IsQuestion(jobs[t].c)'
    BY <1>3, <2>3 DEF IsQuestion
  <2> QED BY <1>2, <1>3, <2>1, <2>2 DEF QuestionShape, UsedKept, In
<1>5. ASSUME NEW u \in Users, NEW n, InState(u, n)' PROVE InState(u, n)
  <2>1. ASSUME NEW q, Fewer(q, mem.pending) \/ Fewer(q, row.pending), q[u] # Nothing, q[u].id = n
        PROVE  InState(u, n)
    BY <2>1 DEF Fewer, InState
  <2>2. \E s \in {mem', row'} : s.pending[u] # Nothing /\ s.pending[u].id = n
    BY <1>5 DEF InState
  <2> QED BY <2>1, <2>2
<1>6. ASSUME NEW t \in Threads, NEW u \in Users, NEW n, Sends(t, u, n)' PROVE Sends(t, u, n)
  BY <1>6 DEF HolderKeeps, Sends, In
<1>7. OneOwner'
  <2> SUFFICES ASSUME NEW n \in Numbers, NEW u \in Users, NEW v \in Users
               PROVE  /\ InState(u, n)' /\ InState(v, n)' => u = v
                      /\ \A t \in Threads : Sends(t, u, n)' =>
                           (InState(v, n)' => u = v) /\ \A s \in Threads : Sends(s, v, n)' => s = t
    BY DEF OneOwner
  <2> QED BY <1>5, <1>6 DEF OneOwner
<1> QED BY <1>4, <1>5, <1>6, <1>7

LEMMA HoldersKeep ==
  ASSUME QuestionShape, OneOwner, EndedOnce, UsedKept, past'.ended = past.ended,
         past'.revived = past.revived, timers' = [u \in Users |-> timers'[u]],
         Fewer(mem'.pending, mem.pending) \/ Fewer(mem'.pending, row.pending),
         Fewer(row'.pending, mem.pending) \/ Fewer(row'.pending, row.pending),
         \A t \in Threads : HolderKeeps(t)
  PROVE  (QuestionShape /\ OneOwner /\ EndedOnce)'
<1>1. past'.ended \in [Numbers -> Nat]
  BY DEF QuestionShape
<1>2. /\ (QuestionShape /\ OneOwner)'
      /\ \A u \in Users, n \in Numbers : InState(u, n)' => InState(u, n)
      /\ \A t \in Threads, u \in Users, n \in Numbers : Sends(t, u, n)' => Sends(t, u, n)
  BY <1>1, HoldersFewer
<1>3. EndedOnce'
  <2> SUFFICES ASSUME NEW n \in Numbers
               PROVE  /\ past'.ended[n] <= IF n \in past'.revived THEN 2 ELSE 1
                      /\ \A u \in Users : InState(u, n)' => past'.ended[n] <= IF n \in past'.revived THEN 1 ELSE 0
                      /\ n \in past'.revived => \A t \in Threads, u \in Users : ~Sends(t, u, n)'
                      /\ n > used'.challenges => past'.ended[n] = 0 /\ n \notin past'.revived
    BY DEF EndedOnce
  <2>1. n > used'.challenges => n > used.challenges
    BY CaptchaAssumption DEF UsedKept, QuestionShape, Numbers
  <2> QED BY <1>2, <2>1 DEF EndedOnce
<1> QED BY <1>2, <1>3

\* What a step leaves of the cases that are left out.
PastCovers ==
  /\ past.unsaved => past'.unsaved
  /\ past.untimed \subseteq past'.untimed /\ past.crossed \subseteq past'.crossed

\* A question keeps its timer, or the thread that sees to it.
LEMMA StillRunsOut ==
  ASSUME NEW u \in Users, RunsOut(u), alive' => alive, PastCovers,
         mem'.pending[u] = Nothing \/ (mem.pending[u] # Nothing /\ mem'.pending[u].id = mem.pending[u].id),
         timers[u] = mem.pending[u].id => timers'[u] = timers[u],
         \A t \in Threads : SeesTo(t, u, mem.pending[u]) => SeerKeeps(t)
  PROVE  RunsOut(u)'
<1> SUFFICES ASSUME alive', ~past'.unsaved, mem'.pending[u] # Nothing,
                    mem'.pending[u].id \notin past'.untimed \cup past'.crossed
             PROVE  \/ timers'[u] = mem'.pending[u].id
                    \/ \E t \in Threads : SeesTo(t, u, mem.pending[u])'
  BY DEF RunsOut
<1>1. mem.pending[u] # Nothing /\ mem'.pending[u].id = mem.pending[u].id
  OBVIOUS
<1>2. timers[u] = mem.pending[u].id \/ \E t \in Threads : SeesTo(t, u, mem.pending[u])
  BY <1>1 DEF RunsOut, PastCovers
<1>3. ASSUME NEW t \in Threads, SeesTo(t, u, mem.pending[u]) PROVE SeesTo(t, u, mem.pending[u])'
  BY <1>1, <1>3 DEF SeesTo, SeerKeeps
<1> QED BY <1>1, <1>2, <1>3

LEMMA CoverKeeps ==
  ASSUME TimersCover, alive' => alive, PastCovers, Fewer(mem'.pending, mem.pending),
         \A u \in Users : mem'.pending[u] = Nothing \/
           (timers'[u] = timers[u] /\ \A t \in Threads : SeesTo(t, u, mem.pending[u]) => SeerKeeps(t))
  PROVE  TimersCover'
<1> SUFFICES ASSUME NEW u \in Users PROVE RunsOut(u)'
  BY DEF TimersCover
<1>1. RunsOut(u)
  BY DEF TimersCover
<1>2. CASE mem'.pending[u] = Nothing
  BY <1>2 DEF RunsOut
<1>3. CASE mem'.pending[u] # Nothing
  BY <1>1, <1>3, StillRunsOut DEF Fewer
<1> QED BY <1>2, <1>3

\* What the steps leave of the past.
EndsNothing ==
  /\ past'.ended = past.ended /\ past'.revived = past.revived
  /\ PastCovers

LEMMA PastGrows ==
  ASSUME Shape
  PROVE  /\ UNCHANGED past => EndsNothing
         /\ Remember => EndsNothing
         /\ RememberCut => EndsNothing
         /\ \A cut : past' = [past EXCEPT !.cut = cut] => EndsNothing
<1>1. UNCHANGED past => EndsNothing
  BY DEF EndsNothing, PastCovers
<1>2. Remember => EndsNothing
  BY DEF Remember, EndsNothing, PastCovers, Shape
<1>3. RememberCut => EndsNothing
  BY DEF RememberCut, EndsNothing, PastCovers, Shape
<1>4. ASSUME NEW cut, past' = [past EXCEPT !.cut = cut] PROVE EndsNothing
  BY <1>4 DEF EndsNothing, PastCovers, Shape
<1> QED BY <1>1, <1>2, <1>3, <1>4

LEMMA UsedCounts ==
  ASSUME QuestionShape
  PROVE  /\ UNCHANGED used => UsedKept
         /\ Counting("messages") => UsedKept
         /\ Counting("floods") => UsedKept
         /\ used.challenges < MaxChallenges /\ Counting("challenges") =>
              UsedKept /\ used'.challenges = used.challenges + 1
<1>1. used.challenges \in Nat
  BY CaptchaAssumption DEF QuestionShape, Numbers
<1>2. UNCHANGED used => UsedKept
  BY <1>1 DEF QuestionShape, UsedKept
<1>3. /\ Counting("messages") => UsedKept
      /\ Counting("floods") => UsedKept
  BY <1>1 DEF QuestionShape, Counting, UsedKept
<1>4. ASSUME used.challenges < MaxChallenges, Counting("challenges")
      PROVE  UsedKept /\ used'.challenges = used.challenges + 1
  <2>1. /\ used' = [messages |-> used'.messages, challenges |-> used'.challenges, floods |-> used'.floods]
        /\ used'.challenges = used.challenges + 1
    BY <1>4 DEF QuestionShape, Counting
  <2> QED BY <1>1, <1>4, <2>1, CaptchaAssumption DEF UsedKept, Numbers
<1> QED BY <1>2, <1>3, <1>4

\* A step that has nothing to do with questions.
LEMMA NoQuestion ==
  ASSUME QuestionInv, UsedKept, EndsNothing, alive' => alive, UNCHANGED timers,
         mem'.pending = mem.pending, row'.pending \in {mem.pending, row.pending},
         \A t \in Threads : HolderKeeps(t) /\ SeerKeeps(t)
  PROVE  QuestionInv'
<1>1. /\ QuestionShape /\ timers' = [u \in Users |-> timers'[u]]
      /\ Fewer(mem'.pending, mem.pending)
      /\ Fewer(row'.pending, mem.pending) \/ Fewer(row'.pending, row.pending)
  BY FewerItself DEF QuestionInv, QuestionShape
<1>2. (QuestionShape /\ OneOwner /\ EndedOnce)'
  BY <1>1, HoldersKeep DEF QuestionInv, EndsNothing
<1>3. TimersCover'
  BY <1>1, CoverKeeps DEF QuestionInv, EndsNothing
<1> QED BY <1>2, <1>3 DEF QuestionInv


-----------------------------------------------------------------------------
(* Questions: the ways in which a thread goes on.                          *)

\* The steps that leave a thread with what it holds and sees to.
Onward(from, to) ==
  \/ from \notin Asking \cup Timing /\ to \notin Sending /\ (to \in AboutUser => from \in AboutUser)
  \/ from = "archive" /\ to = "send"
  \/ from = "send" /\ to \in {"save", "fallback", "remove"}
  \/ from = "shut" /\ to = "arm"

LEMMA NewJob ==
  ASSUME NEW t \in Threads, jobs[t].at \notin Asking \cup Timing, jobs'[t].at \notin Sending,
         jobs'[t].at \in AboutUser => jobs'[t].user \in Users
  PROVE  HolderKeeps(t) /\ SeerKeeps(t)
BY DEF HolderKeeps, SeerKeeps

LEMMA SameJobs ==
  ASSUME QuestionShape, NEW t \in Threads, jobs'[t] = jobs[t]
  PROVE  HolderKeeps(t) /\ SeerKeeps(t)
BY DEF HolderKeeps, SeerKeeps, QuestionShape, In

LEMMA GotoKeeps ==
  ASSUME Shape, QuestionShape, NEW t \in Threads, NEW step, Goto(t, step), Onward(jobs[t].at, step)
  PROVE  \A s \in Threads : HolderKeeps(s) /\ SeerKeeps(s)
<1>1. \A s \in Threads : s # t => jobs'[s] = jobs[s]
  BY GotoEffect
<1>2. CASE step = "done"
  <2>1. jobs'[t].at \in {"idle", "next"}
    BY <1>2, GotoDone
  <2>2. jobs[t].at \notin Asking \cup Timing
    BY <1>2 DEF Onward
  <2>3. HolderKeeps(t) /\ SeerKeeps(t)
    BY <2>1, <2>2, NewJob DEF AboutUser, Sending, Asking, Timing
  <2> QED BY <1>1, <2>3, SameJobs
<1>3. CASE step # "done"
  <2>1. jobs'[t].at = step /\ jobs'[t].user = jobs[t].user /\ jobs'[t].c = jobs[t].c
    BY <1>3, GotoStep
  <2>2. jobs[t].at \in AboutUser => jobs[t].user \in Users
    BY DEF QuestionShape, In
  <2>3. HolderKeeps(t) /\ SeerKeeps(t)
    BY <2>1, <2>2 DEF Onward, HolderKeeps, SeerKeeps, AboutUser, Sending, Asking, Timing
  <2> QED BY <1>1, <2>3, SameJobs
<1> QED BY <1>2, <1>3

LEMMA CallHolds ==
  ASSUME Shape, QuestionInv, NEW t \in Threads, NEW effect, NEW ok, NEW failed,
         Call(t, effect, ok, failed), Onward(jobs[t].at, ok), Onward(jobs[t].at, failed)
  PROVE  QuestionInv'
<1>1. QuestionShape
  BY DEF QuestionInv
<1>2. UNCHANGED <<alive, mem, row, timers, used, past>> /\ (Goto(t, ok) \/ Goto(t, failed))
  BY DEF Call, Quietly, state, timing
<1>3. \A s \in Threads : HolderKeeps(s) /\ SeerKeeps(s)
  BY <1>1, <1>2, GotoKeeps
<1>4. UsedKept /\ EndsNothing
  BY <1>1, <1>2, UsedCounts, PastGrows
<1> QED BY <1>2, <1>3, <1>4, NoQuestion

LEMMA PutBackHolds ==
  ASSUME Shape, QuestionInv, NEW t \in Threads, NEW step, NEW effect, NEW next,
         PutBack(t, step, effect, next), Onward(step, next)
  PROVE  QuestionInv'
<1>1. QuestionShape
  BY DEF QuestionInv
<1>2. /\ UNCHANGED <<alive, mem, row, timers, used>> /\ Goto(t, next) /\ jobs[t].at = step
      /\ UNCHANGED past \/ past' = [past EXCEPT !.cut = TRUE]
  BY DEF PutBack, At, state, timing
<1>3. \A s \in Threads : HolderKeeps(s) /\ SeerKeeps(s)
  BY <1>1, <1>2, GotoKeeps
<1>4. UsedKept /\ EndsNothing
  BY <1>1, <1>2, UsedCounts, PastGrows
<1> QED BY <1>2, <1>3, <1>4, NoQuestion

\* The state is written with the questions it had.
LEMMA WriteHolds ==
  ASSUME Shape, QuestionInv, NEW new, Write(new), new.pending = mem.pending,
         alive' = alive, UNCHANGED timers, UsedKept, Remember \/ RememberCut \/ UNCHANGED past,
         \A s \in Threads : HolderKeeps(s) /\ SeerKeeps(s)
  PROVE  QuestionInv'
<1>1. mem'.pending = mem.pending /\ row'.pending \in {mem.pending, row.pending}
  BY DEF Write
<1>2. EndsNothing
  BY PastGrows
<1> QED BY <1>1, <1>2, NoQuestion

LEMMA PersistHolds ==
  ASSUME Shape, QuestionInv, NEW t \in Threads, NEW new, NEW ok, NEW failed,
         Persist(new, t, ok, failed), new.pending = mem.pending,
         UNCHANGED <<timers, used>>, Remember \/ RememberCut,
         Onward(jobs[t].at, ok), Onward(jobs[t].at, failed)
  PROVE  QuestionInv'
<1>1. QuestionShape
  BY DEF QuestionInv
<1>2. Write(new) /\ alive' = alive /\ (Goto(t, ok) \/ Goto(t, failed))
  BY DEF Persist
<1>3. \A s \in Threads : HolderKeeps(s) /\ SeerKeeps(s)
  BY <1>1, <1>2, GotoKeeps
<1> QED BY <1>1, <1>2, <1>3, UsedCounts, WriteHolds


-----------------------------------------------------------------------------
(* Questions: the steps that are no concern of theirs.                     *)

LEMMA CallsHold ==
  ASSUME Shape, QuestionInv, NEW t \in Threads,
         \/ Archive(t) \/ Send(t) \/ Shut(t) \/ Open(t) \/ Release(t) \/ Reopen(t) \/ Block(t)
         \/ ImageFallback(t) \/ Join(t) \/ SetAuto(t) \/ WhoAmI(t) \/ Create(t) \/ DropName(t)
         \/ MoveName(t) \/ UndoChannel(t)
  PROVE  QuestionInv'
<1> USE DEF Onward, AboutUser, Sending, Asking, Timing
<1>1. CASE Archive(t)
  BY <1>1, CallHolds DEF Archive, At
<1>2. CASE Send(t)
  <2> DEFINE failed == IF jobs[t].c.type = "img" THEN "fallback" ELSE "remove"
  <2>1. jobs[t].at = "send" /\ Call(t, account, "save", failed)
    BY <1>2 DEF Send, At
  <2>2. failed \in {"fallback", "remove"}
    OBVIOUS
  <2> HIDE DEF failed
  <2> QED BY <2>1, <2>2, CallHolds
<1>3. CASE Shut(t)
  BY <1>3, CallHolds DEF Shut, At
<1>4. CASE Open(t)
  BY <1>4, CallHolds DEF Open, At
<1>5. CASE Release(t)
  BY <1>5, CallHolds DEF Release, At
<1>6. CASE Reopen(t)
  BY <1>6, CallHolds DEF Reopen, At
<1>7. CASE Block(t)
  <2> DEFINE action == jobs[t].config.action
  <2>1. jobs[t].at = "block" /\ Call(t, Blocked(jobs[t].user, TRUE), action, action)
    BY <1>7 DEF Block, At
  <2>2. action \in {"ban", "delete", "none"}
    BY <2>1 DEF Shape, IsJob, Actions
  <2> HIDE DEF action
  <2> QED BY <2>1, <2>2, CallHolds
<1>8. CASE ImageFallback(t)
  BY <1>8, CallHolds DEF ImageFallback, At
<1>9. CASE Join(t)
  BY <1>9, CallHolds DEF Join, At
<1>10. CASE SetAuto(t)
  BY <1>10, CallHolds DEF SetAuto, At
<1>11. CASE WhoAmI(t)
  <2> DEFINE ok == IF account.name = "account" THEN "create" ELSE "awaitEnd"
  <2>1. jobs[t].at = "whoAmI" /\ Call(t, account, ok, "awaitEnd")
    BY <1>11 DEF WhoAmI, At
  <2>2. ok \in {"create", "awaitEnd"}
    OBVIOUS
  <2> HIDE DEF ok
  <2> QED BY <2>1, <2>2, CallHolds
<1>12. CASE Create(t)
  BY <1>12, CallHolds DEF Create, At
<1>13. CASE DropName(t)
  BY <1>13, CallHolds DEF DropName, At
<1>14. CASE MoveName(t)
  BY <1>14, CallHolds DEF MoveName, At
<1>15. CASE UndoChannel(t)
  <2> DEFINE next == IF jobs[t].at = "undoBoth" THEN "forget" ELSE "awaitEnd"
  <2>1. /\ jobs[t].at \in {"undoBoth", "undoChannel"}
        /\ Call(t, [account EXCEPT !.channel = FALSE], next, next)
    BY <1>15 DEF UndoChannel
  <2>2. next \in {"forget", "awaitEnd"}
    OBVIOUS
  <2> HIDE DEF next
  <2> QED BY <2>1, <2>2, CallHolds
<1> QED
  BY <1>1, <1>2, <1>3, <1>4, <1>5, <1>6, <1>7, <1>8, <1>9, <1>10, <1>11, <1>12, <1>13, <1>14, <1>15

LEMMA PutBacksHold ==
  ASSUME Shape, QuestionInv, NEW t \in Threads,
         UndoName(t) \/ GiveBack(t) \/ FreeName(t) \/ TakeName(t) \/ DropChannel(t)
  PROVE  QuestionInv'
<1> USE DEF Onward, AboutUser, Sending, Asking, Timing
<1>1. CASE UndoName(t)
  BY <1>1, PutBackHolds DEF UndoName
<1>2. CASE GiveBack(t)
  <2> DEFINE f == jobs[t].flood
             next == IF f.name \/ f.channel THEN "freeName" ELSE "next"
  <2>1. PutBack(t, "giveBack", [account EXCEPT !.auto = f.auto], next)
    BY <1>2 DEF GiveBack
  <2>2. next \in {"freeName", "next"}
    OBVIOUS
  <2> HIDE DEF next
  <2> QED BY <2>1, <2>2, PutBackHolds
<1>3. CASE FreeName(t)
  BY <1>3, PutBackHolds DEF FreeName
<1>4. CASE TakeName(t)
  BY <1>4, PutBackHolds DEF TakeName
<1>5. CASE DropChannel(t)
  BY <1>5, PutBackHolds DEF DropChannel
<1> QED BY <1>1, <1>2, <1>3, <1>4, <1>5

LEMMA SamePending ==
  ASSUME Shape
  PROVE  /\ \A x : [mem EXCEPT !.verified = x].pending = mem.pending
         /\ \A x : [mem EXCEPT !.flood = x].pending = mem.pending
         /\ \A x : [mem EXCEPT !.config = x].pending = mem.pending
BY DEF Shape, IsState

LEMMA SameFlood ==
  ASSUME Shape, NEW x, NEW y
  PROVE  /\ [mem EXCEPT !.flood.users = x].pending = mem.pending
         /\ [mem EXCEPT !.flood.recent = x].pending = mem.pending
         /\ [mem EXCEPT !.flood.auto = x].pending = mem.pending
         /\ [mem EXCEPT !.flood.name = x, !.flood.channel = y].pending = mem.pending
<1>1. mem = [config |-> mem.config, verified |-> mem.verified, flood |-> mem.flood, pending |-> mem.pending]
  BY DEF Shape, IsState
<1>2. /\ [mem EXCEPT !.flood.users = x].pending = mem.pending
      /\ [mem EXCEPT !.flood.recent = x].pending = mem.pending
      /\ [mem EXCEPT !.flood.auto = x].pending = mem.pending
  BY <1>1
<1>3. [mem EXCEPT !.flood.name = x, !.flood.channel = y].pending = mem.pending
  <2> DEFINE a == [mem EXCEPT !.flood.name = x]
  <2>1. a = [config |-> mem.config, verified |-> mem.verified,
             flood |-> [mem.flood EXCEPT !.name = x], pending |-> mem.pending]
    BY <1>1
  <2> HIDE DEF a
  <2>2. [a EXCEPT !.flood.channel = y].pending = mem.pending
    BY <2>1
  <2> QED BY <2>2 DEF a
<1> QED BY <1>2, <1>3

LEMMA PersistsHold ==
  ASSUME Shape, QuestionInv, NEW t \in Threads,
         \/ Trust(t) \/ PunishDirect(t) \/ AddVerified(t) \/ FloodGoesOn(t) \/ NoFloodYet(t)
         \/ KeepAuto(t) \/ KeepName(t) \/ Forget(t)
  PROVE  QuestionInv'
<1> USE DEF Onward, AboutUser, Sending, Asking, Timing
<1>1. CASE Trust(t)
  <2> DEFINE new == [mem EXCEPT !.verified = @ \cup {jobs[t].user}]
  <2>1. new.pending = mem.pending
    BY SamePending
  <2>2. /\ jobs[t].at = "trust" /\ Persist(new, t, "done", "done")
        /\ Remember /\ UNCHANGED <<timers, used>>
    BY <1>1 DEF Trust, At, timing
  <2> HIDE DEF new
  <2> QED BY <2>1, <2>2, PersistHolds
<1>2. CASE PunishDirect(t)
  BY <1>2, PersistHolds DEF PunishDirect, At, timing
<1>3. CASE AddVerified(t)
  <2> DEFINE new == [mem EXCEPT !.verified = @ \cup {jobs[t].user}]
  <2>1. new.pending = mem.pending
    BY SamePending
  <2>2. /\ jobs[t].at = "add" /\ Persist(new, t, "release", "done")
        /\ Remember /\ UNCHANGED <<timers, used>>
    BY <1>3 DEF AddVerified, At, timing
  <2> HIDE DEF new
  <2> QED BY <2>1, <2>2, PersistHolds
<1>4. CASE FloodGoesOn(t)
  <2> DEFINE new == [mem EXCEPT !.flood.users = @ \cup {jobs[t].user}]
  <2>1. new.pending = mem.pending
    BY SameFlood
  <2>2. /\ jobs[t].at = "observe" /\ Persist(new, t, "join", "done")
        /\ Remember /\ UNCHANGED <<timers, used>>
    BY <1>4 DEF FloodGoesOn, At
  <2> HIDE DEF new
  <2> QED BY <2>1, <2>2, PersistHolds
<1>5. CASE NoFloodYet(t)
  <2> DEFINE new == [mem EXCEPT !.flood.recent = Recent(jobs[t].user)]
  <2>1. new.pending = mem.pending
    BY SameFlood
  <2>2. /\ jobs[t].at = "observe" /\ Persist(new, t, "begin", "begin")
        /\ Remember /\ UNCHANGED <<timers, used>>
    BY <1>5 DEF NoFloodYet, At, timing
  <2> HIDE DEF new
  <2> QED BY <2>1, <2>2, PersistHolds
<1>6. CASE KeepAuto(t)
  <2> DEFINE new == [mem EXCEPT !.flood.auto = jobs[t].c]
  <2>1. new.pending = mem.pending
    BY SameFlood
  <2>2. /\ jobs[t].at = "keepAuto" /\ Persist(new, t, "setAuto", "setAuto")
        /\ RememberCut /\ UNCHANGED <<timers, used>>
    BY <1>6 DEF KeepAuto, At, timing
  <2> HIDE DEF new
  <2> QED BY <2>1, <2>2, PersistHolds
<1>7. CASE KeepName(t)
  <2> DEFINE new == [mem EXCEPT !.flood.name = TRUE, !.flood.channel = TRUE]
  <2>1. new.pending = mem.pending
    BY SameFlood
  <2>2. /\ jobs[t].at = "keepName" /\ Persist(new, t, "dropName", "undoChannel")
        /\ Remember /\ UNCHANGED <<timers, used>>
    BY <1>7 DEF KeepName, At, timing
  <2> HIDE DEF new
  <2> QED BY <2>1, <2>2, PersistHolds
<1>8. CASE Forget(t)
  <2> DEFINE new == [mem EXCEPT !.flood.name = FALSE, !.flood.channel = FALSE]
  <2>1. new.pending = mem.pending
    BY SameFlood
  <2>2. /\ jobs[t].at = "forget" /\ Persist(new, t, "awaitEnd", "awaitEnd")
        /\ Remember /\ UNCHANGED <<timers, used>>
    BY <1>8 DEF Forget, At, timing
  <2> HIDE DEF new
  <2> QED BY <2>1, <2>2, PersistHolds
<1> QED BY <1>1, <1>2, <1>3, <1>4, <1>5, <1>6, <1>7, <1>8


\* A thread goes on, and the state is not touched.
LEMMA QuietlyHolds ==
  ASSUME Shape, QuestionInv, alive' = alive, UNCHANGED <<mem, row, timers, used>>, EndsNothing,
         \A s \in Threads : HolderKeeps(s) /\ SeerKeeps(s)
  PROVE  QuestionInv'
<1>1. UsedKept
  BY UsedCounts DEF QuestionInv
<1> QED BY <1>1, NoQuestion

\* A thread takes something up.
LEMMA TakesUp ==
  ASSUME Shape, QuestionShape, NEW t \in Threads, NEW j, jobs' = [jobs EXCEPT ![t] = j],
         jobs[t].at \notin Asking \cup Timing, j.at \notin Sending,
         j.at \in AboutUser => j.user \in Users
  PROVE  \A s \in Threads : HolderKeeps(s) /\ SeerKeeps(s)
<1>1. jobs'[t] = j /\ \A s \in Threads : s # t => jobs'[s] = jobs[s]
  BY DEF Shape
<1> QED BY <1>1, NewJob, SameJobs

LEMMA GotosHold ==
  ASSUME Shape, QuestionInv, NEW t \in Threads,
         \/ AlreadyAsked(t) \/ Verify(t) \/ Notice(t) \/ AwaitEnd(t) \/ Finish(t) \/ ShutOut(t)
  PROVE  QuestionInv'
<1> USE DEF Onward, AboutUser, Sending, Asking, Timing
<1>1. /\ alive' = alive /\ UNCHANGED <<mem, row, timers, used, past>>
  BY DEF AlreadyAsked, Verify, Notice, AwaitEnd, Finish, ShutOut, Quietly, state, timing
<1>2. EndsNothing
  BY <1>1, PastGrows
<1>3. \E step : Goto(t, step) /\ Onward(jobs[t].at, step)
  <2>1. CASE AlreadyAsked(t)
    BY <2>1 DEF AlreadyAsked, At
  <2>2. CASE Verify(t)
    <3>1. \E step \in {"done", "complete", "fail"} : Goto(t, step)
      BY <2>2 DEF Verify
    <3>2. jobs[t].at = "verify"
      BY <2>2 DEF Verify, At
    <3> QED BY <3>1, <3>2
  <2>3. CASE Notice(t)
    <3>1. \E step \in {"release", "block"} : Goto(t, step)
      BY <2>3 DEF Notice
    <3>2. jobs[t].at = "notice"
      BY <2>3 DEF Notice, At
    <3> QED BY <3>1, <3>2
  <2>4. CASE AwaitEnd(t)
    BY <2>4 DEF AwaitEnd, At
  <2>5. CASE Finish(t)
    BY <2>5 DEF Finish
  <2>6. CASE ShutOut(t)
    <3>1. \E step \in {"whoAmI", "awaitEnd"} : Goto(t, step)
      BY <2>6 DEF ShutOut
    <3>2. jobs[t].at = "shutOut"
      BY <2>6 DEF ShutOut, At
    <3> QED BY <3>1, <3>2
  <2> QED BY <2>1, <2>2, <2>3, <2>4, <2>5, <2>6
<1>4. \A s \in Threads : HolderKeeps(s) /\ SeerKeeps(s)
  BY <1>3, GotoKeeps DEF QuestionInv
<1> QED BY <1>1, <1>2, <1>4, QuietlyHolds

LEMMA OthersHold ==
  ASSUME Shape, QuestionInv, NEW t \in Threads,
         Rules(t) \/ ReadAuto(t) \/ (\E u \in Users : NextUser(t, u)) \/ FloodOver(t)
  PROVE  QuestionInv'
<1> USE DEF Onward, AboutUser, Sending, Asking, Timing
<1>1. /\ alive' = alive /\ UNCHANGED <<mem, row, timers, used>>
      /\ UNCHANGED past \/ past' = [past EXCEPT !.cut = TRUE]
  BY DEF Rules, ReadAuto, NextUser, FloodOver, Quietly, state, timing
<1>2. EndsNothing /\ QuestionShape
  BY <1>1, PastGrows DEF QuestionInv
<1>3. \A s \in Threads : HolderKeeps(s) /\ SeerKeeps(s)
  <2>1. CASE Rules(t)
    <3>1. jobs[t].at = "rules" /\ jobs[t].user \in Users
      BY <2>1, <1>2 DEF Rules, At, QuestionShape, In
    <3>2. CASE Goto(t, "done")
      BY <1>2, <3>1, <3>2, GotoKeeps
    <3>3. CASE ~Goto(t, "done")
      <4> DEFINE v == Verdict(mem.config, jobs[t].user, jobs[t].says)
                 a == [jobs[t] EXCEPT !.at = v]
                 j == IF v = "done" THEN Resting ELSE [a EXCEPT !.config = mem.config]
      <4>1. jobs' = [jobs EXCEPT ![t] = j]
        BY <2>1, <3>3 DEF Rules, Shape
      <4>2. v \in {"done", "punish", "trust", "observe"}
        BY VerdictIsStep
      <4> HIDE DEF v
      <4>3. a = [at |-> v, user |-> jobs[t].user, c |-> jobs[t].c, says |-> jobs[t].says,
                 config |-> jobs[t].config, users |-> jobs[t].users, flood |-> jobs[t].flood]
        BY DEF Shape, IsJob
      <4> HIDE DEF a
      <4>4. j = Resting \/ (j.at = v /\ j.user = jobs[t].user)
        BY <4>3
      <4> HIDE DEF j
      <4> QED BY <1>2, <3>1, <4>1, <4>2, <4>4, TakesUp, RestingIsJob
    <3> QED BY <3>2, <3>3
  <2>2. CASE ReadAuto(t)
    <3>1. jobs[t].at = "readAuto"
      BY <2>2 DEF ReadAuto, At
    <3>2. CASE Goto(t, "setAuto")
      BY <1>2, <3>1, <3>2, GotoKeeps
    <3>3. CASE ~Goto(t, "setAuto")
      <4> DEFINE a == [jobs[t] EXCEPT !.at = "keepAuto"]
                 j == [a EXCEPT !.c = account.auto]
      <4>1. jobs' = [jobs EXCEPT ![t].at = "keepAuto", ![t].c = account.auto]
        BY <2>2, <3>3 DEF ReadAuto
      <4>2. jobs' = [jobs EXCEPT ![t] = j]
        BY <4>1 DEF Shape
      <4>3. a = [at |-> "keepAuto", user |-> jobs[t].user, c |-> jobs[t].c, says |-> jobs[t].says,
                 config |-> jobs[t].config, users |-> jobs[t].users, flood |-> jobs[t].flood]
        BY DEF Shape, IsJob
      <4> HIDE DEF a
      <4>4. j.at = "keepAuto"
        BY <4>3
      <4> HIDE DEF j
      <4> QED BY <1>2, <3>1, <4>2, <4>4, TakesUp
    <3> QED BY <3>2, <3>3
  <2>3. ASSUME NEW u \in Users, NextUser(t, u)
        PROVE  \A s \in Threads : HolderKeeps(s) /\ SeerKeeps(s)
    <3> DEFINE next == IF jobs[t].config.floodAction = "captcha" THEN "begin" ELSE "next"
               a == [jobs[t] EXCEPT !.users = @ \ {u}]
               b == [a EXCEPT !.user = u]
               j == [b EXCEPT !.at = next]
    <3>1. jobs[t].at = "next" /\ next \in {"begin", "next"}
      BY <2>3 DEF NextUser, At
    <3>2. jobs' = [jobs EXCEPT ![t].users = @ \ {u}, ![t].user = u, ![t].at = next]
      BY <2>3 DEF NextUser
    <3>3. jobs' = [jobs EXCEPT ![t] = j]
      BY <3>2 DEF Shape
    <3> HIDE DEF next
    <3>4. a = [at |-> jobs[t].at, user |-> jobs[t].user, c |-> jobs[t].c, says |-> jobs[t].says,
               config |-> jobs[t].config, users |-> jobs[t].users \ {u}, flood |-> jobs[t].flood]
      <4>1. IsJob(jobs[t])
        BY DEF Shape
      <4>2. jobs[t] = [at |-> jobs[t].at, user |-> jobs[t].user, c |-> jobs[t].c, says |-> jobs[t].says,
                       config |-> jobs[t].config, users |-> jobs[t].users, flood |-> jobs[t].flood]
        BY <4>1 DEF IsJob
      <4> QED BY <4>2
    <3> HIDE DEF a
    <3>5. b = [at |-> jobs[t].at, user |-> u, c |-> jobs[t].c, says |-> jobs[t].says,
               config |-> jobs[t].config, users |-> jobs[t].users \ {u}, flood |-> jobs[t].flood]
      BY <3>4
    <3> HIDE DEF b
    <3>6. j.at = next /\ j.user = u
      BY <3>5
    <3> HIDE DEF j
    <3> QED BY <1>2, <3>1, <3>3, <3>6, TakesUp
  <2>4. CASE FloodOver(t)
    <3>1. jobs[t].at = "next" /\ jobs' = [jobs EXCEPT ![t] = Resting]
      BY <2>4 DEF FloodOver, At
    <3> QED BY <1>2, <3>1, TakesUp, RestingIsJob
  <2> QED BY <2>1, <2>2, <2>3, <2>4
<1> QED BY <1>1, <1>2, <1>3, QuietlyHolds

LEMMA PassingHolds ==
  ASSUME Shape, QuestionInv, MinuteEnds \/ Quiet \/ \E r \in retries : Retry(r)
  PROVE  QuestionInv'
<1>1. QuestionShape
  BY DEF QuestionInv
<1>2. alive' = alive /\ UNCHANGED <<row, timers, used, jobs>>
  BY DEF MinuteEnds, Quiet, Retry, state, timing
<1>3. mem'.pending = mem.pending
  BY SameFlood DEF MinuteEnds, Quiet, Retry, state
<1>4. \A s \in Threads : HolderKeeps(s) /\ SeerKeeps(s)
  BY <1>1, <1>2, SameJobs
<1>5. UNCHANGED past \/ \E cut : past' = [past EXCEPT !.cut = cut]
  BY DEF MinuteEnds, Quiet, Retry
<1>6. UsedKept /\ EndsNothing
  BY <1>1, <1>2, <1>5, UsedCounts, PastGrows
<1> QED BY <1>2, <1>3, <1>4, <1>6, NoQuestion


-----------------------------------------------------------------------------
(* Questions: they are ended.                                              *)

\* A state with the question of u taken away.
Without(new, u) == new.pending = [mem.pending EXCEPT ![u] = Nothing]

LEMMA DropsOne ==
  ASSUME Shape, QuestionShape, NEW u \in Users, NEW new, Write(new), Without(new, u),
         timers' = Disarm(u)
  PROVE  /\ Fewer(mem'.pending, mem.pending) /\ mem'.pending[u] = Nothing
         /\ Fewer(row'.pending, mem.pending) \/ Fewer(row'.pending, row.pending)
         /\ timers' = [v \in Users |-> timers'[v]]
         /\ \A v \in Users : v # u => timers'[v] = timers[v]
<1>1. Fewer(new.pending, mem.pending) /\ new.pending[u] = Nothing
  BY DEF Without, Fewer, QuestionShape
<1>2. mem' = new /\ (row' = new \/ row' = row)
  BY DEF Write
<1>3. timers' = [v \in Users |-> timers'[v]] /\ \A v \in Users : v # u => timers'[v] = timers[v]
  BY DEF Disarm, QuestionShape
<1> QED BY <1>1, <1>2, <1>3, FewerItself

LEMMA DropCovers ==
  ASSUME Shape, QuestionShape, TimersCover, NEW u \in Users, NEW new, Write(new), Without(new, u),
         timers' = Disarm(u), alive' = alive, PastCovers,
         \A t \in Threads : jobs[t].user # u => SeerKeeps(t)
  PROVE  TimersCover'
<1>1. /\ Fewer(mem'.pending, mem.pending) /\ mem'.pending[u] = Nothing
      /\ \A v \in Users : v # u => timers'[v] = timers[v]
  BY DropsOne
<1>2. \A v \in Users : v # u => \A t \in Threads : SeesTo(t, v, mem.pending[v]) => SeerKeeps(t)
  BY DEF SeesTo
<1> QED BY <1>1, <1>2, CoverKeeps

\* The question of u is gone without an outcome.
LEMMA DropHolds ==
  ASSUME Shape, QuestionInv, NEW u \in Users, NEW new, Write(new), Without(new, u),
         timers' = Disarm(u), alive' = alive, UsedKept, EndsNothing,
         \A t \in Threads : HolderKeeps(t) /\ (jobs[t].user # u => SeerKeeps(t))
  PROVE  QuestionInv'
<1>1. QuestionShape /\ OneOwner /\ EndedOnce /\ TimersCover /\ PastCovers
      /\ past'.ended = past.ended /\ past'.revived = past.revived
  BY DEF QuestionInv, EndsNothing
<1>2. (QuestionShape /\ OneOwner /\ EndedOnce)'
  BY <1>1, DropsOne, HoldersKeep
<1>3. TimersCover'
  BY <1>1, DropCovers
<1> QED BY <1>2, <1>3 DEF QuestionInv

\* The question of u has ended, and that is stored.
LEMMA EndHolds ==
  ASSUME Shape, QuestionInv, NEW u \in Users, NEW new, Write(new), Without(new, u), Saved,
         mem.pending[u] # Nothing, Ends(u),
         timers' = Disarm(u), alive' = alive, UsedKept,
         \A t \in Threads : HolderKeeps(t) /\ (jobs[t].user # u => SeerKeeps(t))
  PROVE  QuestionInv'
<1>1. QuestionShape /\ OneOwner /\ EndedOnce /\ TimersCover
  BY DEF QuestionInv
<1>2. PICK n0 \in Numbers : n0 = mem.pending[u].id /\ n0 <= used.challenges /\ used.challenges \in Nat
  <2>1. IsQuestion(mem.pending[u]) /\ used.challenges \in Numbers
    BY <1>1 DEF QuestionShape
  <2> QED BY <2>1, CaptchaAssumption DEF IsQuestion, Numbers
<1>3. /\ past'.ended = [past.ended EXCEPT ![n0] = @ + 1] /\ past'.revived = past.revived
      /\ PastCovers
  BY <1>2 DEF Ends, Shape, PastCovers
<1>4. past.ended \in [Numbers -> Nat] /\ past'.ended \in [Numbers -> Nat]
  BY <1>1, <1>2, <1>3 DEF QuestionShape
<1>5. /\ (QuestionShape /\ OneOwner)'
      /\ \A v \in Users, n \in Numbers : InState(v, n)' => InState(v, n)
      /\ \A t \in Threads, v \in Users, n \in Numbers : Sends(t, v, n)' => Sends(t, v, n)
  BY <1>1, <1>4, DropsOne, HoldersFewer
<1>6. mem' = new /\ row' = new
  <2>1. faults \in Nat /\ faults' = faults
    BY DEF Shape, Saved
  <2>2. ~CanFail
    BY <2>1 DEF CanFail
  <2> QED BY <2>2 DEF Write
<1>7. ASSUME NEW v \in Users, InState(v, n0)' PROVE FALSE
  <2>1. new.pending[v] # Nothing /\ new.pending[v].id = n0
    BY <1>6, <1>7 DEF InState
  <2>2. v # u /\ mem.pending[v] # Nothing /\ mem.pending[v].id = n0
    BY <1>1, <2>1 DEF Without, QuestionShape
  <2>3. InState(v, n0) /\ InState(u, n0)
    BY <1>2, <2>2 DEF InState
  <2> QED BY <1>1, <1>2, <2>2, <2>3 DEF OneOwner
<1>8. InState(u, n0)
  BY <1>2 DEF InState
<1>9. EndedOnce'
  <2> SUFFICES ASSUME NEW n \in Numbers
               PROVE  /\ past'.ended[n] <= IF n \in past'.revived THEN 2 ELSE 1
                      /\ \A v \in Users : InState(v, n)' => past'.ended[n] <= IF n \in past'.revived THEN 1 ELSE 0
                      /\ n \in past'.revived => \A t \in Threads, v \in Users : ~Sends(t, v, n)'
                      /\ n > used'.challenges => past'.ended[n] = 0 /\ n \notin past'.revived
    BY DEF EndedOnce
  <2>1. n > used'.challenges => n > used.challenges /\ n # n0
    BY <1>2, CaptchaAssumption DEF UsedKept, Numbers
  <2>2. past'.ended[n] = IF n = n0 THEN past.ended[n] + 1 ELSE past.ended[n]
    BY <1>3, <1>4
  <2>3. /\ past.ended[n] \in Nat
        /\ past.ended[n] <= IF n \in past.revived THEN 2 ELSE 1
        /\ \A v \in Users : InState(v, n) => past.ended[n] <= IF n \in past.revived THEN 1 ELSE 0
        /\ n \in past.revived => \A t \in Threads, v \in Users : ~Sends(t, v, n)
        /\ n > used.challenges => past.ended[n] = 0 /\ n \notin past.revived
    BY <1>1, <1>4 DEF EndedOnce
  <2>4. CASE n = n0
    <3>1. past.ended[n] <= IF n \in past.revived THEN 1 ELSE 0
      BY <1>8, <2>3, <2>4
    <3>2. past'.ended[n] = past.ended[n] + 1 /\ past'.revived = past.revived
      BY <1>3, <2>2, <2>4
    <3>3. past'.ended[n] <= IF n \in past'.revived THEN 2 ELSE 1
      BY <2>3, <3>1, <3>2
    <3>4. \A v \in Users : ~InState(v, n)'
      BY <1>7, <2>4
    <3>5. n \in past'.revived => \A t \in Threads, v \in Users : ~Sends(t, v, n)'
      BY <1>5, <2>3, <3>2
    <3> QED BY <2>1, <2>4, <3>3, <3>4, <3>5
  <2>5. CASE n # n0
    BY <1>3, <1>5, <2>1, <2>2, <2>3, <2>5
  <2> QED BY <2>4, <2>5
<1>10. TimersCover'
  BY <1>1, <1>3, DropCovers
<1> QED BY <1>5, <1>9, <1>10 DEF QuestionInv

\* An end that could not be stored counts for nothing.
LEMMA EndLost ==
  ASSUME Shape, QuestionShape, NEW u \in Users, mem.pending[u] # Nothing, Ends(u), ~Saved
  PROVE  EndsNothing
<1>1. mem.pending[u].id \in Numbers
  <2>1. IsQuestion(mem.pending[u]) /\ used.challenges \in Numbers
    BY DEF QuestionShape
  <2> QED BY <2>1, CaptchaAssumption DEF IsQuestion, Numbers
<1>2. past.ended \in [Numbers -> Nat]
  BY DEF QuestionShape
<1>3. past' = [past EXCEPT !.ended = [past.ended EXCEPT ![mem.pending[u].id] = @],
                         !.unsaved = @ \/ ~Saved]
  BY DEF Ends, Shape
<1>4. [past.ended EXCEPT ![mem.pending[u].id] = @] = past.ended
  BY <1>1, <1>2
<1> QED BY <1>3, <1>4 DEF EndsNothing, PastCovers, Shape

LEMMA OverWithout ==
  ASSUME Shape
  PROVE  /\ \A u, verified : Without(Over(u, verified), u)
         /\ \A u : Without([mem EXCEPT !.pending[u] = Nothing], u)
<1>1. mem = [config |-> mem.config, verified |-> mem.verified, flood |-> mem.flood, pending |-> mem.pending]
  BY DEF Shape, IsState
<1>2. ASSUME NEW u, NEW verified PROVE Without(Over(u, verified), u)
  <2> DEFINE a == [mem EXCEPT !.pending[u] = Nothing]
  <2>1. a = [config |-> mem.config, verified |-> mem.verified, flood |-> mem.flood,
             pending |-> [mem.pending EXCEPT ![u] = Nothing]]
    BY <1>1
  <2> HIDE DEF a
  <2>2. [a EXCEPT !.verified = verified].pending = [mem.pending EXCEPT ![u] = Nothing]
    BY <2>1
  <2> QED BY <2>2 DEF a, Over, Without
<1>3. ASSUME NEW u PROVE Without([mem EXCEPT !.pending[u] = Nothing], u)
  BY <1>1 DEF Without
<1> QED BY <1>2, <1>3

\* A thread is done with what it saw to.
LEMMA SeerStops ==
  ASSUME Shape, QuestionShape, NEW t \in Threads, NEW step, Goto(t, step), step \notin AboutUser
  PROVE  \A s \in Threads : HolderKeeps(s) /\ (jobs[s].user # jobs[t].user => SeerKeeps(s))
<1>1. \A s \in Threads : s # t => jobs'[s] = jobs[s]
  BY GotoEffect
<1>2. jobs'[t].at \notin AboutUser
  <2>1. CASE step = "done"
    <3>1. jobs'[t].at \in {"idle", "next"}
      BY <2>1, GotoDone
    <3> QED BY <3>1 DEF AboutUser, Asking, Timing
  <2>2. CASE step # "done"
    BY <2>2, GotoStep
  <2> QED BY <2>1, <2>2
<1>3. HolderKeeps(t)
  BY <1>2 DEF HolderKeeps, AboutUser, Sending, Asking
<1> QED BY <1>1, <1>3, SameJobs

LEMMA EndingHolds ==
  ASSUME Shape, QuestionInv, NEW t \in Threads, RemoveChallenge(t) \/ Complete(t)
  PROVE  QuestionInv'
<1> DEFINE u == jobs[t].user
<1>1. QuestionShape /\ jobs[t].at \in {"remove", "complete"} /\ u \in Users
  BY DEF QuestionInv, RemoveChallenge, Complete, At, QuestionShape, In, AboutUser, Asking
<1> USE DEF AboutUser, Asking, Timing
<1>2. CASE RemoveChallenge(t)
  <2> DEFINE new == [mem EXCEPT !.pending[u] = Nothing]
  <2>1. /\ Write(new) /\ Goto(t, "done") /\ alive' = alive /\ timers' = Disarm(u)
        /\ Remember /\ UNCHANGED used
    BY <1>2 DEF RemoveChallenge, Persist
  <2>2. Without(new, u)
    BY OverWithout
  <2> HIDE DEF new
  <2>3. \A s \in Threads : HolderKeeps(s) /\ (jobs[s].user # u => SeerKeeps(s))
    BY <1>1, <2>1, SeerStops
  <2> QED BY <1>1, <2>1, <2>2, <2>3, DropHolds, UsedCounts, PastGrows
<1>3. CASE Complete(t)
  <2>1. CASE mem.pending[u] = Nothing
    <3>1. /\ Goto(t, "done") /\ alive' = alive /\ UNCHANGED <<mem, row, timers, used, past>>
      BY <1>3, <2>1 DEF Complete, state, timing
    <3>2. \A s \in Threads : HolderKeeps(s) /\ (jobs[s].user # u => SeerKeeps(s))
      BY <1>1, <3>1, SeerStops
    <3>3. UsedKept /\ EndsNothing
      BY <1>1, <3>1, UsedCounts, PastGrows
    <3>4. (QuestionShape /\ OneOwner /\ EndedOnce)'
      BY <1>1, <3>1, <3>2, <3>3, HoldersKeep, FewerItself DEF QuestionInv, EndsNothing, QuestionShape
    <3>5. TimersCover'
      <4>1. \A v \in Users : v # u => \A s \in Threads : SeesTo(s, v, mem.pending[v]) => SeerKeeps(s)
        BY <3>2 DEF SeesTo
      <4> QED BY <1>1, <2>1, <3>1, <3>3, <4>1, CoverKeeps, FewerItself DEF QuestionInv, EndsNothing
    <3> QED BY <3>4, <3>5 DEF QuestionInv
  <2>2. CASE mem.pending[u] # Nothing
    <3> DEFINE new == Over(u, mem.verified \cup {u})
               ok == IF mem.pending[u].type = "img" THEN "open" ELSE "release"
    <3>1. /\ Persist(new, t, ok, "done") /\ timers' = Disarm(u) /\ Ends(u) /\ UNCHANGED used
      BY <1>3, <2>2 DEF Complete
    <3>2. ok \in {"open", "release"}
      OBVIOUS
    <3>3. Without(new, u)
      BY OverWithout
    <3> HIDE DEF new, ok
    <3>4. Write(new) /\ alive' = alive /\ (Goto(t, ok) \/ Goto(t, "done"))
      BY <3>1 DEF Persist
    <3>5. \A s \in Threads : HolderKeeps(s) /\ (jobs[s].user # u => SeerKeeps(s))
      BY <1>1, <3>2, <3>4, SeerStops
    <3>6. UsedKept
      BY <1>1, <3>1, UsedCounts
    <3>7. CASE Saved
      BY <1>1, <2>2, <3>1, <3>3, <3>4, <3>5, <3>6, <3>7, EndHolds
    <3>8. CASE ~Saved
      BY <1>1, <2>2, <3>1, <3>3, <3>4, <3>5, <3>6, <3>8, EndLost, DropHolds
    <3> QED BY <3>7, <3>8
  <2> QED BY <2>1, <2>2
<1> QED BY <1>2, <1>3


LEMMA FailHolds ==
  ASSUME Shape, QuestionInv, NEW t \in Threads, Fail(t)
  PROVE  QuestionInv'
<1> DEFINE u == jobs[t].user
<1>1. /\ QuestionShape /\ jobs[t].at = "fail" /\ u \in Users /\ alive' = alive
      /\ UsedKept /\ UNCHANGED used
  BY UsedCounts DEF QuestionInv, Fail, At, QuestionShape, In, AboutUser, Timing
<1>2. CASE ~Matches(u, jobs[t].c)
  <2>1. /\ Goto(t, "done") /\ UNCHANGED <<mem, row, timers, past>>
    BY <1>2 DEF Fail, timing
  <2>2. \A s \in Threads : HolderKeeps(s) /\ (s # t => SeerKeeps(s))
    <3>1. \A s \in Threads : HolderKeeps(s)
      BY <1>1, <2>1, SeerStops DEF AboutUser, Asking, Timing
    <3>2. \A s \in Threads : s # t => jobs'[s] = jobs[s]
      BY <2>1, GotoEffect
    <3> QED BY <1>1, <3>1, <3>2, SameJobs
  <2>3. EndsNothing
    BY <2>1, PastGrows
  <2>4. (QuestionShape /\ OneOwner /\ EndedOnce)'
    BY <1>1, <2>1, <2>2, <2>3, HoldersKeep, FewerItself DEF QuestionInv, EndsNothing, QuestionShape
  <2>5. TimersCover'
    <3>1. ASSUME NEW v \in Users, mem.pending[v] # Nothing PROVE ~SeesTo(t, v, mem.pending[v])
      BY <1>1, <1>2, <3>1 DEF SeesTo, Matches, Asking
    <3> QED BY <1>1, <2>1, <2>2, <2>3, <3>1, CoverKeeps, FewerItself DEF QuestionInv, EndsNothing
  <2> QED BY <2>4, <2>5 DEF QuestionInv
<1>3. CASE Matches(u, jobs[t].c)
  <2> DEFINE new == Over(u, mem.verified)
  <2>1. mem.pending[u] # Nothing /\ Write(new) /\ Ends(u) /\ timers' = Disarm(u) /\ Without(new, u)
    BY <1>3, OverWithout DEF Fail, Matches
  <2> HIDE DEF new
  <2>2. \A s \in Threads : HolderKeeps(s) /\ (jobs[s].user # u => SeerKeeps(s))
    <3>1. CASE ~Saved
      <4>1. Goto(t, "done")
        BY <1>3, <3>1 DEF Fail
      <4> QED BY <1>1, <4>1, SeerStops DEF AboutUser, Asking, Timing
    <3>2. CASE Saved
      <4> DEFINE next == IF mem.pending[u].type = "img" THEN "reopen" ELSE "notice"
                 a == [jobs[t] EXCEPT !.config = mem.config]
                 j == [a EXCEPT !.at = next]
      <4>1. jobs' = [jobs EXCEPT ![t].config = mem.config, ![t].at = next]
        BY <1>3, <3>2 DEF Fail
      <4>2. jobs' = [jobs EXCEPT ![t] = j]
        BY <4>1 DEF Shape
      <4>3. next \in {"reopen", "notice"}
        OBVIOUS
      <4> HIDE DEF next
      <4>4. j.at = next
        <5>1. IsJob(jobs[t])
          BY DEF Shape
        <5>2. a = [at |-> jobs[t].at, user |-> jobs[t].user, c |-> jobs[t].c, says |-> jobs[t].says,
                   config |-> mem.config, users |-> jobs[t].users, flood |-> jobs[t].flood]
          BY <5>1 DEF IsJob
        <5> HIDE DEF a
        <5> QED BY <5>2
      <4> HIDE DEF j
      <4>5. jobs'[t].at \notin AboutUser /\ \A s \in Threads : s # t => jobs'[s] = jobs[s]
        BY <4>2, <4>3, <4>4 DEF Shape, AboutUser, Asking, Timing
      <4>6. HolderKeeps(t)
        BY <4>5 DEF HolderKeeps, AboutUser, Asking, Sending
      <4> QED BY <1>1, <4>5, <4>6, SameJobs
    <3> QED BY <3>1, <3>2
  <2>3. CASE Saved
    BY <1>1, <2>1, <2>2, <2>3, EndHolds
  <2>4. CASE ~Saved
    BY <1>1, <2>1, <2>2, <2>4, EndLost, DropHolds
  <2> QED BY <2>3, <2>4
<1> QED BY <1>2, <1>3

-----------------------------------------------------------------------------
(* Questions: they are asked.                                              *)

\* A new number is of one person, and in the hands of one thread.
LEMMA NewNumber ==
  ASSUME QuestionInv, QuestionShape', used'.challenges = used.challenges + 1,
         past'.ended = past.ended, past'.revived = past.revived, NEW t \in Threads, NEW u \in Users,
         \A v \in Users, n \in Numbers :
           InState(v, n)' => InState(v, n) \/ (v = u /\ n = used.challenges + 1),
         \A s \in Threads, v \in Users, n \in Numbers :
           Sends(s, v, n)' => Sends(s, v, n) \/ (s = t /\ v = u /\ n = used.challenges + 1)
  PROVE  (OneOwner /\ EndedOnce)'
<1>1. QuestionShape /\ OneOwner /\ EndedOnce /\ used.challenges \in Nat
  BY CaptchaAssumption DEF QuestionInv, QuestionShape, Numbers
<1>2. ASSUME NEW v \in Users, NEW n \in Numbers, InState(v, n) PROVE n # used.challenges + 1
  <2>1. \E s \in {mem, row} : s.pending[v] # Nothing /\ s.pending[v].id = n /\ IsQuestion(s.pending[v])
    BY <1>1, <1>2 DEF InState, QuestionShape
  <2> QED BY <1>1, <2>1 DEF IsQuestion
<1>3. ASSUME NEW s \in Threads, NEW v \in Users, NEW n \in Numbers, Sends(s, v, n)
      PROVE  n # used.challenges + 1
  <2>1. IsQuestion(jobs[s].c) /\ jobs[s].c.id = n
    BY <1>1, <1>3 DEF Sends, QuestionShape
  <2> QED BY <1>1, <2>1 DEF IsQuestion
<1>4. OneOwner'
  <2> SUFFICES ASSUME NEW n \in Numbers, NEW v \in Users, NEW w \in Users
               PROVE  /\ InState(v, n)' /\ InState(w, n)' => v = w
                      /\ \A h \in Threads : Sends(h, v, n)' =>
                           (InState(w, n)' => v = w) /\ \A s \in Threads : Sends(s, w, n)' => s = h
    BY DEF OneOwner
  <2>1. CASE n = used.challenges + 1
    <3>1. \A x \in Users : ~InState(x, n) /\ \A s \in Threads : ~Sends(s, x, n)
      BY <1>2, <1>3, <2>1
    <3> QED BY <3>1
  <2>2. CASE n # used.challenges + 1
    BY <1>1, <2>2 DEF OneOwner
  <2> QED BY <2>1, <2>2
<1>5. EndedOnce'
  <2> SUFFICES ASSUME NEW n \in Numbers
               PROVE  /\ past'.ended[n] <= IF n \in past'.revived THEN 2 ELSE 1
                      /\ \A v \in Users : InState(v, n)' => past'.ended[n] <= IF n \in past'.revived THEN 1 ELSE 0
                      /\ n \in past'.revived => \A s \in Threads, v \in Users : ~Sends(s, v, n)'
                      /\ n > used'.challenges => past'.ended[n] = 0 /\ n \notin past'.revived
    BY DEF EndedOnce
  <2>1. /\ past.ended[n] <= IF n \in past.revived THEN 2 ELSE 1
        /\ \A v \in Users : InState(v, n) => past.ended[n] <= IF n \in past.revived THEN 1 ELSE 0
        /\ n \in past.revived => \A s \in Threads, v \in Users : ~Sends(s, v, n)
        /\ n > used.challenges => past.ended[n] = 0 /\ n \notin past.revived
    BY <1>1 DEF EndedOnce
  <2>2. n \in Nat
    BY CaptchaAssumption DEF Numbers
  <2>3. CASE n = used.challenges + 1
    BY <1>1, <2>1, <2>2, <2>3
  <2>4. CASE n # used.challenges + 1
    BY <1>1, <2>1, <2>2, <2>4
  <2> QED BY <2>3, <2>4
<1> QED BY <1>4, <1>5


LEMMA QuestionIs ==
  ASSUME QuestionShape, NEW t \in Threads, NEW type, jobs[t].at \in AboutUser,
         used'.challenges = used.challenges + 1, UsedKept
  PROVE  /\ jobs[t].user \in Users
         /\ Question(type).id = used.challenges + 1
         /\ Question(type) = [id |-> Question(type).id, type |-> Question(type).type,
                              answer |-> Question(type).answer, tries |-> Question(type).tries]
         /\ Question(type).id \in 1 .. used'.challenges
<1>1. used.challenges \in Nat
  BY CaptchaAssumption DEF QuestionShape, Numbers
<1>2. jobs[t].user \in Users
  BY DEF QuestionShape, In
<1> QED BY <1>1, <1>2 DEF Question, NewId

\* A question that was written before is one after more have been asked.
LEMMA StillQuestion ==
  ASSUME QuestionShape, UsedKept, NEW c, IsQuestion(c)
  PROVE  /\ c = [id |-> c.id, type |-> c.type, answer |-> c.answer, tries |-> c.tries]
         /\ c.id \in 1 .. used'.challenges
BY CaptchaAssumption DEF QuestionShape, UsedKept, IsQuestion, Numbers

\* A job with another step and another question.
LEMMA QuestionJob ==
  ASSUME Shape, NEW t \in Threads, NEW step, NEW c,
         jobs' = [jobs EXCEPT ![t].at = step, ![t].c = c]
  PROVE  /\ jobs'[t].at = step /\ jobs'[t].c = c /\ jobs'[t].user = jobs[t].user
         /\ \A s \in Threads : s # t => jobs'[s] = jobs[s]
<1> DEFINE a == [jobs[t] EXCEPT !.at = step]
           j == [a EXCEPT !.c = c]
<1>1. jobs' = [jobs EXCEPT ![t] = j]
  BY DEF Shape
<1>2. IsJob(jobs[t])
  BY DEF Shape
<1>3. a = [at |-> step, user |-> jobs[t].user, c |-> jobs[t].c, says |-> jobs[t].says,
           config |-> jobs[t].config, users |-> jobs[t].users, flood |-> jobs[t].flood]
  BY <1>2 DEF IsJob
<1> HIDE DEF a
<1>4. j.at = step /\ j.c = c /\ j.user = jobs[t].user
  BY <1>3
<1> HIDE DEF j
<1> QED BY <1>1, <1>4 DEF Shape

LEMMA BeginHolds ==
  ASSUME Shape, QuestionInv, NEW t \in Threads, Begin(t)
  PROVE  QuestionInv'
<1> DEFINE u == jobs[t].user
           c == Question(jobs[t].config.type)
<1>1. /\ QuestionShape /\ jobs[t].at = "begin" /\ alive' = alive
      /\ UNCHANGED <<timers, past>> /\ mem.pending[u] = Nothing
      /\ UsedKept /\ used'.challenges = used.challenges + 1
  BY UsedCounts DEF QuestionInv, Begin, At, timing
<1>2. EndsNothing
  BY <1>1, PastGrows
<1>3. CASE UNCHANGED <<mem, row>> /\ Goto(t, "done")
  <2>1. \A s \in Threads : HolderKeeps(s) /\ SeerKeeps(s)
    BY <1>1, <1>3, GotoKeeps DEF Onward, AboutUser, Asking, Timing, Sending
  <2> QED BY <1>1, <1>2, <1>3, <2>1, NoQuestion
<1>4. CASE ~(UNCHANGED <<mem, row>> /\ Goto(t, "done"))
  <2>1. /\ mem' = [mem EXCEPT !.pending[u] = c] /\ row' = mem'
        /\ jobs' = [jobs EXCEPT ![t].at = "archive", ![t].c = c]
    BY <1>4 DEF Begin
  <2>2. /\ u \in Users /\ c.id = used.challenges + 1 /\ c.id \in 1 .. used'.challenges
        /\ c = [id |-> c.id, type |-> c.type, answer |-> c.answer, tries |-> c.tries]
    BY <1>1, QuestionIs DEF AboutUser
  <2> HIDE DEF c
  <2>3. /\ jobs'[t].at = "archive" /\ jobs'[t].c = c /\ jobs'[t].user = u
        /\ \A s \in Threads : s # t => jobs'[s] = jobs[s]
    BY <2>1, QuestionJob
  <2>4. mem'.pending = [mem.pending EXCEPT ![u] = c] /\ row'.pending = mem'.pending
    BY <2>1 DEF Shape, IsState
  <2>5. /\ mem'.pending = [v \in Users |-> mem'.pending[v]]
        /\ mem'.pending[u] = c
        /\ \A v \in Users : v # u => mem'.pending[v] = mem.pending[v]
    BY <1>1, <2>2, <2>4 DEF QuestionShape
  <2>6. QuestionShape'
    <3>1. \A v \in Users : mem'.pending[v] = Nothing \/ IsQuestion(mem.pending[v])'
      <4> SUFFICES ASSUME NEW v \in Users, mem'.pending[v] # Nothing PROVE IsQuestion(mem.pending[v])'
        OBVIOUS
      <4>1. CASE v = u
        BY <2>2, <2>5, <4>1 DEF IsQuestion
      <4>2. CASE v # u
        <5>1. IsQuestion(mem.pending[v]) /\ mem'.pending[v] = mem.pending[v]
          BY <1>1, <2>5, <4>2 DEF QuestionShape
        <5> QED BY <1>1, <5>1, StillQuestion DEF IsQuestion
      <4> QED BY <4>1, <4>2
    <3>2. \A v \in Users : row'.pending[v] = Nothing \/ IsQuestion(row.pending[v])'
      BY <2>4, <3>1 DEF IsQuestion
    <3>3. \A s \in Threads : /\ jobs'[s].at \in AboutUser => jobs'[s].user \in Users
                             /\ jobs'[s].at \in Sending => IsQuestion(jobs[s].c)'
      <4> SUFFICES ASSUME NEW s \in Threads
                   PROVE  /\ jobs'[s].at \in AboutUser => jobs'[s].user \in Users
                          /\ jobs'[s].at \in Sending => IsQuestion(jobs[s].c)'
        OBVIOUS
      <4>1. CASE s = t
        BY <2>2, <2>3, <4>1 DEF IsQuestion
      <4>2. CASE s # t
        <5>1. /\ jobs[s].at \in AboutUser => jobs[s].user \in Users
              /\ jobs[s].at \in Sending => IsQuestion(jobs[s].c)
          BY <1>1 DEF QuestionShape, In
        <5> QED BY <1>1, <2>3, <4>2, <5>1, StillQuestion DEF IsQuestion
      <4> QED BY <4>1, <4>2
    <3>4. row'.pending = [v \in Users |-> row'.pending[v]] /\ timers' = [v \in Users |-> timers'[v]]
      BY <1>1, <2>4, <2>5 DEF QuestionShape
    <3> QED BY <1>1, <2>5, <3>1, <3>2, <3>3, <3>4 DEF QuestionShape, UsedKept, In
  <2>7. ASSUME NEW v \in Users, NEW n \in Numbers, InState(v, n)'
        PROVE  InState(v, n) \/ (v = u /\ n = used.challenges + 1)
    <3>1. mem'.pending[v] # Nothing /\ mem'.pending[v].id = n
      BY <2>4, <2>7 DEF InState
    <3> QED BY <2>2, <2>5, <3>1 DEF InState
  <2>8. ASSUME NEW s \in Threads, NEW v \in Users, NEW n \in Numbers, Sends(s, v, n)'
        PROVE  Sends(s, v, n) \/ (s = t /\ v = u /\ n = used.challenges + 1)
    BY <2>2, <2>3, <2>8 DEF Sends, In
  <2>9. (OneOwner /\ EndedOnce)'
    <3>1. past'.ended = past.ended /\ past'.revived = past.revived
      BY <1>1
    <3> HIDE DEF u
    <3> QED BY <1>1, <2>2, <2>6, <2>7, <2>8, <3>1, NewNumber
  <2>10. TimersCover'
    <3> SUFFICES ASSUME NEW v \in Users PROVE RunsOut(v)'
      BY DEF TimersCover
    <3>1. CASE v = u
      <4>1. SeesTo(t, v, mem.pending[v])'
        BY <2>3, <3>1 DEF SeesTo, Asking
      <4> QED BY <4>1 DEF RunsOut
    <3>2. CASE v # u
      <4>1. \A s \in Threads : SeesTo(s, v, mem.pending[v]) => SeerKeeps(s)
        BY <1>1, <2>3, SameJobs DEF SeesTo, Asking, Timing
      <4> QED BY <1>1, <1>2, <2>5, <3>2, <4>1, StillRunsOut DEF QuestionInv, TimersCover, EndsNothing
    <3> QED BY <3>1, <3>2
  <2> QED BY <2>6, <2>9, <2>10 DEF QuestionInv
<1> QED BY <1>3, <1>4


LEMMA FallbackHolds ==
  ASSUME Shape, QuestionInv, NEW t \in Threads, Fallback(t)
  PROVE  QuestionInv'
<1> DEFINE u == jobs[t].user
<1>1. /\ QuestionShape /\ jobs[t].at = "fallback" /\ u \in Users /\ alive' = alive
      /\ UNCHANGED <<mem, row, timers, past>>
  BY DEF QuestionInv, Fallback, At, state, timing, QuestionShape, In, AboutUser, Asking
<1>2. /\ EndsNothing /\ timers' = [v \in Users |-> timers'[v]]
      /\ Fewer(mem'.pending, mem.pending) /\ Fewer(row'.pending, row.pending)
  BY <1>1, PastGrows, FewerItself DEF QuestionShape
<1>3. CASE Goto(t, "done") /\ UNCHANGED used
  <2>1. \A s \in Threads : HolderKeeps(s) /\ (jobs[s].user # u => SeerKeeps(s))
    BY <1>1, <1>3, SeerStops DEF AboutUser, Asking, Timing
  <2>2. UsedKept
    BY <1>1, <1>3, UsedCounts
  <2>3. (QuestionShape /\ OneOwner /\ EndedOnce)'
    BY <1>2, <2>1, <2>2, HoldersKeep DEF QuestionInv, EndsNothing
  <2>4. CASE mem.pending[u] = Nothing
    <3>1. \A v \in Users : v # u => \A s \in Threads : SeesTo(s, v, mem.pending[v]) => SeerKeeps(s)
      BY <2>1 DEF SeesTo
    <3>2. TimersCover'
      BY <1>1, <1>2, <2>4, <3>1, CoverKeeps DEF QuestionInv, EndsNothing
    <3> QED BY <2>3, <3>2 DEF QuestionInv
  <2>5. CASE mem.pending[u] # Nothing
    <3>1. jobs' = [jobs EXCEPT ![t].at = "send", ![t].c = Question("math")]
      BY <2>5 DEF Fallback
    <3>2. jobs'[t].at = "send" /\ jobs'[t].at \in {"idle", "next"}
      BY <1>3, <3>1, QuestionJob, GotoDone
    <3> QED BY <3>2
  <2> QED BY <2>4, <2>5
<1>4. CASE ~(Goto(t, "done") /\ UNCHANGED used)
  <2> DEFINE c == Question("math")
  <2>1. /\ used.challenges < MaxChallenges /\ Counting("challenges")
        /\ jobs' = [jobs EXCEPT ![t].at = "send", ![t].c = c]
    BY <1>4 DEF Fallback
  <2>2. UsedKept /\ used'.challenges = used.challenges + 1
    BY <1>1, <2>1, UsedCounts
  <2>3. /\ c.id = used.challenges + 1 /\ c.id \in 1 .. used'.challenges
        /\ c = [id |-> c.id, type |-> c.type, answer |-> c.answer, tries |-> c.tries]
    BY <1>1, <2>2, QuestionIs DEF AboutUser, Asking
  <2> HIDE DEF c
  <2>4. /\ jobs'[t].at = "send" /\ jobs'[t].c = c /\ jobs'[t].user = u
        /\ \A s \in Threads : s # t => jobs'[s] = jobs[s]
    BY <2>1, QuestionJob
  <2>5. QuestionShape'
    <3>1. \A s \in {mem', row'} : s.pending = [v \in Users |-> s.pending[v]]
      BY <1>2 DEF Fewer
    <3>2. \A v \in Users : /\ mem'.pending[v] = Nothing \/ IsQuestion(mem.pending[v])'
                           /\ row'.pending[v] = Nothing \/ IsQuestion(row.pending[v])'
      BY <1>1, <2>2, StillQuestion DEF IsQuestion, QuestionShape
    <3>3. \A s \in Threads : /\ jobs'[s].at \in AboutUser => jobs'[s].user \in Users
                             /\ jobs'[s].at \in Sending => IsQuestion(jobs[s].c)'
      <4> SUFFICES ASSUME NEW s \in Threads
                   PROVE  /\ jobs'[s].at \in AboutUser => jobs'[s].user \in Users
                          /\ jobs'[s].at \in Sending => IsQuestion(jobs[s].c)'
        OBVIOUS
      <4>1. CASE s = t
        BY <1>1, <2>3, <2>4, <4>1 DEF IsQuestion
      <4>2. CASE s # t
        <5>1. /\ jobs[s].at \in AboutUser => jobs[s].user \in Users
              /\ jobs[s].at \in Sending => IsQuestion(jobs[s].c)
          BY <1>1 DEF QuestionShape, In
        <5> QED BY <1>1, <2>2, <2>4, <4>2, <5>1, StillQuestion DEF IsQuestion
      <4> QED BY <4>1, <4>2
    <3> QED BY <1>1, <1>2, <2>2, <3>1, <3>2, <3>3 DEF QuestionShape, UsedKept, In
  <2>6. \A v \in Users, n \in Numbers : InState(v, n)' => InState(v, n)
    BY <1>1 DEF InState
  <2>7. ASSUME NEW s \in Threads, NEW v \in Users, NEW n \in Numbers, Sends(s, v, n)'
        PROVE  Sends(s, v, n) \/ (s = t /\ v = u /\ n = used.challenges + 1)
    BY <2>3, <2>4, <2>7 DEF Sends, In
  <2>8. (OneOwner /\ EndedOnce)'
    <3>1. past'.ended = past.ended /\ past'.revived = past.revived
      BY <1>1
    <3> HIDE DEF u
    <3> QED BY <1>1, <2>2, <2>5, <2>6, <2>7, <3>1, NewNumber
  <2>9. TimersCover'
    <3>1. \A s \in Threads : SeerKeeps(s)
      <4>1. SeerKeeps(t)
        BY <1>1, <2>4 DEF SeerKeeps, Asking, Timing
      <4> QED BY <1>1, <2>4, <4>1, SameJobs
    <3> QED BY <1>1, <1>2, <3>1, CoverKeeps DEF QuestionInv, EndsNothing
  <2> QED BY <2>5, <2>8, <2>9 DEF QuestionInv
<1> QED BY <1>3, <1>4

\* saveChallenge writes the copy of the thread, and brings back what was ended.
LEMMA SaveHolds ==
  ASSUME Shape, QuestionInv, NEW t \in Threads, Save(t)
  PROVE  QuestionInv'
<1> DEFINE u == jobs[t].user
           c == [jobs[t].c EXCEPT !.answer = IF jobs[t].c.type = "math" THEN jobs[t].c.id ELSE 0]
           new == [mem EXCEPT !.pending[u] = c]
           ok == IF c.type = "img" THEN "shut" ELSE "arm"
<1>1. /\ QuestionShape /\ OneOwner /\ EndedOnce /\ TimersCover
      /\ jobs[t].at = "save" /\ Persist(new, t, ok, "done") /\ UNCHANGED <<timers, used>>
      /\ past' = [past EXCEPT !.revived = IF past.ended[c.id] > 0 THEN @ \cup {c.id} ELSE @,
                             !.unsaved = @ \/ ~Saved]
  BY DEF QuestionInv, Save, At, timing
<1>2. u \in Users /\ IsQuestion(jobs[t].c) /\ UsedKept /\ used.challenges \in Nat
  BY <1>1, UsedCounts, CaptchaAssumption DEF QuestionShape, In, AboutUser, Asking, Sending, Numbers
<1>3. IsQuestion(c) /\ c.id = jobs[t].c.id
  BY <1>2 DEF IsQuestion
<1>4. ok \in {"shut", "arm"}
  OBVIOUS
<1>5. new.pending = [mem.pending EXCEPT ![u] = c]
  BY DEF Shape, IsState
<1> HIDE DEF c, new, ok
<1>6. PICK n0 \in Numbers : n0 = c.id
  BY <1>1, <1>3, CaptchaAssumption DEF IsQuestion, QuestionShape, Numbers
<1>7. /\ mem' = new /\ (row' = new \/ row' = row) /\ alive' = alive
      /\ IF Saved THEN row' = new /\ Goto(t, ok) ELSE Goto(t, "done")
  <2>1. Write(new)
    BY <1>1 DEF Persist
  <2>2. Saved => ~CanFail
    BY DEF Saved, CanFail, Shape
  <2> QED BY <1>1, <2>1, <2>2 DEF Write, Persist
<1>8. /\ past'.ended = past.ended /\ past'.unsaved = (past.unsaved \/ ~Saved)
      /\ past'.revived = IF past.ended[n0] > 0 THEN past.revived \cup {n0} ELSE past.revived
      /\ PastCovers
  BY <1>1, <1>6 DEF Shape, PastCovers
<1>9. /\ jobs'[t].at \notin Sending /\ (jobs'[t].at \in AboutUser => jobs'[t].user = u)
      /\ Saved => jobs'[t].at = ok /\ jobs'[t].user = u /\ jobs'[t].c = jobs[t].c
      /\ \A s \in Threads : s # t => jobs'[s] = jobs[s]
  <2>1. CASE Saved
    BY <1>4, <1>7, <2>1, GotoEffect, GotoStep DEF Sending
  <2>2. CASE ~Saved
    BY <1>7, <2>2, GotoEffect, GotoDone DEF Sending, AboutUser, Asking, Timing
  <2> QED BY <2>1, <2>2
<1>10. /\ new.pending = [v \in Users |-> new.pending[v]] /\ new.pending[u] = c
       /\ \A v \in Users : v # u => new.pending[v] = mem.pending[v]
  BY <1>1, <1>2, <1>5 DEF QuestionShape
<1>11. QuestionShape'
  <2>1. \A v \in Users : new.pending[v] = Nothing \/ IsQuestion(new.pending[v])
    BY <1>1, <1>3, <1>10 DEF QuestionShape
  <2>2. \A x : IsQuestion(x) => /\ x = [id |-> x.id, type |-> x.type, answer |-> x.answer, tries |-> x.tries]
                                /\ x.id \in 1 .. used'.challenges
    BY <1>1, <1>2, StillQuestion
  <2>3. \A v \in Users : /\ mem'.pending[v] = Nothing \/ IsQuestion(mem.pending[v])'
                         /\ row'.pending[v] = Nothing \/ IsQuestion(row.pending[v])'
    BY <1>1, <1>7, <2>1, <2>2 DEF QuestionShape, IsQuestion
  <2>4. \A s \in Threads : /\ jobs'[s].at \in AboutUser => jobs'[s].user \in Users
                           /\ jobs'[s].at \in Sending => IsQuestion(jobs[s].c)'
    <3>1. \A s \in Threads : /\ jobs[s].at \in AboutUser => jobs[s].user \in Users
                             /\ jobs[s].at \in Sending => IsQuestion(jobs[s].c)
      BY <1>1 DEF QuestionShape, In
    <3> QED BY <1>2, <1>9, <2>2, <3>1 DEF IsQuestion
  <2>5. \A s \in {mem', row'} : s.pending = [v \in Users |-> s.pending[v]]
    BY <1>1, <1>7, <1>10 DEF QuestionShape
  <2>6. timers' = [v \in Users |-> timers'[v]] /\ past'.ended \in [Numbers -> Nat]
    BY <1>1, <1>8 DEF QuestionShape
  <2> QED BY <1>2, <2>3, <2>4, <2>5, <2>6 DEF QuestionShape, UsedKept, In
<1>12. ASSUME NEW v \in Users, NEW n \in Numbers, InState(v, n)'
       PROVE  InState(v, n) \/ (v = u /\ n = n0)
  <2>1. \E s \in {new, row} : s.pending[v] # Nothing /\ s.pending[v].id = n
    BY <1>7, <1>12 DEF InState
  <2> QED BY <1>6, <1>10, <2>1 DEF InState
<1>13. Sends(t, u, n0)
  BY <1>1, <1>3, <1>6 DEF Sends, In, Sending
<1>14. ASSUME NEW s \in Threads, NEW v \in Users, NEW n \in Numbers, Sends(s, v, n)'
       PROVE  s # t /\ Sends(s, v, n) /\ n # n0
  <2>1. s # t /\ Sends(s, v, n)
    BY <1>9, <1>14 DEF Sends, In
  <2> QED BY <1>1, <1>2, <1>13, <2>1 DEF OneOwner
<1>15. OneOwner'
  <2> SUFFICES ASSUME NEW n \in Numbers, NEW v \in Users, NEW w \in Users
               PROVE  /\ InState(v, n)' /\ InState(w, n)' => v = w
                      /\ \A h \in Threads : Sends(h, v, n)' =>
                           (InState(w, n)' => v = w) /\ \A s \in Threads : Sends(s, w, n)' => s = h
    BY DEF OneOwner
  <2>1. InState(v, n) /\ n = n0 => v = u
    BY <1>1, <1>2, <1>13 DEF OneOwner
  <2>2. InState(w, n) /\ n = n0 => w = u
    BY <1>1, <1>2, <1>13 DEF OneOwner
  <2>3. InState(v, n)' /\ InState(w, n)' => v = w
    BY <1>1, <1>12, <2>1, <2>2 DEF OneOwner
  <2>4. ASSUME NEW h \in Threads, Sends(h, v, n)'
        PROVE  (InState(w, n)' => v = w) /\ \A s \in Threads : Sends(s, w, n)' => s = h
    BY <1>1, <1>12, <1>14, <2>4 DEF OneOwner
  <2> QED BY <2>3, <2>4
<1>16. EndedOnce'
  <2> SUFFICES ASSUME NEW n \in Numbers
               PROVE  /\ past'.ended[n] <= IF n \in past'.revived THEN 2 ELSE 1
                      /\ \A v \in Users : InState(v, n)' => past'.ended[n] <= IF n \in past'.revived THEN 1 ELSE 0
                      /\ n \in past'.revived => \A s \in Threads, v \in Users : ~Sends(s, v, n)'
                      /\ n > used'.challenges => past'.ended[n] = 0 /\ n \notin past'.revived
    BY DEF EndedOnce
  <2>1. /\ past.ended[n] \in Nat
        /\ past.ended[n] <= IF n \in past.revived THEN 2 ELSE 1
        /\ \A v \in Users : InState(v, n) => past.ended[n] <= IF n \in past.revived THEN 1 ELSE 0
        /\ n \in past.revived => \A s \in Threads, v \in Users : ~Sends(s, v, n)
        /\ n > used.challenges => past.ended[n] = 0 /\ n \notin past.revived
    BY <1>1 DEF EndedOnce, QuestionShape
  <2>2. n0 <= used.challenges /\ used'.challenges = used.challenges
    BY <1>1, <1>2, <1>3, <1>6 DEF IsQuestion
  <2>3. CASE n = n0
    <3>1. n \notin past.revived
      BY <1>2, <1>13, <2>1, <2>3
    <3>2. past'.revived = IF past.ended[n] > 0 THEN past.revived \cup {n} ELSE past.revived
      BY <1>8, <2>3
    <3>3. past.ended[n] <= 1 /\ past'.ended[n] = past.ended[n]
      BY <1>8, <2>1, <3>1
    <3>4. past'.ended[n] <= IF n \in past'.revived THEN 1 ELSE 0
      BY <2>1, <3>1, <3>2, <3>3
    <3>5. \A s \in Threads, v \in Users : ~Sends(s, v, n)'
      BY <1>14, <2>3
    <3>6. ~(n > used'.challenges)
      BY <1>2, <2>2, <2>3 DEF Numbers
    <3> QED BY <2>1, <3>3, <3>4, <3>5, <3>6
  <2>4. CASE n # n0
    <3>1. past'.ended[n] = past.ended[n] /\ (n \in past'.revived <=> n \in past.revived)
      BY <1>8, <2>4
    <3>2. \A v \in Users : InState(v, n)' => InState(v, n)
      BY <1>12, <2>4
    <3> QED BY <1>14, <2>1, <2>2, <3>1, <3>2
  <2> QED BY <2>3, <2>4
<1>17. TimersCover'
  <2> SUFFICES ASSUME NEW v \in Users PROVE RunsOut(v)'
    BY DEF TimersCover
  <2>1. CASE ~Saved
    BY <1>8, <2>1 DEF RunsOut
  <2>2. CASE Saved /\ v = u
    <3>1. SeesTo(t, v, mem.pending[v])'
      <4>1. jobs'[t].at \in Timing /\ jobs'[t].user = v
        BY <1>4, <1>9, <2>2 DEF Timing
      <4>2. jobs'[t].c.id = mem'.pending[v].id
        BY <1>3, <1>7, <1>9, <1>10, <2>2
      <4> QED BY <4>1, <4>2 DEF SeesTo
    <3> QED BY <3>1 DEF RunsOut
  <2>3. CASE v # u
    <3>1. \A s \in Threads : SeesTo(s, v, mem.pending[v]) => SeerKeeps(s)
      BY <1>1, <1>9, <2>3, SameJobs DEF SeesTo
    <3>2. mem'.pending[v] = mem.pending[v]
      BY <1>7, <1>10, <2>3
    <3> QED BY <1>1, <1>7, <1>8, <3>1, <3>2, StillRunsOut DEF TimersCover
  <2> QED BY <2>1, <2>2, <2>3
<1> QED BY <1>11, <1>15, <1>16, <1>17 DEF QuestionInv


\* scheduleChallengeTimer, after a question or before a picture is judged: the
\* question has its timer, or it was another's.
LEMMA ScheduleHolds ==
  ASSUME Shape, QuestionInv, NEW t \in Threads, Schedule(t) \/ Rearm(t)
  PROVE  QuestionInv'
<1>0. jobs[t].at \in {"arm", "rearm"} /\ alive /\ \E next \in ImageResults : Armed(t, next)
  BY DEF Schedule, Rearm, At, ImageResults
<1>. PICK next \in ImageResults : Armed(t, next)
  BY <1>0
<1> DEFINE u == jobs[t].user
           c == jobs[t].c
           lost == mem.pending[u] # Nothing /\ mem.pending[u].id # c.id
           crossed == past.crossed \cup IF lost THEN {mem.pending[u].id} ELSE {}
<1>1. /\ QuestionShape /\ u \in Users /\ alive' = alive
      /\ Goto(t, next) /\ timers' = Arm(u, c) /\ UNCHANGED <<mem, row, used>>
      /\ past' = [past EXCEPT !.untimed = Untimed(c), !.crossed = crossed]
  BY <1>0 DEF QuestionInv, Armed, state, QuestionShape, In, AboutUser, Timing
<1>2. /\ past'.ended = past.ended /\ past'.revived = past.revived /\ past'.unsaved = past.unsaved
      /\ past'.untimed = Untimed(c) /\ past'.crossed = crossed /\ PastCovers
  <2> HIDE DEF crossed
  <2>1. /\ past'.ended = past.ended /\ past'.revived = past.revived /\ past'.unsaved = past.unsaved
        /\ past'.untimed = Untimed(c) /\ past'.crossed = crossed
    BY <1>1 DEF Shape
  <2>2. past.crossed \subseteq crossed
    BY DEF crossed
  <2> QED BY <2>1, <2>2 DEF PastCovers, Untimed
<1>3. \A s \in Threads : HolderKeeps(s) /\ (jobs[s].user # u => SeerKeeps(s))
  <2>1. CASE next = "done"
    BY <1>1, <2>1, SeerStops DEF AboutUser, Asking, Timing
  <2>2. CASE next # "done"
    <3>1. jobs'[t].at = next /\ jobs'[t].user = u /\ \A s \in Threads : s # t => jobs'[s] = jobs[s]
      BY <1>1, <2>2, GotoStep, GotoEffect
    <3>2. HolderKeeps(t)
      BY <1>1, <3>1 DEF HolderKeeps, ImageResults, Sending
    <3> QED BY <1>1, <3>1, <3>2, SameJobs
  <2> QED BY <2>1, <2>2
<1>4. timers' = [v \in Users |-> timers'[v]] /\ \A v \in Users : v # u => timers'[v] = timers[v]
  BY <1>1 DEF Arm, QuestionShape
<1>5. (QuestionShape /\ OneOwner /\ EndedOnce)'
  BY <1>1, <1>2, <1>3, <1>4, HoldersKeep, FewerItself, UsedCounts DEF QuestionInv
<1>6. TimersCover'
  <2> SUFFICES ASSUME NEW v \in Users PROVE RunsOut(v)'
    BY DEF TimersCover
  <2>1. CASE v = u
    <3> SUFFICES ASSUME mem.pending[u] # Nothing, mem.pending[u].id \notin past'.untimed \cup past'.crossed
                 PROVE  timers'[u] = mem.pending[u].id
      BY <1>1, <2>1 DEF RunsOut
    <3>1. mem.pending[u].id = c.id
      BY <1>2
    <3>2. Limited(c.type)
      BY <1>2, <3>1 DEF Untimed
    <3> QED BY <1>1, <3>1, <3>2 DEF Arm, QuestionShape
  <2>2. CASE v # u
    <3>1. \A s \in Threads : SeesTo(s, v, mem.pending[v]) => SeerKeeps(s)
      BY <1>3, <2>2 DEF SeesTo
    <3> QED BY <1>1, <1>2, <1>4, <2>2, <3>1, StillRunsOut DEF QuestionInv, TimersCover
  <2> QED BY <2>1, <2>2
<1> QED BY <1>5, <1>6 DEF QuestionInv

\* Another try at an image changes nothing of whose question it is.
LEMMA RetryHolds ==
  ASSUME Shape, QuestionInv, NEW t \in Threads, ImageRetry(t)
  PROVE  QuestionInv'
<1> DEFINE u == jobs[t].user
           more == [mem.pending[u] EXCEPT !.tries = @ + 1]
           new == [mem EXCEPT !.pending[u] = more]
           ok == IF more.tries >= mem.config.tries THEN "fail" ELSE "done"
<1>1. /\ QuestionShape /\ jobs[t].at = "retry" /\ u \in Users
      /\ UNCHANGED <<timers, used>> /\ UsedKept
  BY UsedCounts DEF QuestionInv, ImageRetry, At, timing, QuestionShape, In, AboutUser
<1> USE DEF Onward, AboutUser, Sending, Asking, Timing
<1>2. CASE ~Matches(u, jobs[t].c)
  <2>1. Goto(t, "done") /\ alive' = alive /\ UNCHANGED <<mem, row, past>>
    BY <1>2 DEF ImageRetry, state
  <2>2. \A s \in Threads : HolderKeeps(s) /\ SeerKeeps(s)
    BY <1>1, <2>1, GotoKeeps
  <2>3. EndsNothing
    BY <2>1, PastGrows
  <2> QED BY <1>1, <2>1, <2>2, <2>3, QuietlyHolds
<1>3. CASE Matches(u, jobs[t].c)
  <2>1. Persist(new, t, ok, "done") /\ Remember
    BY <1>3 DEF ImageRetry
  <2>2. ok \in {"fail", "done"}
    OBVIOUS
  <2>3. new.pending = [mem.pending EXCEPT ![u] = more]
    BY DEF Shape, IsState
  <2>4. mem.pending[u] # Nothing /\ IsQuestion(mem.pending[u])
    BY <1>1, <1>3 DEF Matches, QuestionShape
  <2>5. IsQuestion(more) /\ more.id = mem.pending[u].id
    BY <2>4 DEF IsQuestion
  <2> HIDE DEF more, new, ok
  <2>6. Fewer(new.pending, mem.pending)
    <3>1. /\ new.pending = [v \in Users |-> new.pending[v]] /\ new.pending[u] = more
          /\ \A v \in Users : v # u => new.pending[v] = mem.pending[v]
      BY <1>1, <2>3 DEF QuestionShape
    <3> QED BY <1>1, <2>4, <2>5, <3>1 DEF Fewer, QuestionShape
  <2>7. /\ mem' = new /\ (row' = new \/ row' = row) /\ alive' = alive
        /\ Goto(t, ok) \/ Goto(t, "done")
    BY <2>1 DEF Persist, Write
  <2>8. \A s \in Threads : HolderKeeps(s) /\ SeerKeeps(s)
    <3>1. Onward(jobs[t].at, ok) /\ Onward(jobs[t].at, "done")
      BY <1>1, <2>2
    <3> QED BY <1>1, <2>7, <3>1, GotoKeeps
  <2>9. EndsNothing
    BY <2>1, PastGrows
  <2>10. (QuestionShape /\ OneOwner /\ EndedOnce)'
    BY <1>1, <2>6, <2>7, <2>8, <2>9, HoldersKeep, FewerItself DEF QuestionInv, EndsNothing, QuestionShape
  <2>11. TimersCover'
    BY <1>1, <2>6, <2>7, <2>8, <2>9, CoverKeeps DEF QuestionInv, EndsNothing
  <2> QED BY <2>10, <2>11 DEF QuestionInv
<1> QED BY <1>2, <1>3

\* The questions of those of a flood are gone, and their timers.
LEMMA FloodHolds ==
  ASSUME Shape, QuestionInv, NEW t \in Threads, FloodStarts(t)
  PROVE  QuestionInv'
<1> DEFINE recent == Recent(jobs[t].user)
           pending == [v \in Users |-> IF v \in recent THEN Nothing ELSE mem.pending[v]]
           yes == TRUE
           a == [mem EXCEPT !.flood.active = yes]
           b == [a EXCEPT !.flood.users = recent]
           d == [b EXCEPT !.flood.recent = recent]
           new == [d EXCEPT !.pending = pending]
           r == [jobs[t] EXCEPT !.at = "readAuto"]
           j == IF Saved THEN [r EXCEPT !.users = recent] ELSE Resting
<1>1. /\ QuestionShape /\ jobs[t].at = "observe" /\ alive' = alive /\ UsedKept
      /\ timers' = [v \in Users |-> IF v \in recent THEN Nothing ELSE timers[v]]
  BY UsedCounts DEF QuestionInv, FloodStarts, At
<1>2. Write(new)
  BY DEF FloodStarts, Shape, IsState
<1>3. jobs' = [jobs EXCEPT ![t] = j]
  BY DEF FloodStarts, Shape
<1>4. EndsNothing
  <2> DEFINE cut == past.cut \/ ~Saved \/ \E h \in Threads : jobs[h].at \in Restoring
             e == [past EXCEPT !.unsaved = @ \/ ~Saved]
  <2>1. past' = [e EXCEPT !.cut = cut]
    BY DEF FloodStarts, Shape
  <2> HIDE DEF cut
  <2>2. e = [ended |-> past.ended, revived |-> past.revived, crossed |-> past.crossed,
             untimed |-> past.untimed, unsaved |-> past.unsaved \/ ~Saved,
             cut |-> past.cut, auto |-> past.auto]
    BY DEF Shape
  <2> HIDE DEF e
  <2> QED BY <2>1, <2>2 DEF EndsNothing, PastCovers
<1>5. new.pending = pending
  <2>1. mem = [config |-> mem.config, verified |-> mem.verified, flood |-> mem.flood, pending |-> mem.pending]
    BY DEF Shape, IsState
  <2> HIDE DEF pending, recent, yes
  <2>2. a = [config |-> mem.config, verified |-> mem.verified,
             flood |-> [mem.flood EXCEPT !.active = yes], pending |-> mem.pending]
    BY <2>1
  <2> HIDE DEF a
  <2>3. b = [config |-> mem.config, verified |-> mem.verified, flood |-> b.flood, pending |-> mem.pending]
    BY <2>2
  <2> HIDE DEF b
  <2>4. d = [config |-> mem.config, verified |-> mem.verified, flood |-> d.flood, pending |-> mem.pending]
    BY <2>3
  <2> HIDE DEF d
  <2> QED BY <2>4
<1> HIDE DEF new
<1>6. Fewer(new.pending, mem.pending)
  <2> HIDE DEF recent
  <2> QED BY <1>1, <1>5 DEF Fewer, QuestionShape
<1>7. mem' = new /\ (row' = new \/ row' = row)
  BY <1>2 DEF Write
<1>8. j.at \in {"idle", "readAuto"}
  <2> HIDE DEF recent
  <2>1. IsJob(jobs[t])
    BY DEF Shape
  <2>2. r = [at |-> "readAuto", user |-> jobs[t].user, c |-> jobs[t].c, says |-> jobs[t].says,
             config |-> jobs[t].config, users |-> jobs[t].users, flood |-> jobs[t].flood]
    BY <2>1 DEF IsJob
  <2> HIDE DEF r
  <2> QED BY <2>2, RestingIsJob
<1> HIDE DEF j
<1>9. \A s \in Threads : HolderKeeps(s) /\ SeerKeeps(s)
  BY <1>1, <1>3, <1>8, TakesUp DEF AboutUser, Sending, Asking, Timing
<1>10. timers' = [v \in Users |-> timers'[v]]
  <2> HIDE DEF recent
  <2> QED BY <1>1
<1>11. (QuestionShape /\ OneOwner /\ EndedOnce)'
  BY <1>1, <1>4, <1>6, <1>7, <1>9, <1>10, HoldersKeep, FewerItself DEF QuestionInv, EndsNothing
<1>12. TimersCover'
  <2> HIDE DEF recent
  <2>1. \A v \in Users : mem'.pending[v] = Nothing \/ timers'[v] = timers[v]
    BY <1>1, <1>5, <1>7
  <2> QED BY <1>1, <1>4, <1>6, <1>7, <1>9, <2>1, CoverKeeps DEF QuestionInv, EndsNothing
<1> QED BY <1>11, <1>12 DEF QuestionInv

-----------------------------------------------------------------------------
(* Questions: start, stop, and what arrives.                               *)

LEMMA ResumeHolds ==
  ASSUME Shape, QuestionInv, Resume
  PROVE  QuestionInv'
<1> DEFINE asked == {u \in Users : row.pending[u] # Nothing}
           timed == {u \in asked : row.pending[u].type \in row.config.limited}
           untimed == past.untimed \cup {row.pending[u].id : u \in asked \ timed}
           no == FALSE
           e == [past EXCEPT !.unsaved = no]
<1>1. /\ QuestionShape /\ ~alive /\ mem' = row /\ UNCHANGED <<row, jobs, used>> /\ UsedKept
      /\ timers' = [u \in Users |-> IF u \in timed THEN row.pending[u].id ELSE Nothing]
      /\ past' = [e EXCEPT !.untimed = untimed]
  <2>1. QuestionShape /\ Resume
    BY DEF QuestionInv
  <2> QED BY <2>1, UsedCounts DEF Resume, Shape
<1>2. past'.ended = past.ended /\ past'.revived = past.revived /\ past'.untimed = untimed
  <2> HIDE DEF untimed, no
  <2>1. past = [ended |-> past.ended, revived |-> past.revived, untimed |-> past.untimed,
                crossed |-> past.crossed, unsaved |-> past.unsaved, cut |-> past.cut, auto |-> past.auto]
    BY DEF Shape
  <2>2. e = [ended |-> past.ended, revived |-> past.revived, untimed |-> past.untimed,
             crossed |-> past.crossed, unsaved |-> no, cut |-> past.cut, auto |-> past.auto]
    BY <2>1
  <2> HIDE DEF e
  <2> QED BY <1>1, <2>2
<1>3. \A s \in Threads : HolderKeeps(s)
  BY <1>1, SameJobs
<1>4. timers' = [u \in Users |-> timers'[u]]
  <2> HIDE DEF timed
  <2> QED BY <1>1
<1>5. (QuestionShape /\ OneOwner /\ EndedOnce)'
  BY <1>1, <1>2, <1>3, <1>4, HoldersKeep, FewerItself DEF QuestionInv
<1>6. TimersCover'
  <2> SUFFICES ASSUME NEW u \in Users, row.pending[u] # Nothing, row.pending[u].id \notin past'.untimed
               PROVE  timers'[u] = row.pending[u].id
    BY <1>1 DEF TimersCover, RunsOut
  <2>1. u \in timed
    BY <1>2
  <2> HIDE DEF timed
  <2> QED BY <1>1, <2>1
<1> QED BY <1>5, <1>6 DEF QuestionInv

LEMMA CeaseHolds ==
  ASSUME Shape, QuestionInv, NEW stored, Cease(stored)
  PROVE  QuestionInv'
<1>1. /\ QuestionShape /\ ~alive' /\ UNCHANGED <<mem, used>> /\ UsedKept
      /\ row' = mem \/ row' = row
      /\ timers' = [u \in Users |-> Nothing] /\ jobs' = [t \in Threads |-> Resting]
  BY UsedCounts DEF QuestionInv, Cease
<1>2. EndsNothing
  <2> DEFINE cut == past.cut \/ \E t \in Threads : jobs[t].flood # Nothing \/ jobs[t].at \in {"readAuto", "keepAuto"}
  <2>1. past' = [past EXCEPT !.cut = cut]
    BY DEF Cease, Shape
  <2> HIDE DEF cut
  <2> QED BY <2>1, PastGrows
<1>3. \A t \in Threads : HolderKeeps(t)
  BY <1>1, RestingIsJob DEF HolderKeeps, AboutUser, Sending, Asking, Timing
<1>4. (QuestionShape /\ OneOwner /\ EndedOnce)'
  BY <1>1, <1>2, <1>3, HoldersKeep, FewerItself DEF QuestionInv, EndsNothing
<1>5. TimersCover'
  BY <1>1 DEF TimersCover, RunsOut
<1> QED BY <1>4, <1>5 DEF QuestionInv

LEMMA TakeHolds ==
  ASSUME Shape, QuestionShape, NEW t \in Threads, NEW u \in Users, NEW step, NEW c, NEW says,
         Take(t, u, step, c, says), step \notin Sending
  PROVE  /\ alive' = alive /\ UNCHANGED <<mem, row>> /\ UsedKept
         /\ \A s \in Threads : HolderKeeps(s) /\ SeerKeeps(s)
<1> DEFINE a == [Resting EXCEPT !.at = step]
           b == [a EXCEPT !.user = u]
           d == [b EXCEPT !.c = c]
           j == [d EXCEPT !.says = says]
<1>1. /\ jobs[t].at = "idle" /\ jobs' = [jobs EXCEPT ![t] = j] /\ alive' = alive
      /\ UNCHANGED <<mem, row>> /\ UsedKept
  BY UsedCounts DEF Take, At, state
<1>2. a = [at |-> step, user |-> Nothing, c |-> Nothing, says |-> Nothing, config |-> Nothing,
           users |-> {}, flood |-> Nothing]
  BY DEF Resting
<1> HIDE DEF a
<1>3. b = [at |-> step, user |-> u, c |-> Nothing, says |-> Nothing, config |-> Nothing,
           users |-> {}, flood |-> Nothing]
  BY <1>2
<1> HIDE DEF b
<1>4. d = [at |-> step, user |-> u, c |-> c, says |-> Nothing, config |-> Nothing,
           users |-> {}, flood |-> Nothing]
  BY <1>3
<1> HIDE DEF d
<1>5. j.at = step /\ j.user = u
  BY <1>4
<1> HIDE DEF j
<1>6. \A s \in Threads : HolderKeeps(s) /\ SeerKeeps(s)
  BY <1>1, <1>5, TakesUp DEF Asking, Timing
<1> QED BY <1>1, <1>6

LEMMA OrderHolds ==
  ASSUME Shape, QuestionShape, NEW t \in Threads, NEW new, NEW u, NEW next,
         Order(t, new, u, next), next \notin AboutUser
  PROVE  /\ alive' = alive /\ Write(new) /\ Remember /\ UsedKept
         /\ \A s \in Threads : HolderKeeps(s) /\ SeerKeeps(s)
<1> DEFINE a == [Resting EXCEPT !.at = next]
           j == IF next = "done" \/ ~Saved THEN Resting ELSE [a EXCEPT !.user = u]
<1>1. /\ jobs[t].at = "idle" /\ jobs' = [jobs EXCEPT ![t] = j] /\ alive' = alive
      /\ Write(new) /\ Remember /\ UsedKept
  BY UsedCounts DEF Order, At
<1>2. a = [at |-> next, user |-> Nothing, c |-> Nothing, says |-> Nothing, config |-> Nothing,
           users |-> {}, flood |-> Nothing]
  BY DEF Resting
<1> HIDE DEF a
<1>3. j.at \in {"idle", next}
  BY <1>2, RestingIsJob
<1> HIDE DEF j
<1>4. \A s \in Threads : HolderKeeps(s) /\ SeerKeeps(s)
  BY <1>1, <1>3, TakesUp DEF AboutUser, Sending, Asking, Timing
<1> QED BY <1>1, <1>4


LEMMA ArrivingHolds ==
  ASSUME Shape, QuestionInv, NEW t \in Threads, NEW u \in Users, Arriving(t, u)
  PROVE  QuestionInv'
<1>1. QuestionShape
  BY DEF QuestionInv
<1> USE DEF AboutUser, Sending, Asking, Timing
<1>2. ASSUME NEW says \in Says, Receive(t, u, says) PROVE QuestionInv'
  <2> DEFINE step == IF mem.pending[u] = Nothing THEN "rules" ELSE "verify"
  <2>1. Take(t, u, step, mem.pending[u], says) /\ UNCHANGED <<timers, past>>
    BY <1>2 DEF Receive
  <2>2. step \in {"rules", "verify"}
    OBVIOUS
  <2> HIDE DEF step
  <2> QED BY <1>1, <2>1, <2>2, TakeHolds, PastGrows, NoQuestion
<1>3. CASE ImageResult(t, u)
  <2> DEFINE a == [Resting EXCEPT !.at = "rearm"]
             b == [a EXCEPT !.user = u]
             j == [b EXCEPT !.c = mem.pending[u]]
  <2>1. /\ jobs[t].at = "idle" /\ Write(mem) /\ Remember /\ alive' = alive /\ UNCHANGED timers
        /\ UsedKept
        /\ jobs' = jobs \/ jobs' = [jobs EXCEPT ![t] = j]
    BY <1>1, <1>3, UsedCounts DEF ImageResult, At, timing
  <2>2. j.at = "rearm" /\ j.user = u
    BY DEF Resting
  <2> HIDE DEF j
  <2>3. \A s \in Threads : HolderKeeps(s) /\ SeerKeeps(s)
    <3>1. CASE jobs' = jobs
      BY <1>1, <3>1, SameJobs
    <3>2. CASE jobs' = [jobs EXCEPT ![t] = j]
      BY <1>1, <2>1, <2>2, <3>2, TakesUp
    <3> QED BY <2>1, <3>1, <3>2
  <2> QED BY <2>1, <2>3, WriteHolds
<1>4. CASE OwnerWrites(t, u)
  <2> DEFINE new == [mem EXCEPT !.verified = @ \cup {u}]
  <2>1. /\ Write(new) /\ Remember /\ alive' = alive /\ UNCHANGED <<timers, jobs>> /\ UsedKept
    BY <1>1, <1>4, UsedCounts DEF OwnerWrites, timing
  <2>2. new.pending = mem.pending
    BY SamePending
  <2> HIDE DEF new
  <2>3. \A s \in Threads : HolderKeeps(s) /\ SeerKeeps(s)
    BY <1>1, <2>1, SameJobs
  <2> QED BY <2>1, <2>2, <2>3, WriteHolds
<1>5. CASE Add(t, u)
  <2> DEFINE step == IF mem.pending[u] = Nothing THEN "add" ELSE "complete"
  <2>1. Take(t, u, step, Nothing, Nothing) /\ UNCHANGED <<timers, past>>
    BY <1>5 DEF Add
  <2>2. step \in {"add", "complete"}
    OBVIOUS
  <2> HIDE DEF step
  <2> QED BY <1>1, <2>1, <2>2, TakeHolds, PastGrows, NoQuestion
<1>6. CASE Delete(t, u)
  <2> DEFINE new == [mem EXCEPT !.verified = @ \ {u}]
  <2>1. Order(t, new, u, "done") /\ UNCHANGED timers
    BY <1>6 DEF Delete
  <2>2. new.pending = mem.pending
    BY SamePending
  <2> HIDE DEF new
  <2> QED BY <1>1, <2>1, <2>2, OrderHolds, WriteHolds
<1>7. CASE Unstuck(t, u)
  <2>1. Order(t, Over(u, mem.verified), u, "open") /\ timers' = Disarm(u)
    BY <1>7 DEF Unstuck
  <2>2. Without(Over(u, mem.verified), u)
    BY OverWithout
  <2>3. /\ alive' = alive /\ Write(Over(u, mem.verified)) /\ Remember /\ UsedKept
        /\ \A s \in Threads : HolderKeeps(s) /\ SeerKeeps(s)
    BY <1>1, <2>1, OrderHolds
  <2> QED BY <2>1, <2>2, <2>3, PastGrows, DropHolds
<1>8. CASE TimeUp(t, u)
  <2> DEFINE c == [id |-> timers[u]]
             a == [Resting EXCEPT !.at = "fail"]
             b == [a EXCEPT !.user = u]
             j == [b EXCEPT !.c = c]
  <2>1. /\ jobs[t].at = "idle" /\ jobs' = [jobs EXCEPT ![t] = j] /\ timers' = Disarm(u)
        /\ alive' = alive /\ UNCHANGED <<mem, row, used, past>>
    BY <1>8 DEF TimeUp, At, state
  <2> HIDE DEF c
  <2>2. a = [at |-> "fail", user |-> Nothing, c |-> Nothing, says |-> Nothing, config |-> Nothing,
             users |-> {}, flood |-> Nothing]
    BY DEF Resting
  <2> HIDE DEF a
  <2>3. b = [at |-> "fail", user |-> u, c |-> Nothing, says |-> Nothing, config |-> Nothing,
             users |-> {}, flood |-> Nothing]
    BY <2>2
  <2> HIDE DEF b
  <2>4. j.at = "fail" /\ j.user = u /\ j.c = c
    BY <2>3
  <2> HIDE DEF j
  <2>5. \A s \in Threads : HolderKeeps(s) /\ SeerKeeps(s)
    BY <1>1, <2>1, <2>4, TakesUp
  <2>6. UsedKept /\ EndsNothing
    BY <1>1, <2>1, UsedCounts, PastGrows
  <2>7. timers' = [v \in Users |-> timers'[v]] /\ \A v \in Users : v # u => timers'[v] = timers[v]
    BY <1>1, <2>1 DEF Disarm, QuestionShape
  <2>8. (QuestionShape /\ OneOwner /\ EndedOnce)'
    BY <1>1, <2>1, <2>5, <2>6, <2>7, HoldersKeep, FewerItself DEF QuestionInv, EndsNothing
  <2>9. TimersCover'
    <3> SUFFICES ASSUME NEW v \in Users PROVE RunsOut(v)'
      BY DEF TimersCover
    <3>1. CASE v = u /\ timers[u] = mem.pending[u].id
      <4>1. jobs'[t] = j
        BY <2>1 DEF Shape
      <4>2. SeesTo(t, v, mem.pending[v])'
        BY <2>1, <2>4, <3>1, <4>1 DEF SeesTo, c
      <4> QED BY <4>2 DEF RunsOut
    <3>2. CASE ~(v = u /\ timers[u] = mem.pending[u].id)
      BY <2>1, <2>5, <2>6, <2>7, <3>2, StillRunsOut DEF QuestionInv, TimersCover, EndsNothing
    <3> QED BY <3>1, <3>2
  <2> QED BY <2>8, <2>9 DEF QuestionInv
<1> QED BY <1>2, <1>3, <1>4, <1>5, <1>6, <1>7, <1>8 DEF Arriving

LEMMA ConfigureHolds ==
  ASSUME Shape, QuestionInv, NEW t \in Threads, Configure(t)
  PROVE  QuestionInv'
<1>1. PICK config : Order(t, [mem EXCEPT !.config = config], Nothing, "done") /\ UNCHANGED timers
  BY DEF Configure
<1> DEFINE new == [mem EXCEPT !.config = config]
<1>2. new.pending = mem.pending
  BY SamePending
<1> HIDE DEF new
<1>3. Order(t, new, Nothing, "done")
  BY <1>1 DEF new
<1>4. /\ alive' = alive /\ Write(new) /\ Remember /\ UsedKept
      /\ \A s \in Threads : HolderKeeps(s) /\ SeerKeeps(s)
  BY <1>3, OrderHolds DEF QuestionInv, AboutUser, Asking, Timing
<1> QED BY <1>1, <1>2, <1>4, WriteHolds

LEMMA EndFloodHolds ==
  ASSUME Shape, QuestionInv, NEW t \in Threads, EndFlood(t)
  PROVE  QuestionInv'
<1> DEFINE new == [mem EXCEPT !.flood = NoFlood]
           a == [Resting EXCEPT !.at = "giveBack"]
           b == [a EXCEPT !.users = mem.flood.users]
           d == [b EXCEPT !.config = mem.config]
           j == IF Saved THEN [d EXCEPT !.flood = mem.flood] ELSE Resting
<1>1. /\ QuestionShape /\ jobs[t].at = "idle" /\ Write(new) /\ RememberCut /\ alive' = alive
      /\ UNCHANGED <<timers, used>> /\ jobs' = [jobs EXCEPT ![t] = j]
  BY DEF QuestionInv, EndFlood, At
<1>2. new.pending = mem.pending
  BY SamePending
<1> HIDE DEF new
<1>3. a = [at |-> "giveBack", user |-> Nothing, c |-> Nothing, says |-> Nothing, config |-> Nothing,
           users |-> {}, flood |-> Nothing]
  BY DEF Resting
<1> HIDE DEF a
<1>4. b = [at |-> "giveBack", user |-> Nothing, c |-> Nothing, says |-> Nothing, config |-> Nothing,
           users |-> mem.flood.users, flood |-> Nothing]
  BY <1>3
<1> HIDE DEF b
<1>5. d = [at |-> "giveBack", user |-> Nothing, c |-> Nothing, says |-> Nothing, config |-> mem.config,
           users |-> mem.flood.users, flood |-> Nothing]
  BY <1>4
<1> HIDE DEF d
<1>6. j.at \in {"idle", "giveBack"}
  BY <1>5, RestingIsJob
<1> HIDE DEF j
<1>7. \A s \in Threads : HolderKeeps(s) /\ SeerKeeps(s)
  BY <1>1, <1>6, TakesUp DEF AboutUser, Sending, Asking, Timing
<1> QED BY <1>1, <1>2, <1>7, UsedCounts, WriteHolds

LEMMA QuestionInit ==
  ASSUME NEW world \in CaptchaWorlds, CaptchaInit(world)
  PROVE  QuestionInv
<1>1. /\ alive = FALSE /\ mem = Fresh(world.config) /\ row = Fresh(world.config)
      /\ timers = [u \in Users |-> Nothing] /\ jobs = [t \in Threads |-> Resting]
      /\ used = [messages |-> 0, challenges |-> 0, floods |-> 0]
      /\ past.ended = [n \in Numbers |-> 0] /\ past.revived = {}
  BY DEF CaptchaInit
<1>2. mem.pending = [u \in Users |-> Nothing] /\ row.pending = [u \in Users |-> Nothing]
  BY <1>1 DEF Fresh
<1>3. \A t \in Threads : jobs[t].at = "idle"
  BY <1>1, RestingIsJob
<1>4. QuestionShape
  BY <1>1, <1>2, <1>3, CaptchaAssumption
  DEF QuestionShape, Numbers, In, AboutUser, Sending, Asking, Timing
<1>5. \A u \in Users : \A n : ~InState(u, n)
  BY <1>2 DEF InState
<1>6. \A t \in Threads : \A u, n : ~Sends(t, u, n)
  BY <1>3 DEF Sends, In, Sending
<1>7. OneOwner /\ EndedOnce
  BY <1>1, <1>5, <1>6 DEF OneOwner, EndedOnce
<1>8. TimersCover
  BY <1>1 DEF TimersCover, RunsOut
<1> QED BY <1>4, <1>7, <1>8 DEF QuestionInv

LEMMA QuestionHandling ==
  ASSUME Shape, QuestionInv, NEW t \in Threads, Handling(t)
  PROVE  QuestionInv'
BY CallsHold, PutBacksHold, PersistsHold, GotosHold, OthersHold, EndingHolds, FailHolds, BeginHolds,
   FallbackHolds, SaveHolds, ScheduleHolds, RetryHolds, FloodHolds, EndFloodHolds DEF Handling

LEMMA QuestionNext ==
  CaptchaInv /\ QuestionInv /\ [CaptchaNext]_captchaVars => QuestionInv'
<1> SUFFICES ASSUME CaptchaInv, QuestionInv, [CaptchaNext]_captchaVars PROVE QuestionInv'
  OBVIOUS
<1>1. Shape
  BY DEF CaptchaInv
<1>2. CASE Resume
  BY <1>1, <1>2, ResumeHolds
<1>3. CASE StopPlugin \/ Killed
  BY <1>1, <1>3, CeaseHolds DEF StopPlugin, Killed
<1>4. CASE MinuteEnds \/ Quiet \/ \E r \in retries : Retry(r)
  BY <1>1, <1>4, PassingHolds
<1>5. ASSUME NEW t \in Threads, Handling(t) \/ Configure(t) \/ (\E u \in Users : Arriving(t, u))
      PROVE  QuestionInv'
  BY <1>1, <1>5, QuestionHandling, ConfigureHolds, ArrivingHolds
<1>6. CASE UNCHANGED captchaVars
  <2>1. UNCHANGED <<alive, mem, row, timers, used, past, jobs>>
    BY <1>6 DEF captchaVars
  <2>2. QuestionShape
    BY DEF QuestionInv
  <2>3. \A s \in Threads : HolderKeeps(s) /\ SeerKeeps(s)
    BY <2>1, <2>2, SameJobs
  <2> QED BY <1>1, <2>1, <2>2, <2>3, PastGrows, QuietlyHolds
<1> QED BY <1>2, <1>3, <1>4, <1>5, <1>6 DEF CaptchaNext

\* The inductive invariant about questions holds of every run: a number is of one
\* person and in the hands of one thread, and what was ended is brought back at
\* most once (challenge.go).
THEOREM QuestionInvariance == CaptchaSpec => []QuestionInv
<1>1. (\E world \in CaptchaWorlds : CaptchaInit(world)) => QuestionInv
  BY QuestionInit
<1> QED BY <1>1, QuestionNext, Invariance, PTL DEF CaptchaSpec

\* A question is ended once, whatever answers, timers, floods, failed writes and
\* restarts come together, and once more only if saveChallenge brought it back
\* after it was ended while it was being sent.
THEOREM QuestionsEndOnce == CaptchaSpec => []EndsOnce
<1>1. QuestionInv => EndsOnce
  BY DEF QuestionInv, EndedOnce, EndsOnce
<1> QED BY <1>1, QuestionInvariance, PTL

\* Nobody is left with a question that never runs out, for any number of workers
\* and timers at once: it has its timer, or a thread that asks it or ends it.
THEOREM QuestionsRunOut == CaptchaSpec => []TimersCover
<1>1. QuestionInv => TimersCover
  BY DEF QuestionInv
<1> QED BY <1>1, QuestionInvariance, PTL

-----------------------------------------------------------------------------
(* The chat tools.                                                          *)

\* A set of numbers has a least one.
LEMMA LeastNumber ==
  ASSUME NEW page \in SUBSET Nat, page # {}
  PROVE  Min(page) \in page /\ \A m \in page : Min(page) <= m
<1>1. PICK x \in page : \A y \in page : ~ (<<y, x>> \in OpToRel(<, Nat))
  BY NatLessThanWellFounded, WFMin, Zenon
<1>2. \A y \in page : x <= y
  <2> TAKE y \in page
  <2>1. ~ (y < x)
    BY <1>1, Zenon DEF OpToRel
  <2> QED BY <2>1
<1> QED BY <1>2 DEF Min
-----------------------------------------------------------------------------
(* Trace: the invariant.                                                    *)

TraceCommand(c) ==
  \/ c.key \in {"clean", "reset"}
  \/ c.key \in Config /\ c.value \in BOOLEAN
  \/ c.key \in RuleKeys \ Config /\ c.value \in Reactions \cup {Silent}
TraceWorldInv ==
  /\ DOMAIN traceWorld.sources \subseteq Nat
  /\ \A i \in DOMAIN traceWorld.sources : traceWorld.sources[i] \in RuleSets \cup {NoRules, Broken}
  /\ \A c \in traceWorld.commands : TraceCommand(c)
\* Who is between a change and its write has the mutex, and what is written is what is in memory.
TraceJobInv(w) ==
  LET j == tracing[w] IN
  j # NoTrace =>
    /\ j.at = "send" => j = [at |-> "send", reaction |-> j.reaction, big |-> j.big]
    /\ j.at # "send" => j = [at |-> j.at, cmd |-> j.cmd] \/ j = [at |-> j.at, cmd |-> j.cmd, raw |-> j.raw]
    /\ j.at \in {"replied", "change", "store"} => j.cmd \in traceWorld.commands
    /\ j.at = "store" =>
         /\ traceMu = w /\ j.raw = rules
         /\ \A k \in RuleKeys : k \in Touched(j.cmd) => rules[k] = Wanted(j.cmd, k)
TraceInv ==
  /\ TraceWorldInv
  /\ tracing = [w \in Tracers |-> tracing[w]] /\ \A w \in Tracers : TraceJobInv(w)
  /\ ~traceUp => tracing = TraceIdle
  /\ rules \in RuleSets /\ traceRow \in RuleSets \cup {NoRules}
  /\ RulesAreKept
  \* Before there is a row, what the next start may make of it is allowed.
  /\ traceRow = NoRules => Allowed(defaultState) /\ (loadLegacyState \in RuleSets => Allowed(loadLegacyState))
LEMMA RuleKeysAre == RuleKeys = {"user", "alpha", "beta", "keep", "big"}
  BY DEF RuleKeys, defaultState
LEMMA DefaultIsRules == defaultState \in RuleSets
  BY DEF defaultState, RuleSets, Silent
LEMMA TraceWorldIs == ASSUME NEW world \in TraceWorlds, TraceInit(world) PROVE TraceWorldInv
  BY TraceAssumption DEF TraceInit, TraceWorldInv, TraceCommand

\* What the predecessor left is rules, a file that cannot be read, or nothing.
LEMMA LegacyIsRules == ASSUME TraceWorldInv PROVE loadLegacyState \in RuleSets \cup {NoRules, Broken}
<1> DEFINE there == {i \in DOMAIN traceWorld.sources : traceWorld.sources[i] # NoRules}
<1>1. CASE there = {}
  BY <1>1 DEF loadLegacyState
<1>2. CASE there # {}
  <2>1. there \in SUBSET Nat
    BY DEF TraceWorldInv
  <2>2. Min(there) \in there
    BY <1>2, <2>1, LeastNumber
  <2>3. loadLegacyState = traceWorld.sources[Min(there)]
    BY <1>2 DEF loadLegacyState
  <2> QED BY <2>2, <2>3 DEF TraceWorldInv
<1> QED BY <1>1, <1>2

LEMMA TraceStart == ASSUME NEW world \in TraceWorlds, TraceInit(world) PROVE TraceInv
<1>1. TraceWorldInv
  BY TraceWorldIs
<1>2. tracing = [w \in Tracers |-> tracing[w]] /\ (\A w \in Tracers : TraceJobInv(w)) /\ tracing = TraceIdle
  BY DEF TraceInit, TraceIdle, TraceJobInv
<1>3. rules \in RuleSets /\ traceRow \in RuleSets \cup {NoRules} /\ RulesAreKept
  BY DefaultIsRules DEF TraceInit, RulesAreKept
<1>4. Allowed(defaultState)
  BY DEF TraceInit, Allowed
<1>5. loadLegacyState \in RuleSets => Allowed(loadLegacyState)
  <2>1. PICK legacy : legacy = loadLegacyState
    OBVIOUS
  <2>2. said = [k \in RuleKeys |-> {defaultState[k]} \cup (IF legacy \in {NoRules, Broken} THEN {} ELSE {legacy[k]})]
    BY <2>1 DEF TraceInit
  <2>3. ASSUME legacy \in RuleSets, legacy # Broken PROVE Allowed(legacy)
    BY <2>2, <2>3, TraceAssumption DEF Allowed
  <2> QED BY <2>1, <2>3, TraceAssumption
<1> QED BY <1>1, <1>2, <1>3, <1>4, <1>5 DEF TraceInv
\* A step that changes no rule, by a worker that does not come to write.
LEMMA TracerStep ==
  ASSUME TraceInv, NEW w \in Tracers, NEW j, traceUp, traceUp', tracing' = [tracing EXCEPT ![w] = j],
         UNCHANGED <<traceWorld, rules, traceRow, said, traceMu>>,
         j # NoTrace =>
           /\ j.at = "send" => j = [at |-> "send", reaction |-> j.reaction, big |-> j.big]
           /\ j.at # "send" => j = [at |-> j.at, cmd |-> j.cmd] \/ j = [at |-> j.at, cmd |-> j.cmd, raw |-> j.raw]
           /\ j.at # "store" /\ (j.at \in {"replied", "change"} => j.cmd \in traceWorld.commands)
  PROVE  TraceInv'
<1>1. tracing'[w] = j /\ (\A v \in Tracers \ {w} : tracing'[v] = tracing[v])
      /\ tracing' = [v \in Tracers |-> tracing'[v]]
  BY Zenon DEF TraceInv
<1>2. ASSUME NEW v \in Tracers PROVE TraceJobInv(v)'
  <2>1. CASE v = w
    BY <1>1, <2>1, Zenon DEF TraceJobInv
  <2>2. CASE v # w
    BY <1>1, <2>2 DEF TraceInv, TraceJobInv, Touched, Wanted
  <2> QED BY <2>1, <2>2
<1>3. TraceWorldInv' /\ RulesAreKept' /\ loadLegacyState' = loadLegacyState
  BY DEF TraceInv, TraceWorldInv, RulesAreKept, Allowed, loadLegacyState
<1>4. traceRow' = NoRules => Allowed(defaultState)' /\ (loadLegacyState' \in RuleSets => Allowed(loadLegacyState)')
  BY <1>3 DEF TraceInv, Allowed
<1>5. rules' \in RuleSets /\ traceRow' \in RuleSets \cup {NoRules}
  BY DEF TraceInv
<1> QED BY <1>1, <1>2, <1>3, <1>4, <1>5 DEF TraceInv

LEMMA TraceGoStep ==
  ASSUME TraceInv, NEW w \in Tracers, NEW from, NEW at \in {"change", "answer"}, TraceAt(w, from), TraceGo(w, at),
         from # "send", at = "change" => from = "replied",
         UNCHANGED <<traceWorld, rules, traceRow, said, traceMu, traceUp>>
  PROVE  TraceInv'
<1>1. PICK j : j = [tracing[w] EXCEPT !.at = at]
  OBVIOUS
<1>2. tracing' = [tracing EXCEPT ![w] = j]
  BY <1>1 DEF TraceGo
<1>3. PICK old : old = tracing[w]
  OBVIOUS
<1>4. /\ old # NoTrace /\ old.at = from /\ traceUp
      /\ old = [at |-> old.at, cmd |-> old.cmd] \/ old = [at |-> old.at, cmd |-> old.cmd, raw |-> old.raw]
      /\ from = "replied" => old.cmd \in traceWorld.commands
  BY <1>3 DEF TraceInv, TraceJobInv, TraceAt
<1>5. /\ j = [at |-> j.at, cmd |-> j.cmd] \/ j = [at |-> j.at, cmd |-> j.cmd, raw |-> j.raw]
      /\ j.at = at /\ j.cmd = old.cmd
  <2>1. CASE old = [at |-> old.at, cmd |-> old.cmd]
    BY <1>1, <1>3, <2>1
  <2>2. CASE old = [at |-> old.at, cmd |-> old.cmd, raw |-> old.raw]
    BY <1>1, <1>3, <2>2
  <2> QED BY <1>4, <2>1, <2>2
<1>6. j.at # "send" /\ j.at # "store" /\ (j.at \in {"replied", "change"} => j.cmd \in traceWorld.commands)
  BY <1>4, <1>5
<1> QED BY <1>2, <1>4, <1>5, <1>6, TracerStep

LEMMA TraceEndsStep ==
  ASSUME TraceInv, NEW w \in Tracers, traceUp, TraceEnds(w),
         UNCHANGED <<traceWorld, rules, traceRow, said, traceMu, traceUp>>
  PROVE  TraceInv'
  BY TracerStep DEF TraceEnds

LEMMA TraceHandleStep == ASSUME TraceInv, NEW w \in Tracers, TraceHandle(w) PROVE TraceInv'
<1>1. PICK c \in traceWorld.commands : tracing' = [tracing EXCEPT ![w] = [at |-> IF c.key = "user" THEN "replied" ELSE "change", cmd |-> c]]
  BY DEF TraceHandle
<1>2. PICK j : j = [at |-> IF c.key = "user" THEN "replied" ELSE "change", cmd |-> c]
  OBVIOUS
<1>3. j = [at |-> j.at, cmd |-> j.cmd] /\ j.cmd = c /\ j.at \in {"replied", "change"}
  BY <1>2
<1>4. traceUp /\ traceUp' /\ UNCHANGED <<traceWorld, rules, traceRow, said, traceMu>>
  BY DEF TraceHandle
<1>5. tracing' = [tracing EXCEPT ![w] = j]
  BY <1>1, <1>2
<1> QED BY <1>3, <1>4, <1>5, TracerStep

LEMMA OnMessageStep == ASSUME TraceInv, NEW w \in Tracers, OnMessage(w) PROVE TraceInv'
<1>1. PICK reaction : tracing' = [tracing EXCEPT ![w] = [at |-> "send", reaction |-> reaction, big |-> rules.big]]
  BY DEF OnMessage
<1>2. PICK j : j = [at |-> "send", reaction |-> reaction, big |-> rules.big]
  OBVIOUS
<1>3. j = [at |-> "send", reaction |-> j.reaction, big |-> j.big] /\ j.at = "send"
  BY <1>2
<1>4. traceUp /\ traceUp' /\ UNCHANGED <<traceWorld, rules, traceRow, said, traceMu>>
  BY DEF OnMessage
<1>5. tracing' = [tracing EXCEPT ![w] = j]
  BY <1>1, <1>2
<1> QED BY <1>3, <1>4, <1>5, TracerStep
LEMMA ChangedIsRules ==
  ASSUME TraceWorldInv, rules \in RuleSets, NEW c \in traceWorld.commands
  PROVE  /\ Changed(c, rules) \in RuleSets
         /\ \A k \in RuleKeys : k \in Touched(c) => Changed(c, rules)[k] = Wanted(c, k)
         /\ \A k \in RuleKeys : k \notin Touched(c) => Changed(c, rules)[k] = rules[k]
<1>1. TraceCommand(c)
  BY DEF TraceWorldInv
<1>2. CASE c.key = "clean"
  <2>1. Changed(c, rules) = Cleaned(rules) /\ Touched(c) = RuleKeys \ Config
    BY <1>2 DEF Changed, Touched
  <2>2. Cleaned(rules) = [user |-> Silent, alpha |-> Silent, beta |-> Silent, keep |-> rules.keep, big |-> rules.big]
    BY RuleKeysAre DEF Cleaned, Config, defaultState
  <2>3. Cleaned(rules) \in RuleSets
    BY <2>2 DEF RuleSets
  <2> QED BY <1>2, <2>1, <2>3 DEF Cleaned, Wanted
<1>3. CASE c.key = "reset"
  <2>1. Changed(c, rules) = defaultState /\ Touched(c) = RuleKeys
    BY <1>3 DEF Changed, Touched
  <2> QED BY <1>3, <2>1, DefaultIsRules DEF Wanted
<1>4. CASE c.key \notin {"clean", "reset"}
  <2>1. Changed(c, rules) = [rules EXCEPT ![c.key] = c.value] /\ Touched(c) = {c.key}
    BY <1>4 DEF Changed, Touched
  <2>2. rules = [user |-> rules.user, alpha |-> rules.alpha, beta |-> rules.beta, keep |-> rules.keep, big |-> rules.big]
    BY DEF RuleSets
  <2>3. [rules EXCEPT ![c.key] = c.value] \in RuleSets
    BY <1>1, <1>4, <2>2, RuleKeysAre DEF RuleSets, TraceCommand, Config
  <2>4. c.key \in RuleKeys /\ DOMAIN rules = RuleKeys
    BY <1>1, <1>4, <2>2, RuleKeysAre DEF TraceCommand, Config
  <2> QED BY <1>4, <2>1, <2>3, <2>4 DEF Wanted
<1> QED BY <1>2, <1>3, <1>4

LEMMA ChangeStep == ASSUME TraceInv, NEW w \in Tracers, Change(w) PROVE TraceInv'
<1> PICK old : old = tracing[w]
  OBVIOUS
<1> PICK c : c = old.cmd
  OBVIOUS
<1>1. /\ old # NoTrace /\ old.at = "change" /\ c \in traceWorld.commands /\ traceUp
      /\ UNCHANGED <<traceWorld, traceRow, traceUp>> /\ traceMu = NoTrace
  BY DEF Change, TraceAt, MutexFree, TraceInv, TraceJobInv
<1>2. CASE TraceGo(w, "answer") /\ UNCHANGED <<rules, said, traceMu>>
  BY <1>1, <1>2, TraceGoStep DEF Change
<1>3. CASE /\ rules' = Changed(c, rules) /\ traceMu' = w
           /\ tracing' = [tracing EXCEPT ![w] = [at |-> "store", cmd |-> c, raw |-> rules']]
           /\ said' = [k \in RuleKeys |-> said[k] \cup (IF k \in Touched(c) THEN {Wanted(c, k)} ELSE {})]
  <2>1. PICK j : j = [at |-> "store", cmd |-> c, raw |-> rules']
    OBVIOUS
  <2>2. tracing'[w] = j /\ (\A v \in Tracers \ {w} : tracing'[v] = tracing[v])
        /\ tracing' = [v \in Tracers |-> tracing'[v]]
    BY <1>3, <2>1 DEF TraceInv
  <2>3. /\ rules' \in RuleSets
        /\ \A k \in RuleKeys : k \in Touched(c) => rules'[k] = Wanted(c, k)
        /\ \A k \in RuleKeys : k \notin Touched(c) => rules'[k] = rules[k]
    BY <1>1, <1>3, ChangedIsRules DEF TraceInv
  <2>4. ASSUME NEW v \in Tracers PROVE TraceJobInv(v)'
    <3>1. CASE v = w
      <4>1. j = [at |-> j.at, cmd |-> j.cmd, raw |-> j.raw] /\ j.at = "store" /\ j.cmd = c /\ j.raw = rules'
        BY <2>1
      <4> QED BY <1>1, <1>3, <2>2, <2>3, <3>1, <4>1 DEF TraceJobInv, Touched, Wanted
    <3>2. CASE v # w
      <4>1. tracing[v] # NoTrace => tracing[v].at # "store"
        BY <1>1, TraceAssumption DEF TraceInv, TraceJobInv
      <4> QED BY <1>1, <2>2, <3>2, <4>1 DEF TraceInv, TraceJobInv
    <3> QED BY <3>1, <3>2
  <2>5. \A k \in RuleKeys : said[k] \subseteq said'[k] /\ (k \in Touched(c) => Wanted(c, k) \in said'[k])
    BY <1>3
  <2>6. Allowed(rules)'
    BY <1>1, <2>3, <2>5 DEF TraceInv, RulesAreKept, Allowed
  <2>7. ASSUME NEW s, Allowed(s) PROVE Allowed(s)'
    BY <2>5, <2>7 DEF Allowed
  <2>8. TraceWorldInv' /\ loadLegacyState' = loadLegacyState /\ RulesAreKept'
    BY <1>1, <2>6, <2>5 DEF TraceInv, TraceWorldInv, RulesAreKept, loadLegacyState, Allowed
  <2>9. traceRow' = NoRules => Allowed(defaultState)' /\ (loadLegacyState' \in RuleSets => Allowed(loadLegacyState)')
    BY <1>1, <2>5, <2>8 DEF TraceInv, Allowed
  <2>10. traceRow' \in RuleSets \cup {NoRules} /\ (~traceUp' => tracing' = TraceIdle')
    BY <1>1 DEF TraceInv
  <2> QED BY <2>2, <2>3, <2>4, <2>8, <2>9, <2>10 DEF TraceInv
<1>4. QED BY <1>2, <1>3, Zenon DEF Change

LEMMA PersistStep == ASSUME TraceInv, NEW w \in Tracers, persistLocked(w) PROVE TraceInv'
<1> PICK old : old = tracing[w]
  OBVIOUS
<1> PICK c : c = old.cmd
  OBVIOUS
<1>1. /\ old # NoTrace /\ old.at = "store" /\ c \in traceWorld.commands /\ traceUp /\ UNCHANGED <<traceWorld, rules, traceUp>>
      /\ traceMu = w /\ old.raw = rules /\ \A k \in RuleKeys : k \in Touched(c) => rules[k] = Wanted(c, k)
      /\ old = [at |-> old.at, cmd |-> old.cmd] \/ old = [at |-> old.at, cmd |-> old.cmd, raw |-> old.raw]
  BY DEF persistLocked, TraceAt, TraceInv, TraceJobInv
<1>2. PICK at \in {"react", "answer"} : TraceGo(w, at)
  BY DEF persistLocked
<1>3. PICK j : j = [old EXCEPT !.at = at]
  OBVIOUS
<1>4. tracing'[w] = j /\ (\A v \in Tracers \ {w} : tracing'[v] = tracing[v])
      /\ tracing' = [v \in Tracers |-> tracing'[v]]
  BY <1>2, <1>3 DEF TraceInv, TraceGo
<1>5. j.at = at /\ (j = [at |-> j.at, cmd |-> j.cmd] \/ j = [at |-> j.at, cmd |-> j.cmd, raw |-> j.raw])
  <2>1. CASE old = [at |-> old.at, cmd |-> old.cmd]
    BY <1>3, <2>1
  <2>2. CASE old = [at |-> old.at, cmd |-> old.cmd, raw |-> old.raw]
    BY <1>3, <2>2
  <2> QED BY <1>1, <2>1, <2>2
<1>6. ASSUME NEW v \in Tracers PROVE TraceJobInv(v)'
  <2>1. CASE v = w
    BY <1>4, <1>5, <2>1 DEF TraceJobInv
  <2>2. CASE v # w
    <3>1. tracing[v] # NoTrace => tracing[v].at # "store"
      BY <1>1, <2>2 DEF TraceInv, TraceJobInv
    <3> QED BY <1>1, <1>4, <2>2, <3>1 DEF TraceInv, TraceJobInv
  <2> QED BY <2>1, <2>2
<1>7. TraceWorldInv' /\ loadLegacyState' = loadLegacyState
  BY <1>1 DEF TraceInv, TraceWorldInv, loadLegacyState
<1>8. /\ rules' \in RuleSets /\ traceRow' \in RuleSets \cup {NoRules} /\ (~traceUp' => tracing' = TraceIdle')
      /\ traceRow' \in {traceRow, rules} /\ rules # NoRules
  BY <1>1, TraceAssumption DEF TraceInv, persistLocked, TraceStored, TraceLost
<1>9. CASE traceRow' = rules /\ said' = [k \in RuleKeys |-> IF k \in Touched(c) THEN {Wanted(c, k)} ELSE said[k]]
  <2>1. Allowed(rules)'
    BY <1>1, <1>9 DEF TraceInv, RulesAreKept, Allowed
  <2>2. RulesAreKept'
    BY <1>1, <1>9, <2>1 DEF RulesAreKept, Allowed
  <2> QED BY <1>4, <1>6, <1>7, <1>8, <1>9, <2>2 DEF TraceInv
<1>10. CASE UNCHANGED said
  <2>1. RulesAreKept'
    BY <1>1, <1>8, <1>10 DEF TraceInv, RulesAreKept, Allowed
  <2>2. traceRow' = NoRules => Allowed(defaultState)' /\ (loadLegacyState' \in RuleSets => Allowed(loadLegacyState)')
    BY <1>7, <1>8, <1>10 DEF TraceInv, Allowed
  <2> QED BY <1>4, <1>6, <1>7, <1>8, <2>1, <2>2 DEF TraceInv
<1>11. QED
  <2>1. (traceRow' = rules /\ said' = [k \in RuleKeys |-> IF k \in Touched(c) THEN {Wanted(c, k)} ELSE said[k]]) \/ UNCHANGED said
    BY <1>1 DEF persistLocked, TraceStored
  <2> QED BY <1>9, <1>10, <2>1
LEMMA TraceStartsStep == ASSUME TraceInv, TraceStarts PROVE TraceInv'
<1>1. traceUp' /\ ~traceUp /\ rules' = traceRow /\ traceRow # NoRules /\ UNCHANGED <<traceWorld, traceRow, said, tracing, traceMu>>
  BY DEF TraceStarts
<1>2. tracing = TraceIdle
  BY <1>1 DEF TraceInv
<1>3. \A w \in Tracers : TraceJobInv(w)'
  BY <1>1, <1>2 DEF TraceJobInv, TraceIdle
<1>4. TraceWorldInv' /\ loadLegacyState' = loadLegacyState /\ RulesAreKept'
  BY <1>1 DEF TraceInv, TraceWorldInv, loadLegacyState, RulesAreKept, Allowed
<1> QED BY <1>1, <1>3, <1>4 DEF TraceInv

LEMMA TraceImportsStep == ASSUME TraceInv, TraceImports PROVE TraceInv'
<1> PICK legacy : legacy = loadLegacyState
  OBVIOUS
<1>1. /\ ~traceUp /\ traceRow = NoRules /\ legacy # Broken /\ UNCHANGED <<traceWorld, tracing, traceMu>>
      /\ tracing = TraceIdle /\ Allowed(defaultState) /\ legacy \in RuleSets \cup {NoRules}
      /\ legacy # NoRules => Allowed(legacy)
  BY LegacyIsRules, TraceAssumption DEF TraceImports, NothingStored, TraceInv
<1>2. TraceWorldInv' /\ loadLegacyState' = legacy
  BY <1>1 DEF TraceInv, TraceWorldInv, loadLegacyState
<1>3. \A w \in Tracers : TraceJobInv(w)'
  BY <1>1 DEF TraceJobInv, TraceIdle
<1>4. tracing' = [w \in Tracers |-> tracing'[w]] /\ tracing' = TraceIdle
  BY <1>1 DEF TraceIdle
<1>5. CASE legacy = NoRules /\ rules' = defaultState /\ UNCHANGED <<traceRow, said>>
  <2>1. RulesAreKept'
    BY <1>1, <1>5 DEF RulesAreKept, Allowed
  <2>2. traceRow' = NoRules => Allowed(defaultState)' /\ (loadLegacyState' \in RuleSets => Allowed(loadLegacyState)')
    BY <1>1, <1>2, <1>5, TraceAssumption DEF Allowed
  <2> QED BY <1>1, <1>2, <1>3, <1>4, <1>5, <2>1, <2>2, DefaultIsRules DEF TraceInv
<1>6. CASE /\ legacy # NoRules /\ traceRow' = legacy /\ rules' = legacy
           /\ said' = [k \in RuleKeys |-> said[k] \cap {legacy[k]}]
  <2>1. Allowed(legacy)'
    BY <1>1, <1>6 DEF Allowed
  <2>2. RulesAreKept'
    BY <1>6, <2>1 DEF RulesAreKept, Allowed
  <2> QED BY <1>1, <1>2, <1>3, <1>4, <1>6, <2>2 DEF TraceInv
<1>7. CASE legacy # NoRules /\ traceRow' \in {traceRow, legacy} /\ UNCHANGED <<rules, traceUp, said>>
  <2>1. RulesAreKept'
    BY <1>1, <1>7 DEF RulesAreKept, Allowed
  <2>2. traceRow' = NoRules => Allowed(defaultState)' /\ (loadLegacyState' \in RuleSets => Allowed(loadLegacyState)')
    BY <1>1, <1>2, <1>7 DEF Allowed
  <2>3. rules' \in RuleSets /\ traceRow' \in RuleSets \cup {NoRules}
    BY <1>1, <1>7 DEF TraceInv
  <2> QED BY <1>1, <1>2, <1>3, <1>4, <2>1, <2>2, <2>3 DEF TraceInv
<1>8. (legacy = NoRules /\ rules' = defaultState /\ UNCHANGED <<traceRow, said>>) \/
      (/\ legacy # NoRules /\ traceRow' = legacy /\ rules' = legacy
       /\ said' = [k \in RuleKeys |-> said[k] \cap {legacy[k]}]) \/
      (legacy # NoRules /\ traceRow' \in {traceRow, legacy} /\ UNCHANGED <<rules, traceUp, said>>)
  BY DEF TraceImports, TraceStored, TraceLost
<1> QED BY <1>5, <1>6, <1>7, <1>8

LEMMA TraceRestartsStep == ASSUME TraceInv, TraceRestarts PROVE TraceInv'
<1>1. /\ ~traceUp' /\ rules' = defaultState /\ tracing' = TraceIdle /\ UNCHANGED <<traceWorld, traceRow, said>>
  BY DEF TraceRestarts
<1>2. \A w \in Tracers : TraceJobInv(w)'
  BY <1>1 DEF TraceJobInv, TraceIdle
<1>3. tracing' = [w \in Tracers |-> tracing'[w]] /\ tracing' = TraceIdle'
  BY <1>1 DEF TraceIdle
<1>4. TraceWorldInv' /\ loadLegacyState' = loadLegacyState /\ RulesAreKept'
  BY <1>1 DEF TraceInv, TraceWorldInv, loadLegacyState, RulesAreKept, Allowed
<1>5. traceRow' = NoRules => Allowed(defaultState)' /\ (loadLegacyState' \in RuleSets => Allowed(loadLegacyState)')
  BY <1>1, <1>4 DEF TraceInv, Allowed
<1> QED BY <1>1, <1>2, <1>3, <1>4, <1>5, DefaultIsRules DEF TraceInv

LEMMA TraceStutter == ASSUME TraceInv, UNCHANGED traceVars PROVE TraceInv'
<1>1. UNCHANGED <<traceWorld, rules, traceRow, said, tracing, traceMu, traceUp>>
  BY DEF traceVars
<1>2. TraceWorldInv' /\ loadLegacyState' = loadLegacyState /\ RulesAreKept'
  BY <1>1 DEF TraceInv, TraceWorldInv, loadLegacyState, RulesAreKept, Allowed
<1>3. \A w \in Tracers : TraceJobInv(w)'
  BY <1>1 DEF TraceInv, TraceJobInv, Touched, Wanted
<1> QED BY <1>1, <1>2, <1>3 DEF TraceInv, Allowed

LEMMA TraceStep == ASSUME TraceInv, TraceNext PROVE TraceInv'
<1>1. CASE TraceStarts
  BY <1>1, TraceStartsStep
<1>2. CASE TraceImports
  BY <1>2, TraceImportsStep
<1>3. CASE TraceRestarts
  BY <1>3, TraceRestartsStep
<1>4. ASSUME NEW w \in Tracers, TraceHandle(w) PROVE TraceInv'
  BY <1>4, TraceHandleStep
<1>5. ASSUME NEW w \in Tracers, repliedUserID(w) PROVE TraceInv'
  BY <1>5, TraceGoStep DEF repliedUserID
<1>6. ASSUME NEW w \in Tracers, Change(w) PROVE TraceInv'
  BY <1>6, ChangeStep
<1>7. ASSUME NEW w \in Tracers, persistLocked(w) PROVE TraceInv'
  BY <1>7, PersistStep
<1>8. ASSUME NEW w \in Tracers, SendInitial(w) PROVE TraceInv'
  BY <1>8, TraceGoStep DEF SendInitial
<1>9. ASSUME NEW w \in Tracers, TraceAnswer(w) PROVE TraceInv'
  BY <1>9, TraceEndsStep DEF TraceAnswer, TraceAt
<1>10. ASSUME NEW w \in Tracers, OnMessage(w) PROVE TraceInv'
  BY <1>10, OnMessageStep
<1>11. ASSUME NEW w \in Tracers, SendReaction(w) PROVE TraceInv'
  BY <1>11, TraceEndsStep DEF SendReaction, TraceAt
<1> QED BY <1>1, <1>2, <1>3, <1>4, <1>5, <1>6, <1>7, <1>8, <1>9, <1>10, <1>11 DEF TraceNext

(* What the rules in memory, their row and the mutex have to do with each   *)
(* other between the steps of Start, the commands and a restart.            *)
THEOREM TraceInvariance == TraceSpec => []TraceInv
<1>1. (\E world \in TraceWorlds : TraceInit(world)) => TraceInv
  BY TraceStart
<1>2. TraceInv /\ [TraceNext]_traceVars => TraceInv'
  BY TraceStep, TraceStutter
<1> QED BY <1>1, <1>2, PTL DEF TraceSpec

\* Every rule the owner was told of stands, in memory and in its row, and messages are answered by the rules
\* (RulesAreKept).
THEOREM TraceSound == TraceSpec => []RulesAreKept
<1>1. TraceInv => RulesAreKept
  BY DEF TraceInv
<1> QED BY <1>1, TraceInvariance, PTL
-----------------------------------------------------------------------------
(* Search: the invariant.                                                   *)

SearchLists == [channels : Seq(Channels), default : Channels \cup {NoSearch}, words : SUBSET AdWords]
SearchPlaces(kind) ==
  IF kind = "import" THEN {"import", "lookup"}
  ELSE IF kind = "export" THEN {"export", "send export"}
  ELSE IF kind = "search" THEN {"search", "sources", "download", "forward", "copy", "upload", "delete"} ELSE {kind}
SearchCommand(c) ==
  /\ c.kind \in {"add", "import", "del", "del all", "default", "ad add", "ad del", "export", "search"}
  /\ c.kind = "add" => c.targets \in Seq(Channels)
  /\ c.kind = "default" => c.handle \in Channels \cup {NoSearch}
  /\ c.kind \in {"ad add", "ad del"} => c.words \subseteq AdWords
SearchForm(j) ==
  /\ j = [at |-> j.at, cmd |-> j.cmd, base |-> j.base, cfg |-> j.cfg, todo |-> j.todo, added |-> j.added,
          found |-> j.found, failed |-> j.failed]
  /\ j.at \in SearchPlaces(j.cmd.kind) /\ SearchCommand(j.cmd) /\ j.todo \in Seq(Channels) /\ SoundList(j.cfg)
\* What the copy says: the list the command began with and the channels it added; an import's begins empty.
CopyKnown(j) ==
  /\ j.at # "lookup" => ToSet(j.cfg.channels) = Content(j.base).channels \cup j.added /\ j.cfg.words = Content(j.base).words
  /\ j.at \notin {"add", "lookup"} => j.added = {}
  /\ j.at = "lookup" => ToSet(j.cfg.channels) = j.added /\ j.cfg.words = DefaultWords
WantedBy(m, cfg) == m.video /\ ~isAd(m, cfg.words) /\ \E h \in ToSet(cfg.channels) : m \in PostsOf(h)
\* A channel that is not to be read any more was read, or could not be.
SearchKnown(j) ==
  /\ j.at = "sources" => ToSet(j.todo) \subseteq ToSet(j.cfg.channels)
  /\ j.cmd.kind # "search" => j.found = {}
  /\ \A m \in j.found : WantedBy(m, j.cfg)
  /\ j.at = "sources" /\ (j.found = {} \/ j.cmd.how # "best") =>
       \A h \in ToSet(j.cfg.channels) :
         h \in ToSet(j.todo) \cup j.failed \/ AskedFor(h, j.cmd.how, j.cfg.words) \subseteq j.found
  /\ j.at \in {"download", "forward", "copy", "upload"} => j.found # {}
  /\ j.at = "delete" => \E r \in results : r.cfg = j.cfg
SearchJob(j) == SearchForm(j) /\ CopyKnown(j) /\ SearchKnown(j)
SearchWorldInv ==
  /\ \A c \in searchWorld.commands : SearchCommand(c)
  /\ \A h \in Channels : DOMAIN searchWorld.threads[h] \subseteq Nat
SearchInv ==
  /\ SearchWorldInv /\ exports \subseteq Seq(Channels) /\ (list = NoList \/ SoundList(list))
  /\ \A w \in DOMAIN searching : SearchJob(searching[w])
  /\ \A w \in tempDirs : SearchAt(w, "send export") \/ SearchAt(w, "upload")
  /\ SearchIsSound
-----------------------------------------------------------------------------
(* Search: sequences of channels.                                           *)

\* The members of a sequence that are in a set: all of them, each as often as before.
LEMMA OnlyMembers ==
  ASSUME NEW seq \in Seq(Channels), NEW set
  PROVE  /\ Only(seq, set) \in Seq(Channels) /\ ToSet(Only(seq, set)) = ToSet(seq) \cap set
         /\ IsInjective(seq) => IsInjective(Only(seq, set))
<1> DEFINE at == {i \in DOMAIN seq : seq[i] \in set}
           upTo(i) == {k \in at : k <= i}
           place == [i \in at |-> Cardinality(upTo(i))]
           size == Cardinality(at)
<1>1. at \subseteq DOMAIN seq /\ DOMAIN seq = 1 .. Len(seq) /\ Len(seq) \in Nat /\ \A i \in at : seq[i] \in Channels /\ seq[i] \in set /\ i \in Nat
  OBVIOUS
<1>2. IsFiniteSet(at) /\ size \in Nat
  <2>1. IsFiniteSet(1 .. Len(seq))
    BY <1>1, FS_Interval
  <2>2. IsFiniteSet(at)
    BY <1>1, <2>1, FS_Subset
  <2> QED BY <2>2, FS_CardinalityType
<1>3. \A i \in at : IsFiniteSet(upTo(i)) /\ Cardinality(upTo(i)) \in 1 .. size
  <2> SUFFICES ASSUME NEW i \in at PROVE IsFiniteSet(upTo(i)) /\ Cardinality(upTo(i)) \in 1 .. size
    OBVIOUS
  <2>1. upTo(i) \in SUBSET at /\ i \in upTo(i)
    BY <1>1
  <2>2. IsFiniteSet(upTo(i)) /\ Cardinality(upTo(i)) <= size
    BY <1>2, <2>1, FS_Subset
  <2>3. Cardinality(upTo(i)) \in Nat
    BY <2>2, FS_CardinalityType
  <2>4. Cardinality(upTo(i)) # 0
    BY <2>1, <2>2, FS_EmptySet
  <2> QED BY <1>2, <2>2, <2>3, <2>4
<1>4. \A i, k \in at : i < k => Cardinality(upTo(i)) # Cardinality(upTo(k))
  <2> SUFFICES ASSUME NEW i \in at, NEW k \in at, i < k PROVE Cardinality(upTo(i)) # Cardinality(upTo(k))
    OBVIOUS
  <2>1. upTo(i) \in SUBSET upTo(k) /\ k \in upTo(k) /\ k \notin upTo(i)
    BY <1>1
  <2>2. Cardinality(upTo(k)) = Cardinality(upTo(i)) => upTo(k) = upTo(i)
    BY <1>3, <2>1, FS_Subset
  <2> QED BY <2>1, <2>2
<1>5. place \in Injection(at, 1 .. size)
  <2>1. place \in [at -> 1 .. size]
    BY <1>3
  <2>2. \A i, k \in at : place[i] = place[k] => i = k
    <3> SUFFICES ASSUME NEW i \in at, NEW k \in at, i # k PROVE Cardinality(upTo(i)) # Cardinality(upTo(k))
      OBVIOUS
    <3>1. i < k \/ k < i
      BY <1>1
    <3> QED BY <1>4, <3>1
  <2> QED BY <2>1, <2>2 DEF Injection, IsInjective
<1>6. place \in Surjection(at, 1 .. size)
  <2>1. IsFiniteSet(1 .. size) /\ Cardinality(1 .. size) = size
    BY <1>2, FS_Interval
  <2> QED BY <1>5, <2>1, FS_Injection
<1> DEFINE from(n) == CHOOSE i \in at : Cardinality(upTo(i)) = n
<1>7. \A n \in 1 .. size : from(n) \in at /\ Cardinality(upTo(from(n))) = n
  <2> SUFFICES ASSUME NEW n \in 1 .. size PROVE \E i \in at : Cardinality(upTo(i)) = n
    OBVIOUS
  <2> QED BY <1>6 DEF Surjection
<1>8. \A i \in at : Cardinality(upTo(i)) \in 1 .. size /\ from(Cardinality(upTo(i))) = i
  <2> SUFFICES ASSUME NEW i \in at PROVE from(Cardinality(upTo(i))) = i
    BY <1>3
  <2>1. PICK n \in 1 .. size : n = Cardinality(upTo(i))
    BY <1>3
  <2>2. from(n) \in at /\ Cardinality(upTo(from(n))) = Cardinality(upTo(i))
    BY <1>7, <2>1
  <2>3. ~ (from(n) < i) /\ ~ (i < from(n))
    BY <1>4, <2>2
  <2> QED BY <1>1, <2>1, <2>2, <2>3
<1> PICK only : only = Only(seq, set)
  OBVIOUS
<1>9. only = [n \in 1 .. size |-> seq[from(n)]]
  BY DEF Only
<1> HIDE DEF at, size, from, upTo
<1>10. only \in Seq(Channels) /\ DOMAIN only = 1 .. size
  <2>1. \A n \in 1 .. size : seq[from(n)] \in Channels
    BY <1>1, <1>7
  <2>2. only \in [1 .. size -> Channels] /\ size \in Nat
    BY <1>2, <1>9, <2>1
  <2> QED BY <2>2
<1>11. \A n \in 1 .. size : only[n] = seq[from(n)]
  BY <1>9
<1>12. ToSet(only) = ToSet(seq) \cap set
  <2>1. \A h \in ToSet(only) : h \in ToSet(seq) /\ h \in set
    BY <1>1, <1>7, <1>10, <1>11 DEF ToSet
  <2>2. ASSUME NEW h \in ToSet(seq), h \in set PROVE h \in ToSet(only)
    <3>1. PICK i \in DOMAIN seq : seq[i] = h
      BY DEF ToSet
    <3>2. i \in at
      BY <2>2, <3>1 DEF at
    <3> QED BY <1>8, <1>10, <1>11, <3>1, <3>2 DEF ToSet
  <2> QED BY <2>1, <2>2
<1>13. ASSUME IsInjective(seq), NEW n \in 1 .. size, NEW k \in 1 .. size, only[n] = only[k] PROVE n = k
  <2>1. from(n) \in DOMAIN seq /\ from(k) \in DOMAIN seq /\ seq[from(n)] = seq[from(k)]
    BY <1>1, <1>7, <1>11, <1>13
  <2>2. from(n) = from(k)
    BY <1>13, <2>1 DEF IsInjective
  <2> QED BY <1>7, <2>2
<1>14. IsInjective(seq) => IsInjective(only)
  BY <1>10, <1>13 DEF IsInjective
<1> QED BY <1>10, <1>12, <1>14

LEMMA TailMembers ==
  ASSUME NEW seq \in Seq(Channels), seq # <<>>
  PROVE  Head(seq) \in Channels /\ Tail(seq) \in Seq(Channels) /\ ToSet(seq) = {Head(seq)} \cup ToSet(Tail(seq))
<1>1. Len(seq) \in Nat \ {0} /\ DOMAIN seq = 1 .. Len(seq) /\ Head(seq) = seq[1]
  BY EmptySeq
<1>2. /\ Head(seq) \in Channels /\ Tail(seq) \in Seq(Channels) /\ Len(Tail(seq)) = Len(seq) - 1
      /\ \A i \in 1 .. Len(Tail(seq)) : Tail(seq)[i] = seq[i + 1]
  BY HeadTailProperties
<1> PICK rest \in Seq(Channels) : rest = Tail(seq)
  BY <1>2
<1>3. DOMAIN rest = 1 .. Len(seq) - 1 /\ \A i \in DOMAIN rest : rest[i] = seq[i + 1]
  BY <1>2
<1>4. ASSUME NEW i \in DOMAIN seq PROVE seq[i] = Head(seq) \/ \E k \in DOMAIN rest : rest[k] = seq[i]
  <2>1. CASE i = 1
    BY <1>1, <2>1
  <2>2. CASE i # 1
    <3>1. i - 1 \in DOMAIN rest /\ rest[i - 1] = seq[i]
      BY <1>1, <1>3, <2>2
    <3> QED BY <3>1
  <2> QED BY <2>1, <2>2
<1>5. \A k \in DOMAIN rest : k + 1 \in DOMAIN seq /\ rest[k] = seq[k + 1]
  BY <1>1, <1>3
<1>6. 1 \in DOMAIN seq
  BY <1>1
<1> QED BY <1>1, <1>2, <1>4, <1>5, <1>6 DEF ToSet

LEMMA JoinMembers ==
  ASSUME NEW first \in Seq(Channels), NEW second \in Seq(Channels)
  PROVE  first \o second \in Seq(Channels) /\ ToSet(first \o second) = ToSet(first) \cup ToSet(second)
<1> PICK both : both = first \o second
  OBVIOUS
<1>1. /\ both \in Seq(Channels) /\ Len(both) = Len(first) + Len(second)
      /\ \A i \in 1 .. Len(first) + Len(second) : both[i] = IF i <= Len(first) THEN first[i] ELSE second[i - Len(first)]
  BY ConcatProperties
<1>2. /\ DOMAIN both = 1 .. Len(first) + Len(second) /\ DOMAIN first = 1 .. Len(first) /\ DOMAIN second = 1 .. Len(second)
      /\ Len(first) \in Nat /\ Len(second) \in Nat
  BY <1>1, LenProperties
<1>3. \A i \in DOMAIN first : i \in DOMAIN both /\ both[i] = first[i]
  BY <1>1, <1>2
<1>4. \A i \in DOMAIN second : Len(first) + i \in DOMAIN both /\ both[Len(first) + i] = second[i]
  BY <1>1, <1>2
<1>5. \A i \in DOMAIN both : (i \in DOMAIN first /\ both[i] = first[i])
                             \/ (i - Len(first) \in DOMAIN second /\ both[i] = second[i - Len(first)])
  BY <1>1, <1>2
<1>6. ToSet(first) \cup ToSet(second) \subseteq ToSet(both)
  <2>1. ASSUME NEW i \in DOMAIN first PROVE first[i] \in ToSet(both)
    BY <1>3 DEF ToSet
  <2>2. ASSUME NEW i \in DOMAIN second PROVE second[i] \in ToSet(both)
    BY <1>4, Zenon DEF ToSet
  <2> QED BY <2>1, <2>2, Zenon DEF ToSet
<1>7. ToSet(both) \subseteq ToSet(first) \cup ToSet(second)
  BY <1>5 DEF ToSet
<1> QED BY <1>1, <1>6, <1>7

LEMMA AppendMembers ==
  ASSUME NEW seq \in Seq(Channels), NEW h \in Channels
  PROVE  /\ Append(seq, h) \in Seq(Channels) /\ ToSet(Append(seq, h)) = ToSet(seq) \cup {h}
         /\ IsInjective(seq) /\ h \notin ToSet(seq) => IsInjective(Append(seq, h))
<1> PICK more : more = Append(seq, h)
  OBVIOUS
<1>1. /\ more \in Seq(Channels) /\ DOMAIN more = 1 .. Len(seq) + 1 /\ DOMAIN seq = 1 .. Len(seq) /\ Len(seq) \in Nat
      /\ \A i \in DOMAIN seq : more[i] = seq[i]
      /\ more[Len(seq) + 1] = h
  BY AppendProperties, LenProperties
<1>2. \A i \in DOMAIN more : i \in DOMAIN seq \/ i = Len(seq) + 1
  BY <1>1
<1>3. ToSet(more) = ToSet(seq) \cup {h}
  BY <1>1, <1>2 DEF ToSet
<1>4. IsInjective(seq) /\ h \notin ToSet(seq) => IsInjective(more)
  BY <1>1, <1>2 DEF ToSet, IsInjective
<1> QED BY <1>1, <1>3, <1>4

LEMMA Members == ASSUME NEW seq \in Seq(Channels), NEW h PROVE Contains(seq, h) <=> h \in ToSet(seq)
  BY LenProperties DEF Contains, ToSet
-----------------------------------------------------------------------------
(* Search: what a step leaves alone.                                        *)

LEMMA SearchJobStays ==
  ASSUME NEW j, SearchJob(j), UNCHANGED searchWorld, results \subseteq results' PROVE SearchJob(j)'
<1>1. SearchForm(j)' /\ CopyKnown(j)'
  BY DEF SearchJob, SearchForm, CopyKnown, SearchCommand
<1>2. SearchKnown(j)'
  <2>1. \A m, cfg : WantedBy(m, cfg)' <=> WantedBy(m, cfg)
    BY DEF WantedBy, PostsOf
  <2>2. \A h, how, words : AskedFor(h, how, words)' = AskedFor(h, how, words)
    BY DEF AskedFor, Matching
  <2>3. SearchKnown(j)
    BY DEF SearchJob
  <2> QED BY <2>1, <2>2, <2>3 DEF SearchKnown
<1> QED BY <1>1, <1>2 DEF SearchJob

OthersSearch(w) ==
  /\ DOMAIN searching' \ {w} = DOMAIN searching \ {w}
  /\ \A v \in DOMAIN searching \ {w} : searching'[v] = searching[v]
DirsAreHeld(w, j) ==
  /\ \A v \in tempDirs' : v = w \/ v \in tempDirs
  /\ w \in tempDirs' => w \in DOMAIN searching' /\ j.at \in {"send export", "upload"}
LEMMA SearchStep ==
  ASSUME SearchInv, NEW w, NEW j, OthersSearch(w), w \in DOMAIN searching' => searching'[w] = j /\ SearchJob(j)',
         DirsAreHeld(w, j), UNCHANGED searchWorld, results \subseteq results', exports' \subseteq Seq(Channels),
         list' = NoList \/ SoundList(list'), ListIsKept', OnlyWanted', NothingMissed',
         \A e \in ends' : e.end = "deleted" => \E r \in results' : r.cfg = e.cfg
  PROVE  SearchInv'
<1>1. SearchWorldInv'
  BY DEF SearchInv, SearchWorldInv, SearchCommand
<1>2. ASSUME NEW v \in DOMAIN searching' PROVE SearchJob(searching[v])'
  <2>1. CASE v = w
    BY <2>1, <1>2
  <2>2. CASE v # w
    <3> PICK k : k = searching[v]
      OBVIOUS
    <3>1. searching'[v] = k /\ SearchJob(k)
      BY <1>2, <2>2 DEF SearchInv, OthersSearch
    <3>2. SearchJob(k)'
      BY <3>1, SearchJobStays
    <3> QED BY <3>1, <3>2
  <2> QED BY <2>1, <2>2
<1>3. ASSUME NEW v \in tempDirs' PROVE v \in DOMAIN searching' /\ searching'[v].at \in {"send export", "upload"}
  <2>1. CASE v = w
    BY <1>3, <2>1 DEF DirsAreHeld
  <2>2. CASE v # w
    <3>1. v \in DOMAIN searching /\ searching[v].at \in {"send export", "upload"}
      BY <1>3, <2>2 DEF DirsAreHeld, SearchInv, SearchAt, Busy
    <3> QED BY <2>2, <3>1 DEF OthersSearch
  <2> QED BY <2>1, <2>2
<1>4. ListIsSound'
  BY DEF ListIsSound, SoundList
<1>5. ResultFirst'
  BY <1>3 DEF ResultFirst, Busy
<1>6. SearchIsSound'
  BY <1>4, <1>5 DEF SearchIsSound
<1> QED BY <1>1, <1>2, <1>3, <1>6 DEF SearchInv, SearchAt, Busy

ListSame == UNCHANGED <<searchWorld, list, listed>>
LEMMA ListSameStays ==
  ASSUME SearchInv, ListSame
  PROVE  /\ list' = NoList \/ SoundList(list')
         /\ ListIsKept' /\ UNCHANGED searchWorld
<1>1. Content(list)' = Content(list)
  BY DEF ListSame, Content, defaultConfig, List
<1> QED BY <1>1 DEF ListSame, SearchInv, SearchIsSound, ListIsKept
LEMMA ResultsStay ==
  ASSUME SearchInv, UNCHANGED searchWorld, UNCHANGED <<results, ends>> PROVE OnlyWanted' /\ NothingMissed'
<1>1. OnlyWanted'
  BY DEF SearchInv, SearchIsSound, OnlyWanted, PostsOf
<1>2. NothingMissed'
  <2>1. \A h, how, words : AskedFor(h, how, words)' = AskedFor(h, how, words)
    BY DEF AskedFor, Matching
  <2> QED BY <2>1 DEF SearchInv, SearchIsSound, NothingMissed
<1> QED BY <1>1, <1>2
LEMMA OutcomesStay ==
  ASSUME SearchInv, ListSame, UNCHANGED outcomes
  PROVE  /\ results \subseteq results' /\ exports' \subseteq Seq(Channels) /\ OnlyWanted' /\ NothingMissed'
         /\ \A e \in ends' : e.end = "deleted" => \E r \in results' : r.cfg = e.cfg
<1>1. UNCHANGED <<searchWorld, results, ends, exports>>
  BY DEF outcomes, ListSame
<1>2. OnlyWanted' /\ NothingMissed'
  BY <1>1, ResultsStay
<1> QED BY <1>1, <1>2 DEF SearchInv, SearchIsSound, ResultFirst

\* A command ends, or goes on, and nothing else changes than directories.
LEMMA SearchEndsStep ==
  ASSUME SearchInv, NEW w, SearchEnds(w), tempDirs' \subseteq tempDirs, w \notin tempDirs', ListSame, UNCHANGED outcomes
  PROVE  SearchInv'
<1>1. OthersSearch(w) /\ w \notin DOMAIN searching' /\ \A j : DirsAreHeld(w, j)
  BY DEF SearchEnds, OthersSearch, DirsAreHeld
<1> PICK j : j = 0
  OBVIOUS
<1>2. DirsAreHeld(w, j)
  BY <1>1
<1> QED BY <1>1, <1>2, ListSameStays, OutcomesStay, SearchStep
LEMMA SearchMoves ==
  ASSUME SearchInv, NEW w, NEW j, w \in DOMAIN searching, searching' = [searching EXCEPT ![w] = j], SearchJob(j),
         DirsAreHeld(w, j), ListSame, UNCHANGED outcomes
  PROVE  SearchInv'
<1>1. OthersSearch(w) /\ searching'[w] = j
  BY DEF OthersSearch
<1>2. SearchJob(j)'
  BY SearchJobStays, OutcomesStay DEF ListSame
<1> QED BY <1>1, <1>2, ListSameStays, OutcomesStay, SearchStep

LEMMA SearchJobIs ==
  ASSUME SearchInv, NEW w, Busy(w)
  PROVE  /\ SearchJob(searching[w]) /\ w \in DOMAIN searching
         /\ searching[w].at \notin {"send export", "upload"} => w \notin tempDirs
  BY DEF SearchInv, Busy, SearchAt
LEMMA SearchGoes ==
  ASSUME NEW old, SearchJob(old), NEW at, at \in SearchPlaces(old.cmd.kind), at \notin {"add", "lookup", "sources", "delete"},
         old.at \notin {"add", "lookup"}, at \in {"download", "forward", "copy", "upload"} => old.found # {},
         NEW j, j = [old EXCEPT !.at = at]
  PROVE  SearchJob(j)
<1>1. /\ j.at = at /\ j.cmd = old.cmd /\ j.base = old.base /\ j.cfg = old.cfg /\ j.todo = old.todo /\ j.added = old.added
      /\ j.found = old.found /\ j.failed = old.failed
      /\ j = [at |-> j.at, cmd |-> j.cmd, base |-> j.base, cfg |-> j.cfg, todo |-> j.todo, added |-> j.added,
              found |-> j.found, failed |-> j.failed]
  BY DEF SearchJob, SearchForm
<1>2. SearchForm(j)
  BY <1>1 DEF SearchJob, SearchForm
<1>3. CopyKnown(j)
  BY <1>1 DEF SearchJob, CopyKnown
<1>4. SearchKnown(j)
  BY <1>1 DEF SearchJob, SearchKnown
<1> QED BY <1>2, <1>3, <1>4 DEF SearchJob
-----------------------------------------------------------------------------
(* Search: commands come, fail, and change their copy of the list.          *)

LEMMA SoundDefault == SoundList(defaultConfig) /\ defaultConfig # NoList /\ ToSet(defaultConfig.channels) = {}
                      /\ defaultConfig.words = DefaultWords
<1>1. <<>> \in Seq(Channels) /\ ToSet(<<>>) = {} /\ IsInjective(<<>>)
  BY DEF ToSet, IsInjective
<1> PICK none : none = <<>>
  OBVIOUS
<1>2. defaultConfig = [channels |-> none, default |-> NoSearch, words |-> DefaultWords]
  BY DEF defaultConfig, List
<1>3. none \in Seq(Channels) /\ ToSet(none) = {} /\ IsInjective(none) /\ DefaultWords \in SUBSET AdWords
  BY <1>1, SearchAssumption
<1>4. SoundList(defaultConfig)
  BY <1>2, <1>3 DEF SoundList
<1>5. defaultConfig # NoList
  BY <1>4, SearchAssumption DEF SoundList
<1> QED BY <1>2, <1>3, <1>4, <1>5
LEMMA SoundForm == ASSUME NEW l, SoundList(l) PROVE l # NoList /\ Content(l) = [channels |-> ToSet(l.channels), words |-> l.words]
<1>1. l # NoList
  BY SearchAssumption DEF SoundList
<1> QED BY <1>1 DEF Content

LEMMA LoadStep == ASSUME SearchInv, NEW w, load(w) PROVE SearchInv'
<1>1. PICK c \in searchWorld.commands, failed \in BOOLEAN :
        /\ w \notin DOMAIN searching
        /\ searching' = [v \in DOMAIN searching \cup {w} |-> IF v # w THEN searching[v] ELSE
             [at |-> c.kind, cmd |-> c, base |-> IF failed THEN NoList ELSE list,
              cfg |-> IF failed \/ list = NoList THEN defaultConfig ELSE list,
              todo |-> IF c.kind = "add" THEN c.targets ELSE <<>>, added |-> {}, found |-> {}, failed |-> {}]]
        /\ ListSame /\ UNCHANGED <<outcomes, tempDirs>>
  BY DEF load, ListSame, Busy
<1> PICK base : base = (IF failed THEN NoList ELSE list)
  OBVIOUS
<1> PICK cfg : cfg = (IF failed \/ list = NoList THEN defaultConfig ELSE list)
  OBVIOUS
<1> PICK todo : todo = (IF c.kind = "add" THEN c.targets ELSE <<>>)
  OBVIOUS
<1>2. PICK j : j = [at |-> c.kind, cmd |-> c, base |-> base, cfg |-> cfg, todo |-> todo, added |-> {}, found |-> {}, failed |-> {}]
  OBVIOUS
<1>3. searching' = [v \in DOMAIN searching \cup {w} |-> IF v # w THEN searching[v] ELSE j]
  BY <1>1, <1>2
<1>4. SearchCommand(c)
  BY DEF SearchInv, SearchWorldInv
<1>5. /\ j.at = c.kind /\ j.cmd = c /\ j.base = base /\ j.cfg = cfg /\ j.todo = todo /\ j.added = {}
      /\ j.found = {} /\ j.failed = {}
      /\ j = [at |-> j.at, cmd |-> j.cmd, base |-> j.base, cfg |-> j.cfg, todo |-> j.todo, added |-> j.added,
              found |-> j.found, failed |-> j.failed]
  BY <1>2
<1>6. SoundList(cfg) /\ Content(base) = [channels |-> ToSet(cfg.channels), words |-> cfg.words]
  <2>1. CASE failed \/ list = NoList
    BY <2>1, SoundDefault DEF Content
  <2>2. CASE ~ (failed \/ list = NoList)
    <3>1. cfg = list /\ base = list /\ SoundList(list)
      BY <2>2 DEF SearchInv
    <3> QED BY <3>1, SoundForm
  <2> QED BY <2>1, <2>2
<1>7. SearchForm(j)
  <2>1. todo \in Seq(Channels)
    <3>1. CASE c.kind = "add"
      BY <1>4, <3>1 DEF SearchCommand
    <3>2. CASE c.kind # "add"
      <4>1. todo = <<>> /\ <<>> \in Seq(Channels)
        BY <3>2
      <4> QED BY <4>1
    <3> QED BY <3>1, <3>2
  <2>2. c.kind \in SearchPlaces(c.kind)
    BY <1>4 DEF SearchCommand, SearchPlaces
  <2> QED BY <1>4, <1>5, <1>6, <2>1, <2>2 DEF SearchForm
<1>8. CopyKnown(j) /\ SearchKnown(j)
  <2>1. c.kind \notin {"lookup", "sources", "download", "forward", "copy", "upload", "delete"}
    BY <1>4 DEF SearchCommand
  <2>2. CopyKnown(j)
    BY <1>5, <1>6, <2>1 DEF CopyKnown
  <2>3. SearchKnown(j)
    BY <1>5, <2>1 DEF SearchKnown
  <2> QED BY <2>2, <2>3
<1>9. SearchJob(j)
  BY <1>7, <1>8 DEF SearchJob
<1>10. SearchJob(j)'
  BY <1>1, <1>9, SearchJobStays, OutcomesStay DEF ListSame
<1>11. OthersSearch(w) /\ searching'[w] = j
  BY <1>3 DEF OthersSearch
<1>12. DirsAreHeld(w, j)
  BY <1>1 DEF DirsAreHeld, SearchInv, SearchAt, Busy
<1> QED BY <1>1, <1>10, <1>11, <1>12, ListSameStays, OutcomesStay, SearchStep

LEMMA SearchFailsStep == ASSUME SearchInv, NEW w, SearchFails(w) PROVE SearchInv'
  BY SearchEndsStep DEF SearchFails, ListSame

LEMMA SearchRestartsStep == ASSUME SearchInv, SearchRestarts PROVE SearchInv'
<1>1. DOMAIN searching' = {} /\ tempDirs' = {} /\ ListSame /\ UNCHANGED outcomes
  BY DEF SearchRestarts, SearchIdle, ListSame
<1>2. SearchWorldInv'
  BY <1>1 DEF SearchInv, SearchWorldInv, SearchCommand, ListSame
<1>3. /\ list' = NoList \/ SoundList(list')
      /\ ListIsKept' /\ exports' \subseteq Seq(Channels) /\ OnlyWanted' /\ NothingMissed'
      /\ \A e \in ends' : e.end = "deleted" => \E r \in results' : r.cfg = e.cfg
  BY <1>1, ListSameStays, OutcomesStay
<1>4. ListIsSound' /\ ResultFirst'
  BY <1>1, <1>3 DEF ListIsSound, SoundList, ResultFirst
<1> QED BY <1>1, <1>2, <1>3, <1>4 DEF SearchInv, SearchIsSound

LEMMA NothingReachedStep == ASSUME SearchInv, NEW w, NothingReached(w) PROVE SearchInv'
  BY SearchEndsStep, SearchJobIs DEF NothingReached, ListSame
LEMMA NoSuchDefaultStep == ASSUME SearchInv, NEW w, NoSuchDefault(w) PROVE SearchInv'
  BY SearchEndsStep, SearchJobIs DEF NoSuchDefault, ListSame, SearchAt

\* A channel that is added to a list.
LEMMA ChannelAdded ==
  ASSUME NEW cfg, SoundList(cfg), NEW h \in Channels, ~HasHandle(cfg, h)
  PROVE  /\ SoundList(AddChannel(cfg, h)) /\ AddChannel(cfg, h).words = cfg.words
         /\ ToSet(AddChannel(cfg, h).channels) = ToSet(cfg.channels) \cup {h}
<1> PICK channels : channels = cfg.channels
  OBVIOUS
<1> PICK more : more = Append(channels, h)
  OBVIOUS
<1> PICK default : default = (IF cfg.default = NoSearch THEN h ELSE cfg.default)
  OBVIOUS
<1>1. channels \in Seq(Channels) /\ h \notin ToSet(channels) /\ cfg.words \in SUBSET AdWords /\ IsInjective(channels)
  BY Members DEF SoundList, HasHandle
<1>2. more \in Seq(Channels) /\ ToSet(more) = ToSet(channels) \cup {h} /\ IsInjective(more)
  BY <1>1, AppendMembers
<1>3. default \in Channels \cup {NoSearch} /\ (default = NoSearch \/ Contains(more, default))
  <2>1. cfg.default \in Channels \cup {NoSearch} /\ (cfg.default = NoSearch \/ cfg.default \in ToSet(channels))
    BY <1>1, Members DEF SoundList
  <2>2. default = h \/ default = NoSearch \/ default \in ToSet(channels)
    BY <2>1
  <2>3. default = NoSearch \/ default \in ToSet(more)
    BY <1>2, <2>2
  <2> QED BY <1>2, <2>1, <2>3, Members
<1>4. AddChannel(cfg, h) = [channels |-> more, default |-> default, words |-> cfg.words]
  BY DEF AddChannel, List
<1> QED BY <1>1, <1>2, <1>3, <1>4 DEF SoundList

\* The copy of a command that looks channels up, after one.
LEMMA LookedUp ==
  ASSUME NEW old, SearchJob(old), old.at \in {"add", "lookup"}, NEW h \in Channels, NEW rest \in Seq(Channels), NEW cfg, NEW added,
         \/ cfg = old.cfg /\ added = old.added
         \/ ~HasHandle(old.cfg, h) /\ cfg = AddChannel(old.cfg, h) /\ added = old.added \cup {h},
         NEW j, j = [at |-> old.at, cmd |-> old.cmd, base |-> old.base, cfg |-> cfg, todo |-> rest, added |-> added,
                     found |-> old.found, failed |-> old.failed]
  PROVE  SearchJob(j)
<1>1. /\ j.at = old.at /\ j.cmd = old.cmd /\ j.base = old.base /\ j.cfg = cfg /\ j.todo = rest /\ j.added = added
      /\ j.found = old.found /\ j.failed = old.failed
      /\ j = [at |-> j.at, cmd |-> j.cmd, base |-> j.base, cfg |-> j.cfg, todo |-> j.todo, added |-> j.added,
              found |-> j.found, failed |-> j.failed]
  OBVIOUS
<1>2. SoundList(old.cfg) /\ old.at \in SearchPlaces(old.cmd.kind) /\ SearchCommand(old.cmd)
  BY DEF SearchJob, SearchForm
<1>3. \/ cfg = old.cfg /\ added = old.added
      \/ /\ ToSet(cfg.channels) = ToSet(old.cfg.channels) \cup {h} /\ added = old.added \cup {h}
         /\ cfg.words = old.cfg.words /\ SoundList(cfg)
  <2>1. CASE cfg = old.cfg /\ added = old.added
    BY <2>1
  <2>2. CASE ~HasHandle(old.cfg, h) /\ cfg = AddChannel(old.cfg, h) /\ added = old.added \cup {h}
    <3> PICK before : before = old.cfg
      OBVIOUS
    <3>1. SoundList(before) /\ h \in Channels /\ ~HasHandle(before, h)
      BY <1>2, <2>2
    <3>2. /\ SoundList(AddChannel(before, h)) /\ AddChannel(before, h).words = before.words
          /\ ToSet(AddChannel(before, h).channels) = ToSet(before.channels) \cup {h}
      BY <3>1, ChannelAdded
    <3> QED BY <2>2, <3>2
  <2> QED BY <2>1, <2>2
<1>4. SearchForm(j)
  BY <1>1, <1>2, <1>3 DEF SearchForm
<1>5. CopyKnown(old) /\ SearchKnown(old)
  BY DEF SearchJob
<1>6. CopyKnown(j)
  BY <1>1, <1>3, <1>5 DEF CopyKnown
<1>7. SearchKnown(j)
  <2>1. old.cmd.kind # "search"
    BY <1>2 DEF SearchPlaces
  <2> QED BY <1>1, <1>5, <2>1 DEF SearchKnown
<1> QED BY <1>4, <1>6, <1>7 DEF SearchJob

LEMMA ResolveStep == ASSUME SearchInv, NEW w, ResolveTarget(w) PROVE SearchInv'
<1> PICK old : old = searching[w]
  OBVIOUS
<1> PICK h : h = Head(old.todo)
  OBVIOUS
<1> PICK rest : rest = Tail(old.todo)
  OBVIOUS
<1>1. /\ w \in DOMAIN searching /\ SearchJob(old) /\ old.at \in {"add", "lookup"} /\ old.todo # <<>> /\ w \notin tempDirs
      /\ ListSame /\ UNCHANGED <<outcomes, tempDirs>>
  BY SearchJobIs DEF ResolveTarget, ListSame, Busy
<1>2. h \in Channels /\ rest \in Seq(Channels)
  BY <1>1, TailMembers DEF SearchJob, SearchForm
<1>3. \E cfg, added :
        /\ searching' = [searching EXCEPT ![w].todo = rest, ![w].cfg = cfg, ![w].added = added]
        /\ \/ cfg = old.cfg /\ added = old.added
           \/ ~HasHandle(old.cfg, h) /\ cfg = AddChannel(old.cfg, h) /\ added = old.added \cup {h}
  <2>1. \/ searching' = [searching EXCEPT ![w].todo = rest,
               ![w].cfg = IF HasHandle(old.cfg, h) THEN old.cfg ELSE AddChannel(old.cfg, h),
               ![w].added = IF HasHandle(old.cfg, h) THEN old.added ELSE old.added \cup {h}]
        \/ searching' = [searching EXCEPT ![w].todo = rest]
    BY <1>1 DEF ResolveTarget
  <2>2. CASE searching' = [searching EXCEPT ![w].todo = rest]
    <3>1. old = [at |-> old.at, cmd |-> old.cmd, base |-> old.base, cfg |-> old.cfg, todo |-> old.todo, added |-> old.added,
                 found |-> old.found, failed |-> old.failed]
      BY <1>1 DEF SearchJob, SearchForm
    <3>2. searching' = [searching EXCEPT ![w].todo = rest, ![w].cfg = old.cfg, ![w].added = old.added]
      BY <1>1, <2>2, <3>1
    <3> QED BY <3>2
  <2>3. CASE searching' = [searching EXCEPT ![w].todo = rest,
               ![w].cfg = IF HasHandle(old.cfg, h) THEN old.cfg ELSE AddChannel(old.cfg, h),
               ![w].added = IF HasHandle(old.cfg, h) THEN old.added ELSE old.added \cup {h}]
    <3>1. CASE HasHandle(old.cfg, h)
      BY <2>3, <3>1
    <3>2. CASE ~HasHandle(old.cfg, h)
      BY <2>3, <3>2
    <3> QED BY <3>1, <3>2
  <2> QED BY <2>1, <2>2, <2>3
<1>4. PICK cfg, added :
        /\ searching' = [searching EXCEPT ![w].todo = rest, ![w].cfg = cfg, ![w].added = added]
        /\ \/ cfg = old.cfg /\ added = old.added
           \/ ~HasHandle(old.cfg, h) /\ cfg = AddChannel(old.cfg, h) /\ added = old.added \cup {h}
  BY <1>3
<1>5. PICK j : j = [at |-> old.at, cmd |-> old.cmd, base |-> old.base, cfg |-> cfg, todo |-> rest, added |-> added,
                     found |-> old.found, failed |-> old.failed]
  OBVIOUS
<1>6. SearchJob(j)
  BY <1>1, <1>2, <1>4, <1>5, LookedUp
<1>7. searching' = [searching EXCEPT ![w] = j]
  <2>1. old = [at |-> old.at, cmd |-> old.cmd, base |-> old.base, cfg |-> old.cfg, todo |-> old.todo, added |-> old.added,
               found |-> old.found, failed |-> old.failed]
    BY <1>1 DEF SearchJob, SearchForm
  <2>2. PICK first : first = [old EXCEPT !.todo = rest]
    OBVIOUS
  <2>3. PICK second : second = [first EXCEPT !.cfg = cfg]
    OBVIOUS
  <2>5. first = [at |-> old.at, cmd |-> old.cmd, base |-> old.base, cfg |-> old.cfg, todo |-> rest, added |-> old.added,
                 found |-> old.found, failed |-> old.failed]
    BY <2>1, <2>2
  <2>6. second = [at |-> old.at, cmd |-> old.cmd, base |-> old.base, cfg |-> cfg, todo |-> rest, added |-> old.added,
                  found |-> old.found, failed |-> old.failed]
    BY <2>3, <2>5
  <2>7. [second EXCEPT !.added = added] =
          [at |-> old.at, cmd |-> old.cmd, base |-> old.base, cfg |-> cfg, todo |-> rest, added |-> added,
           found |-> old.found, failed |-> old.failed]
    BY ONLY <2>6
  <2>4. j = [second EXCEPT !.added = added]
    BY <1>5, <2>7
  <2> QED BY <1>1, <1>4, <2>2, <2>3, <2>4
<1>8. DirsAreHeld(w, j)
  BY <1>1 DEF DirsAreHeld
<1> QED BY <1>1, <1>6, <1>7, <1>8, SearchMoves

LEMMA ImportStep == ASSUME SearchInv, NEW w, ImportConfig(w) PROVE SearchInv'
<1> PICK old : old = searching[w]
  OBVIOUS
<1> PICK cfg : cfg = defaultConfig
  OBVIOUS
<1>1. PICK file \in exports :
        /\ searching' = [searching EXCEPT ![w].at = "lookup", ![w].todo = file, ![w].cfg = cfg]
        /\ w \in DOMAIN searching /\ SearchJob(old) /\ old.at = "import" /\ w \notin tempDirs
        /\ ListSame /\ UNCHANGED <<outcomes, tempDirs>>
  BY SearchJobIs DEF ImportConfig, ListSame, SearchAt
<1>2. /\ SoundList(cfg) /\ ToSet(cfg.channels) = {} /\ cfg.words = DefaultWords /\ file \in Seq(Channels)
      /\ old.cmd.kind = "import" /\ SearchCommand(old.cmd) /\ old.added = {}
  <2>1. old.at \in SearchPlaces(old.cmd.kind) /\ SearchCommand(old.cmd) /\ old.added = {}
    BY <1>1 DEF SearchJob, SearchForm, CopyKnown
  <2>2. old.cmd.kind = "import"
    BY <1>1, <2>1 DEF SearchPlaces, SearchCommand
  <2> QED BY <2>1, <2>2, SoundDefault DEF SearchInv
<1>3. PICK j : j = [at |-> "lookup", cmd |-> old.cmd, base |-> old.base, cfg |-> cfg, todo |-> file, added |-> old.added,
                     found |-> old.found, failed |-> old.failed]
  OBVIOUS
<1>4. /\ j.at = "lookup" /\ j.cmd = old.cmd /\ j.base = old.base /\ j.cfg = cfg /\ j.todo = file /\ j.added = old.added
      /\ j.found = old.found /\ j.failed = old.failed
      /\ j = [at |-> j.at, cmd |-> j.cmd, base |-> j.base, cfg |-> j.cfg, todo |-> j.todo, added |-> j.added,
              found |-> j.found, failed |-> j.failed]
  BY <1>3
<1>5. SearchForm(j)
  BY <1>2, <1>4 DEF SearchForm, SearchPlaces
<1>6. CopyKnown(j)
  BY <1>2, <1>4 DEF CopyKnown
<1>7. SearchKnown(j)
  <2>1. old.found = {}
    BY <1>1, <1>2 DEF SearchJob, SearchKnown
  <2> QED BY <1>4, <2>1 DEF SearchKnown
<1>8. SearchJob(j)
  BY <1>5, <1>6, <1>7 DEF SearchJob
<1>9. searching' = [searching EXCEPT ![w] = j]
  <2>1. old = [at |-> old.at, cmd |-> old.cmd, base |-> old.base, cfg |-> old.cfg, todo |-> old.todo, added |-> old.added,
               found |-> old.found, failed |-> old.failed]
    BY <1>1 DEF SearchJob, SearchForm
  <2>2. PICK first : first = [old EXCEPT !.at = "lookup"]
    OBVIOUS
  <2>3. PICK second : second = [first EXCEPT !.todo = file]
    OBVIOUS
  <2>5. first = [at |-> "lookup", cmd |-> old.cmd, base |-> old.base, cfg |-> old.cfg, todo |-> old.todo, added |-> old.added,
                 found |-> old.found, failed |-> old.failed]
    BY <2>1, <2>2
  <2>6. second = [at |-> "lookup", cmd |-> old.cmd, base |-> old.base, cfg |-> old.cfg, todo |-> file, added |-> old.added,
                  found |-> old.found, failed |-> old.failed]
    BY <2>3, <2>5
  <2>4. j = [second EXCEPT !.cfg = cfg]
    BY <1>3, <2>6
  <2> QED BY <1>1, <2>2, <2>3, <2>4
<1>10. DirsAreHeld(w, j)
  BY <1>1 DEF DirsAreHeld
<1> QED BY <1>1, <1>8, <1>9, <1>10, SearchMoves

LEMMA ExportStep == ASSUME SearchInv, NEW w, ExportList(w) PROVE SearchInv'
<1> PICK old : old = searching[w]
  OBVIOUS
<1>1. w \in DOMAIN searching /\ SearchJob(old) /\ old.at = "export" /\ w \notin tempDirs /\ ListSame /\ UNCHANGED outcomes
  BY SearchJobIs DEF ExportList, ListSame, SearchAt
<1>2. CASE SearchEnds(w) /\ UNCHANGED tempDirs
  BY <1>1, <1>2, SearchEndsStep
<1>3. CASE SearchGo(w, "send export") /\ tempDirs' = tempDirs \cup {w}
  <2>1. PICK j : j = [old EXCEPT !.at = "send export"]
    OBVIOUS
  <2>2. old.cmd.kind = "export"
    BY <1>1 DEF SearchJob, SearchForm, SearchCommand, SearchPlaces
  <2>3. SearchJob(j)
    <3>1. "send export" \in SearchPlaces(old.cmd.kind)
      BY <2>2 DEF SearchPlaces
    <3> QED BY <1>1, <2>1, <3>1, SearchGoes
  <2>4. searching' = [searching EXCEPT ![w] = j]
    BY <1>1, <1>3, <2>1 DEF SearchGo
  <2>5. j.at = "send export"
    BY <1>1, <2>1 DEF SearchJob, SearchForm
  <2>6. DirsAreHeld(w, j)
    BY <1>1, <1>3, <2>4, <2>5 DEF DirsAreHeld
  <2> QED BY <1>1, <2>3, <2>4, <2>6, SearchMoves
<1> QED BY <1>2, <1>3 DEF ExportList

LEMMA SendExportStep == ASSUME SearchInv, NEW w, SendExport(w) PROVE SearchInv'
<1> PICK j : j = searching[w]
  OBVIOUS
<1>1. /\ w \in DOMAIN searching /\ SearchJob(j) /\ SearchEnds(w) /\ tempDirs' = tempDirs \ {w}
      /\ exports' = exports \cup {j.cfg.channels} /\ ListSame /\ UNCHANGED <<results, ends>>
  BY SearchJobIs DEF SendExport, ListSame, SearchAt, Busy
<1>2. exports' \subseteq Seq(Channels)
  BY <1>1 DEF SearchInv, SearchJob, SearchForm, SoundList
<1>3. OthersSearch(w) /\ w \notin DOMAIN searching' /\ DirsAreHeld(w, j)
  BY <1>1 DEF SearchEnds, OthersSearch, DirsAreHeld
<1>4. UNCHANGED searchWorld /\ UNCHANGED <<results, ends>>
  BY <1>1 DEF ListSame
<1>5. OnlyWanted' /\ NothingMissed'
  BY <1>4, ResultsStay
<1>6. \A e \in ends' : e.end = "deleted" => \E r \in results' : r.cfg = e.cfg
  BY <1>1 DEF SearchInv, SearchIsSound, ResultFirst
<1> QED BY <1>1, <1>2, <1>3, <1>4, <1>5, <1>6, ListSameStays, SearchStep
-----------------------------------------------------------------------------
(* Search: the list is stored.                                              *)

LEMMA ChannelsTaken ==
  ASSUME NEW cfg, SoundList(cfg), NEW handles
  PROVE  LET l == WithoutChannels(cfg, handles) IN
         SoundList(l) /\ l.words = cfg.words /\ ToSet(l.channels) = ToSet(cfg.channels) \ handles
<1> PICK channels : channels = cfg.channels
  OBVIOUS
<1> PICK set : set = Channels \ handles
  OBVIOUS
<1> PICK rest : rest = Only(channels, set)
  OBVIOUS
<1> PICK default : default = NextDefault(cfg, rest)
  OBVIOUS
<1>1. channels \in Seq(Channels) /\ cfg.words \in SUBSET AdWords /\ IsInjective(channels) /\ cfg.default \in Channels \cup {NoSearch}
  BY DEF SoundList
<1>2. rest \in Seq(Channels) /\ ToSet(rest) = ToSet(channels) \cap set /\ IsInjective(rest)
  BY <1>1, OnlyMembers
<1>3. ToSet(channels) \subseteq Channels
  <2>1. \A i \in DOMAIN channels : channels[i] \in Channels
    BY <1>1
  <2> QED BY <2>1 DEF ToSet
<1>4. ToSet(rest) = ToSet(channels) \ handles
  BY <1>2, <1>3
<1>5. default \in Channels \cup {NoSearch} /\ (default = NoSearch \/ Contains(rest, default))
  <2>1. CASE rest = <<>>
    <3>1. ToSet(rest) = {}
      BY <2>1 DEF ToSet
    <3>2. cfg.default = NoSearch \/ ~Contains(rest, cfg.default)
      BY <1>2, <3>1, Members
    <3>3. default = NoSearch
      BY <2>1, <3>2 DEF NextDefault
    <3> QED BY <3>3
  <2>2. CASE rest # <<>>
    <3>1. Head(rest) \in Channels /\ Head(rest) \in ToSet(rest)
      BY <1>2, <2>2, TailMembers
    <3>2. Contains(rest, Head(rest))
      BY <1>2, <3>1, Members
    <3>3. default = Head(rest) \/ (default = cfg.default /\ Contains(rest, cfg.default))
      BY <2>2 DEF NextDefault
    <3> QED BY <1>1, <3>1, <3>2, <3>3
  <2> QED BY <2>1, <2>2
<1>6. WithoutChannels(cfg, handles) = [channels |-> rest, default |-> default, words |-> cfg.words]
  BY DEF WithoutChannels, List
<1>7. PICK l : l = WithoutChannels(cfg, handles)
  OBVIOUS
<1>8. l.channels = rest /\ l.words = cfg.words /\ l = [channels |-> rest, default |-> default, words |-> cfg.words]
  BY <1>6, <1>7
<1>9. SoundList(l)
  BY <1>1, <1>2, <1>5, <1>8 DEF SoundList
<1> QED BY <1>4, <1>7, <1>8, <1>9

\* What a command stores is sound, and what it says follows from what the command began with.
LEMMA NextListIs ==
  ASSUME NEW j, SearchJob(j), Saves(j), NEW next, next = NextList(j)
  PROVE  /\ SoundList(next)
         /\ [channels |-> ToSet(next.channels), words |-> next.words] = AnswerTells(j)
<1> PICK cfg : cfg = j.cfg
  OBVIOUS
<1> PICK c : c = j.cmd
  OBVIOUS
<1>1. SoundList(cfg) /\ j.at \in SearchPlaces(c.kind) /\ SearchCommand(c) /\ CopyKnown(j)
  BY DEF SearchJob, SearchForm
<1>2. cfg.channels \in Seq(Channels) /\ cfg.words \in SUBSET AdWords /\ IsInjective(cfg.channels)
      /\ cfg.default \in Channels \cup {NoSearch} /\ (cfg.default = NoSearch \/ Contains(cfg.channels, cfg.default))
  BY <1>1 DEF SoundList
<1>3. \/ j.at = "add" /\ c.kind = "add" /\ j.added # {}
      \/ j.at = "lookup" /\ c.kind = "import" /\ j.added # {}
      \/ j.at = "del" /\ c.kind = "del"
      \/ j.at = "del all" /\ c.kind = "del all"
      \/ j.at = "default" /\ c.kind = "default" /\ (c.handle = NoSearch \/ Contains(cfg.channels, c.handle))
      \/ j.at = "ad add" /\ c.kind = "ad add"
      \/ j.at = "ad del" /\ c.kind = "ad del"
  BY <1>1 DEF Saves, SearchPlaces, SearchCommand, Reached, HasHandle
<1> PICK read : read = Content(j.base)
  OBVIOUS
<1>4. read = [channels |-> read.channels, words |-> read.words]
  BY DEF Content
<1>5. j.at # "lookup" => ToSet(cfg.channels) = read.channels \cup j.added /\ cfg.words = read.words
  BY <1>1 DEF CopyKnown
<1>6. j.at \notin {"add", "lookup"} => j.added = {}
  BY <1>1 DEF CopyKnown
<1>7. CASE j.at = "add" /\ c.kind = "add"
  <2>1. next = cfg /\ AnswerTells(j) = [read EXCEPT !.channels = @ \cup j.added]
    BY <1>7 DEF NextList, AnswerTells
  <2>2. AnswerTells(j) = [channels |-> read.channels \cup j.added, words |-> read.words]
    BY <1>4, <1>5, <1>7, <2>1
  <2> QED BY <1>1, <1>5, <1>7, <2>1, <2>2
<1>8. CASE j.at = "lookup" /\ c.kind = "import" /\ j.added # {}
  <2>1. next = cfg /\ AnswerTells(j) = [channels |-> j.added, words |-> DefaultWords]
    BY <1>8 DEF NextList, AnswerTells
  <2> QED BY <1>1, <1>8, <2>1 DEF CopyKnown
<1>9. CASE j.at = "del" /\ c.kind = "del"
  <2>1. next = WithoutChannels(cfg, c.handles) /\ AnswerTells(j) = [read EXCEPT !.channels = @ \ c.handles]
    BY <1>9 DEF NextList, AnswerTells
  <2>2. AnswerTells(j) = [channels |-> read.channels \ c.handles, words |-> read.words]
    BY <1>4, <1>5, <1>9, <2>1
  <2>3. SoundList(next) /\ next.words = cfg.words /\ ToSet(next.channels) = ToSet(cfg.channels) \ c.handles
    BY <1>1, <2>1, ChannelsTaken
  <2>4. ToSet(cfg.channels) = read.channels /\ cfg.words = read.words
    BY <1>5, <1>6, <1>9
  <2> QED BY <1>9, <2>2, <2>3, <2>4
<1>10. CASE j.at = "del all" /\ c.kind = "del all"
  <2> PICK none : none = <<>>
    OBVIOUS
  <2>1. next = [channels |-> none, default |-> NoSearch, words |-> cfg.words] /\ AnswerTells(j) = [read EXCEPT !.channels = {}]
    BY <1>10 DEF NextList, AnswerTells, List
  <2>2. AnswerTells(j) = [channels |-> {}, words |-> read.words]
    BY <1>4, <1>5, <1>10, <2>1
  <2>3. none \in Seq(Channels) /\ ToSet(none) = {} /\ IsInjective(none)
    BY DEF ToSet, IsInjective
  <2>4. SoundList(next)
    BY <1>2, <2>1, <2>3 DEF SoundList
  <2>5. cfg.words = read.words
    BY <1>5, <1>10
  <2>6. next.channels = none /\ next.words = cfg.words
    BY <2>1
  <2>7. [channels |-> ToSet(next.channels), words |-> next.words] = AnswerTells(j)
    BY <2>2, <2>3, <2>5, <2>6
  <2> QED BY <1>10, <2>4, <2>7
<1>11. CASE j.at = "default" /\ c.kind = "default" /\ (c.handle = NoSearch \/ Contains(cfg.channels, c.handle))
  <2>1. next = [channels |-> cfg.channels, default |-> c.handle, words |-> cfg.words] /\ AnswerTells(j) = read
    BY <1>11 DEF NextList, AnswerTells, List
  <2>2. SoundList(next)
    BY <1>1, <1>2, <1>11, <2>1 DEF SoundList, SearchCommand
  <2>3. ToSet(cfg.channels) = read.channels /\ cfg.words = read.words
    BY <1>5, <1>6, <1>11
  <2> QED BY <1>4, <1>11, <2>1, <2>2, <2>3
<1>12. CASE j.at = "ad add" /\ c.kind = "ad add"
  <2>1. next = [channels |-> cfg.channels, default |-> cfg.default, words |-> cfg.words \cup c.words]
        /\ AnswerTells(j) = [read EXCEPT !.words = @ \cup c.words]
    BY <1>12 DEF NextList, AnswerTells, List
  <2>2. AnswerTells(j) = [channels |-> read.channels, words |-> read.words \cup c.words]
    BY <1>4, <1>5, <1>12, <2>1
  <2> PICK words : words = cfg.words \cup c.words
    OBVIOUS
  <2>5. words \in SUBSET AdWords
    BY <1>1, <1>2, <1>12 DEF SearchCommand
  <2>3. SoundList(next)
    BY <1>2, <2>1, <2>5 DEF SoundList
  <2>4. ToSet(cfg.channels) = read.channels /\ cfg.words = read.words
    BY <1>5, <1>6, <1>12
  <2>6. next.channels = cfg.channels /\ next.words = cfg.words \cup c.words
    BY <2>1
  <2>7. [channels |-> ToSet(next.channels), words |-> next.words] = AnswerTells(j)
    BY <2>2, <2>4, <2>6
  <2> QED BY <1>12, <2>3, <2>7
<1>13. CASE j.at = "ad del" /\ c.kind = "ad del"
  <2>1. next = [channels |-> cfg.channels, default |-> cfg.default, words |-> cfg.words \ c.words]
        /\ AnswerTells(j) = [read EXCEPT !.words = @ \ c.words]
    BY <1>13 DEF NextList, AnswerTells, List
  <2>2. AnswerTells(j) = [channels |-> read.channels, words |-> read.words \ c.words]
    BY <1>4, <1>5, <1>13, <2>1
  <2>3. SoundList(next)
    BY <1>2, <2>1 DEF SoundList
  <2>4. ToSet(cfg.channels) = read.channels /\ cfg.words = read.words
    BY <1>5, <1>6, <1>13
  <2>6. next.channels = cfg.channels /\ next.words = cfg.words \ c.words
    BY <2>1
  <2>7. [channels |-> ToSet(next.channels), words |-> next.words] = AnswerTells(j)
    BY <2>2, <2>4, <2>6
  <2> QED BY <1>13, <2>3, <2>7
<1> QED BY <1>3, <1>7, <1>8, <1>9, <1>10, <1>11, <1>12, <1>13

LEMMA SaveStep == ASSUME SearchInv, NEW w, save(w) PROVE SearchInv'
<1> PICK j : j = searching[w]
  OBVIOUS
<1> PICK next : next = NextList(j)
  OBVIOUS
<1>1. /\ w \in DOMAIN searching /\ SearchJob(j) /\ Saves(j) /\ SearchEnds(w) /\ UNCHANGED <<searchWorld, outcomes, tempDirs>>
      /\ (list' = next /\ listed' = AnswerTells(j)) \/ UNCHANGED <<list, listed>>
  BY SearchJobIs DEF save, Busy
<1>2. w \notin tempDirs
  BY <1>1 DEF SearchInv, SearchAt, Busy, Saves
<1>3. SoundList(next) /\ [channels |-> ToSet(next.channels), words |-> next.words] = AnswerTells(j)
  BY <1>1, NextListIs
<1>4. Content(next) = [channels |-> ToSet(next.channels), words |-> next.words]
  BY <1>3, SoundForm
<1>5. list' = NoList \/ SoundList(list')
  BY <1>1, <1>3 DEF SearchInv, SoundList
<1>8. Content(list)' = listed'
  <2>1. CASE list' = next /\ listed' = AnswerTells(j)
    <3>1. Content(list)' = Content(next)
      BY <2>1 DEF Content, defaultConfig, List
    <3> QED BY <1>3, <1>4, <2>1, <3>1
  <2>2. CASE UNCHANGED <<list, listed>>
    <3>1. Content(list)' = Content(list)
      BY <2>2 DEF Content, defaultConfig, List
    <3> QED BY <2>2, <3>1 DEF SearchInv, SearchIsSound, ListIsKept
  <2> QED BY <1>1, <2>1, <2>2
<1>9. ListIsKept'
  BY <1>8 DEF ListIsKept
<1>10. OthersSearch(w) /\ w \notin DOMAIN searching' /\ DirsAreHeld(w, j)
  BY <1>1, <1>2 DEF SearchEnds, OthersSearch, DirsAreHeld
<1>11. UNCHANGED searchWorld /\ UNCHANGED <<results, ends, exports>>
  BY <1>1 DEF outcomes
<1>12. OnlyWanted' /\ NothingMissed'
  BY <1>11, ResultsStay
<1>13. results \subseteq results' /\ exports' \subseteq Seq(Channels) /\ \A e \in ends' : e.end = "deleted" => \E r \in results' : r.cfg = e.cfg
  BY <1>11 DEF SearchInv, SearchIsSound, ResultFirst
<1> QED BY <1>5, <1>9, <1>10, <1>11, <1>12, <1>13, SearchStep
-----------------------------------------------------------------------------
(* Search: the sources.                                                     *)

LEMMA OrderedMembers ==
  ASSUME NEW cfg, SoundList(cfg)
  PROVE  orderedChannels(cfg) \in Seq(Channels) /\ ToSet(orderedChannels(cfg)) = ToSet(cfg.channels)
<1> PICK channels : channels = cfg.channels
  OBVIOUS
<1> PICK one : one = {cfg.default}
  OBVIOUS
<1> PICK others : others = Channels \ one
  OBVIOUS
<1> PICK first : first = Only(channels, one)
  OBVIOUS
<1> PICK second : second = Only(channels, others)
  OBVIOUS
<1>1. channels \in Seq(Channels)
  BY DEF SoundList
<1>2. first \in Seq(Channels) /\ ToSet(first) = ToSet(channels) \cap one
  BY <1>1, OnlyMembers
<1>3. second \in Seq(Channels) /\ ToSet(second) = ToSet(channels) \cap others
  BY <1>1, OnlyMembers
<1>4. ToSet(channels) \subseteq Channels
  <2>1. \A i \in DOMAIN channels : channels[i] \in Channels
    BY <1>1
  <2> QED BY <2>1 DEF ToSet
<1>5. first \o second \in Seq(Channels) /\ ToSet(first \o second) = ToSet(first) \cup ToSet(second)
  BY <1>2, <1>3, JoinMembers
<1>6. ToSet(first) \cup ToSet(second) = ToSet(channels)
  BY <1>2, <1>3, <1>4
<1>7. orderedChannels(cfg) = first \o second
  BY DEF orderedChannels
<1> QED BY <1>5, <1>6, <1>7

LEMMA BeginStep == ASSUME SearchInv, NEW w, BeginSearch(w) PROVE SearchInv'
<1> PICK old : old = searching[w]
  OBVIOUS
<1> PICK order : order = orderedChannels(old.cfg)
  OBVIOUS
<1>1. w \in DOMAIN searching /\ SearchJob(old) /\ old.at = "search" /\ w \notin tempDirs /\ ListSame /\ UNCHANGED <<outcomes, tempDirs>>
  BY SearchJobIs DEF BeginSearch, ListSame, SearchAt
<1>2. CASE SearchEnds(w)
  BY <1>1, <1>2, SearchEndsStep
<1>3. CASE searching' = [searching EXCEPT ![w].at = "sources", ![w].todo = order]
  <2>1. PICK first : first = [old EXCEPT !.at = "sources"]
    OBVIOUS
  <2>2. PICK j : j = [first EXCEPT !.todo = order]
    OBVIOUS
  <2>3. first = [at |-> "sources", cmd |-> old.cmd, base |-> old.base, cfg |-> old.cfg, todo |-> old.todo, added |-> old.added,
                 found |-> old.found, failed |-> old.failed]
    BY <1>1, <2>1 DEF SearchJob, SearchForm
  <2>4. /\ j.at = "sources" /\ j.cmd = old.cmd /\ j.base = old.base /\ j.cfg = old.cfg /\ j.todo = order /\ j.added = old.added
        /\ j.found = old.found /\ j.failed = old.failed
        /\ j = [at |-> j.at, cmd |-> j.cmd, base |-> j.base, cfg |-> j.cfg, todo |-> j.todo, added |-> j.added,
                found |-> j.found, failed |-> j.failed]
    BY <2>2, <2>3
  <2>5. SoundList(old.cfg) /\ old.at \in SearchPlaces(old.cmd.kind) /\ SearchCommand(old.cmd) /\ CopyKnown(old) /\ SearchKnown(old)
    BY <1>1 DEF SearchJob, SearchForm
  <2>6. order \in Seq(Channels) /\ ToSet(order) = ToSet(old.cfg.channels)
    BY <2>5, OrderedMembers
  <2>7. old.cmd.kind = "search"
    BY <1>1, <2>5 DEF SearchPlaces, SearchCommand
  <2>8. SearchForm(j)
    BY <2>4, <2>5, <2>6, <2>7 DEF SearchForm, SearchPlaces
  <2>9. CopyKnown(j)
    BY <1>1, <2>4, <2>5 DEF CopyKnown
  <2>10. SearchKnown(j)
    BY <2>4, <2>5, <2>6, <2>7 DEF SearchKnown
  <2>11. SearchJob(j)
    BY <2>8, <2>9, <2>10 DEF SearchJob
  <2>12. searching' = [searching EXCEPT ![w] = j]
    BY <1>1, <1>3, <2>1, <2>2
  <2>13. DirsAreHeld(w, j)
    BY <1>1 DEF DirsAreHeld
  <2> QED BY <1>1, <2>11, <2>12, <2>13, SearchMoves
<1> QED BY <1>2, <1>3 DEF BeginSearch

\* What a source gives is of the channel or of its discussion, and all that was asked for when nothing fails.
LEMMA SourceGives ==
  ASSUME SearchWorldInv, NEW h \in Channels, NEW how, NEW fails, NEW words
  PROVE  /\ \A m \in NoAds(Videos(searchSource(h, how, fails)), words) : m.video /\ ~isAd(m, words) /\ m \in PostsOf(h)
         /\ fails = "nothing" => AskedFor(h, how, words) \subseteq NoAds(Videos(searchSource(h, how, fails)), words)
<1>1. \A m \in searchSource(h, how, fails) : m \in PostsOf(h)
  <2>1. CASE how = "preview"
    BY <2>1 DEF searchSource, PostsOf, Videos
  <2>2. CASE how # "preview"
    <3>1. searchLinkedDiscussion(h, fails) \subseteq PostsOf(h)
      <4>1. PICK with : with = (IF fails = "replies" THEN {}
                                ELSE {i \in DOMAIN searchWorld.threads[h] : Videos(searchWorld.threads[h][i]) # {}})
        OBVIOUS
      <4>2. with \in SUBSET Nat /\ with \subseteq DOMAIN searchWorld.threads[h]
        BY <4>1 DEF SearchWorldInv
      <4>3. searchLinkedDiscussion(h, fails) = IF fails = "linked" THEN {}
              ELSE IF with = {} THEN searchWorld.discussed[h] ELSE Videos(searchWorld.threads[h][Min(with)])
        BY <4>1 DEF searchLinkedDiscussion
      <4>4. with # {} => searchWorld.threads[h][Min(with)] \in Range(searchWorld.threads[h])
        BY <4>2, LeastNumber DEF Range
      <4>5. \A set \in Range(searchWorld.threads[h]) : Videos(set) \subseteq PostsOf(h)
        BY DEF PostsOf, Videos
      <4>6. searchWorld.discussed[h] \subseteq PostsOf(h)
        BY DEF PostsOf
      <4> QED BY <4>3, <4>4, <4>5, <4>6
    <3>2. \A m \in Matching(h) : m \in searchWorld.posts[h] /\ Album(m, searchWorld.posts[h]) \subseteq searchWorld.posts[h]
      BY DEF Matching, Album
    <3>3. Videos(UNION {IF m.group # 0 /\ fails = "albums" THEN {} ELSE Album(m, searchWorld.posts[h]) : m \in Matching(h)})
            \subseteq searchWorld.posts[h]
      BY <3>2 DEF Videos
    <3> QED BY <2>2, <3>1, <3>3 DEF searchSource, PostsOf
  <2> QED BY <2>1, <2>2
<1>2. ASSUME fails = "nothing", NEW m \in AskedFor(h, how, words)
      PROVE  m \in Videos(searchSource(h, how, fails)) /\ ~isAd(m, words)
  <2>1. m \in searchWorld.posts[h] /\ m.video /\ ~isAd(m, words)
    BY <1>2 DEF AskedFor
  <2>2. CASE how = "preview"
    BY <1>2, <2>1, <2>2 DEF AskedFor, searchSource, Videos
  <2>3. CASE how # "preview"
    <3>1. PICK n \in Matching(h) : n = m \/ (n.group # 0 /\ n.group = m.group)
      BY <1>2, <2>3 DEF AskedFor
    <3>2. m \in Album(n, searchWorld.posts[h])
      BY <2>1, <3>1 DEF Album
    <3>3. m \in Videos(UNION {IF k.group # 0 /\ fails = "albums" THEN {} ELSE Album(k, searchWorld.posts[h]) : k \in Matching(h)})
      BY <1>2, <2>1, <3>1, <3>2 DEF Videos
    <3>4. m \in searchSource(h, how, fails)
      BY <2>3, <3>3 DEF searchSource
    <3> QED BY <2>1, <3>4 DEF Videos
  <2> QED BY <2>2, <2>3
<1>3. \A m \in NoAds(Videos(searchSource(h, how, fails)), words) : m.video /\ ~isAd(m, words) /\ m \in PostsOf(h)
  BY <1>1 DEF NoAds, Videos
<1>4. fails = "nothing" => AskedFor(h, how, words) \subseteq NoAds(Videos(searchSource(h, how, fails)), words)
  BY <1>2 DEF NoAds
<1> QED BY <1>3, <1>4

LEMMA ReadStep == ASSUME SearchInv, NEW w, ReadSource(w) PROVE SearchInv'
<1> PICK old : old = searching[w]
  OBVIOUS
<1> PICK h : h = Head(old.todo)
  OBVIOUS
<1> PICK rest : rest = Tail(old.todo)
  OBVIOUS
<1> PICK how : how = old.cmd.how
  OBVIOUS
<1> PICK words : words = old.cfg.words
  OBVIOUS
<1>1. \E fails \in {"nothing", "linked", "replies", "albums", "source"} : \E videos :
        /\ videos = (IF fails = "source" THEN {} ELSE NoAds(Videos(searchSource(h, how, fails)), words))
        /\ searching' = [searching EXCEPT ![w].found = old.found \cup videos,
             ![w].failed = old.failed \cup (IF fails = "nothing" THEN {} ELSE {h}),
             ![w].todo = IF how = "best" /\ old.found \cup videos # {} THEN <<>> ELSE rest]
        /\ w \in DOMAIN searching /\ SearchJob(old) /\ old.at = "sources" /\ old.todo # <<>> /\ w \notin tempDirs
        /\ ListSame /\ UNCHANGED <<outcomes, tempDirs>>
  <2>1. w \in DOMAIN searching /\ SearchJob(old) /\ old.at = "sources" /\ w \notin tempDirs
    BY SearchJobIs DEF ReadSource, SearchAt
  <2>2. PICK fails \in {"nothing", "linked", "replies", "albums", "source"} :
          /\ searching[w].todo # <<>>
          /\ LET j == searching[w]
                 g == Head(j.todo)
                 videos == IF fails = "source" THEN {} ELSE NoAds(Videos(searchSource(g, j.cmd.how, fails)), j.cfg.words)
                 found == j.found \cup videos IN
               searching' = [searching EXCEPT ![w].found = found,
                 ![w].failed = @ \cup (IF fails = "nothing" THEN {} ELSE {g}),
                 ![w].todo = IF j.cmd.how = "best" /\ found # {} THEN <<>>
                             ELSE IF fails = "source" THEN NextSource(@) ELSE Tail(@)]
          /\ UNCHANGED <<searchWorld, list, listed, outcomes, tempDirs, leftDirs>>
    BY DEF ReadSource
  <2>3. PICK videos : videos = IF fails = "source" THEN {} ELSE NoAds(Videos(searchSource(h, how, fails)), words)
    OBVIOUS
  <2>4. searching' = [searching EXCEPT ![w].found = old.found \cup videos,
             ![w].failed = old.failed \cup (IF fails = "nothing" THEN {} ELSE {h}),
             ![w].todo = IF how = "best" /\ old.found \cup videos # {} THEN <<>> ELSE rest]
    BY <2>1, <2>2, <2>3 DEF NextSource
  <2>5. ListSame /\ UNCHANGED <<outcomes, tempDirs>> /\ old.todo # <<>>
    BY <2>2 DEF ListSame
  <2>6. /\ videos = (IF fails = "source" THEN {} ELSE NoAds(Videos(searchSource(h, how, fails)), words))
        /\ searching' = [searching EXCEPT ![w].found = old.found \cup videos,
             ![w].failed = old.failed \cup (IF fails = "nothing" THEN {} ELSE {h}),
             ![w].todo = IF how = "best" /\ old.found \cup videos # {} THEN <<>> ELSE rest]
        /\ w \in DOMAIN searching /\ SearchJob(old) /\ old.at = "sources" /\ old.todo # <<>> /\ w \notin tempDirs
        /\ ListSame /\ UNCHANGED <<outcomes, tempDirs>>
    BY <2>1, <2>3, <2>4, <2>5
  <2>7. fails \in {"nothing", "linked", "replies", "albums", "source"}
    BY <2>2
  <2> HIDE DEF SearchJob
  <2>8. \E v :
          /\ v = (IF fails = "source" THEN {} ELSE NoAds(Videos(searchSource(h, how, fails)), words))
          /\ searching' = [searching EXCEPT ![w].found = old.found \cup v,
               ![w].failed = old.failed \cup (IF fails = "nothing" THEN {} ELSE {h}),
               ![w].todo = IF how = "best" /\ old.found \cup v # {} THEN <<>> ELSE rest]
          /\ w \in DOMAIN searching /\ SearchJob(old) /\ old.at = "sources" /\ old.todo # <<>> /\ w \notin tempDirs
          /\ ListSame /\ UNCHANGED <<outcomes, tempDirs>>
    BY ONLY <2>6, Zenon
  <2> QED BY ONLY <2>7, <2>8, Zenon
<1>0. PICK fails \in {"nothing", "linked", "replies", "albums", "source"} : \E videos :
        /\ videos = (IF fails = "source" THEN {} ELSE NoAds(Videos(searchSource(h, how, fails)), words))
        /\ searching' = [searching EXCEPT ![w].found = old.found \cup videos,
             ![w].failed = old.failed \cup (IF fails = "nothing" THEN {} ELSE {h}),
             ![w].todo = IF how = "best" /\ old.found \cup videos # {} THEN <<>> ELSE rest]
        /\ w \in DOMAIN searching /\ SearchJob(old) /\ old.at = "sources" /\ old.todo # <<>> /\ w \notin tempDirs
        /\ ListSame /\ UNCHANGED <<outcomes, tempDirs>>
  BY <1>1
<1>2. PICK videos :
        /\ videos = (IF fails = "source" THEN {} ELSE NoAds(Videos(searchSource(h, how, fails)), words))
        /\ searching' = [searching EXCEPT ![w].found = old.found \cup videos,
             ![w].failed = old.failed \cup (IF fails = "nothing" THEN {} ELSE {h}),
             ![w].todo = IF how = "best" /\ old.found \cup videos # {} THEN <<>> ELSE rest]
        /\ w \in DOMAIN searching /\ SearchJob(old) /\ old.at = "sources" /\ old.todo # <<>> /\ w \notin tempDirs
        /\ ListSame /\ UNCHANGED <<outcomes, tempDirs>>
  BY <1>0
<1> PICK found : found = old.found \cup videos
  OBVIOUS
<1> PICK failed : failed = old.failed \cup (IF fails = "nothing" THEN {} ELSE {h})
  OBVIOUS
<1> PICK todo : todo = (IF how = "best" /\ found # {} THEN <<>> ELSE rest)
  OBVIOUS
<1>3. PICK j : j = [at |-> "sources", cmd |-> old.cmd, base |-> old.base, cfg |-> old.cfg, todo |-> todo, added |-> old.added,
                     found |-> found, failed |-> failed]
  OBVIOUS
<1>4. /\ j.at = "sources" /\ j.cmd = old.cmd /\ j.base = old.base /\ j.cfg = old.cfg /\ j.todo = todo /\ j.added = old.added
      /\ j.found = found /\ j.failed = failed
      /\ j = [at |-> j.at, cmd |-> j.cmd, base |-> j.base, cfg |-> j.cfg, todo |-> j.todo, added |-> j.added,
              found |-> j.found, failed |-> j.failed]
  BY ONLY <1>3
<1>5. /\ SoundList(old.cfg) /\ old.at \in SearchPlaces(old.cmd.kind) /\ SearchCommand(old.cmd) /\ CopyKnown(old) /\ SearchKnown(old)
      /\ old.todo \in Seq(Channels)
  BY <1>2 DEF SearchJob, SearchForm
<1>6. h \in Channels /\ rest \in Seq(Channels) /\ ToSet(old.todo) = {h} \cup ToSet(rest)
  BY <1>2, <1>5, TailMembers
<1>7. todo \in Seq(Channels) /\ ToSet(todo) \subseteq ToSet(rest)
  <2>1. CASE how = "best" /\ found # {}
    <3>1. todo = <<>> /\ <<>> \in Seq(Channels) /\ ToSet(<<>>) = {}
      BY <2>1 DEF ToSet
    <3> QED BY <3>1
  <2>2. CASE ~ (how = "best" /\ found # {})
    BY <1>6, <2>2
  <2> QED BY <2>1, <2>2
<1>8. h \in ToSet(old.cfg.channels) /\ ToSet(rest) \subseteq ToSet(old.cfg.channels)
  BY <1>2, <1>5, <1>6 DEF SearchKnown
<1>9. /\ \A m \in videos : m.video /\ ~isAd(m, words) /\ m \in PostsOf(h)
      /\ fails = "nothing" => AskedFor(h, how, words) \subseteq videos
  <2>1. SearchWorldInv
    BY DEF SearchInv
  <2>2. /\ \A m \in NoAds(Videos(searchSource(h, how, fails)), words) : m.video /\ ~isAd(m, words) /\ m \in PostsOf(h)
        /\ fails = "nothing" => AskedFor(h, how, words) \subseteq NoAds(Videos(searchSource(h, how, fails)), words)
    BY ONLY <1>6, <2>1, SourceGives
  <2> QED BY <1>2, <2>2
<1>10. SearchForm(j)
  BY <1>2, <1>4, <1>5, <1>7 DEF SearchForm
<1>11. CopyKnown(j)
  BY <1>2, <1>4, <1>5 DEF CopyKnown
<1>12. SearchKnown(j)
  <2>1. old.cmd.kind = "search"
    BY <1>2, <1>5 DEF SearchPlaces, SearchCommand
  <2>2. \A m \in found : WantedBy(m, old.cfg)
    <3>1. \A m \in old.found : WantedBy(m, old.cfg)
      BY <1>5 DEF SearchKnown
    <3>2. \A m \in videos : WantedBy(m, old.cfg)
      BY <1>8, <1>9 DEF WantedBy
    <3> QED BY <3>1, <3>2
  <2>3. ASSUME found = {} \/ how # "best", NEW g \in ToSet(old.cfg.channels)
        PROVE  g \in ToSet(todo) \cup failed \/ AskedFor(g, how, words) \subseteq found
    <3>1. todo = rest /\ (old.found = {} \/ how # "best")
      BY <2>3
    <3>2. g \in {h} \cup ToSet(rest) \cup old.failed \/ AskedFor(g, how, words) \subseteq old.found
      BY <1>2, <1>5, <1>6, <2>3, <3>1 DEF SearchKnown
    <3>3. CASE g = h
      <4>1. CASE fails = "nothing"
        BY <1>9, <3>3, <4>1
      <4>2. CASE fails # "nothing"
        BY <3>3, <4>2
      <4> QED BY <4>1, <4>2
    <3> QED BY <3>1, <3>2, <3>3
  <2> QED BY <1>4, <1>7, <1>8, <2>1, <2>2, <2>3 DEF SearchKnown
<1>13. SearchJob(j)
  BY <1>10, <1>11, <1>12 DEF SearchJob
<1>14. searching' = [searching EXCEPT ![w] = j]
  <2>1. PICK first : first = [old EXCEPT !.found = found]
    OBVIOUS
  <2>2. PICK second : second = [first EXCEPT !.failed = failed]
    OBVIOUS
  <2>3. old = [at |-> "sources", cmd |-> old.cmd, base |-> old.base, cfg |-> old.cfg, todo |-> old.todo, added |-> old.added,
               found |-> old.found, failed |-> old.failed]
    BY <1>2 DEF SearchJob, SearchForm
  <2>4. first = [at |-> "sources", cmd |-> old.cmd, base |-> old.base, cfg |-> old.cfg, todo |-> old.todo, added |-> old.added,
                 found |-> found, failed |-> old.failed]
    BY ONLY <2>1, <2>3
  <2>5. second = [at |-> "sources", cmd |-> old.cmd, base |-> old.base, cfg |-> old.cfg, todo |-> old.todo, added |-> old.added,
                  found |-> found, failed |-> failed]
    BY ONLY <2>2, <2>4
  <2>6. j = [second EXCEPT !.todo = todo]
    BY ONLY <1>3, <2>5
  <2>7. searching' = [searching EXCEPT ![w].found = found, ![w].failed = failed, ![w].todo = todo]
    BY <1>2
  <2>8. w \in DOMAIN searching /\ old = searching[w]
    BY <1>2
  <2> QED BY ONLY <2>1, <2>2, <2>6, <2>7, <2>8
<1>15. DirsAreHeld(w, j)
  BY <1>2 DEF DirsAreHeld
<1> QED BY <1>2, <1>13, <1>14, <1>15, SearchMoves

LEMMA SelectStep == ASSUME SearchInv, NEW w, Select(w) PROVE SearchInv'
<1> PICK old : old = searching[w]
  OBVIOUS
<1> PICK how : how = old.cmd.how
  OBVIOUS
<1>1. /\ w \in DOMAIN searching /\ SearchJob(old) /\ old.at = "sources" /\ old.todo = <<>> /\ w \notin tempDirs
      /\ ListSame /\ UNCHANGED <<results, exports, tempDirs>>
  BY SearchJobIs DEF Select, SearchAt, ListSame
<1>2. CopyKnown(old) /\ SearchKnown(old) /\ old.cmd.kind = "search" /\ SearchCommand(old.cmd) /\ ToSet(old.todo) = {}
  <2>1. CopyKnown(old) /\ SearchKnown(old) /\ SearchCommand(old.cmd)
    BY <1>1 DEF SearchJob, SearchForm
  <2>2. old.cmd.kind = "search"
    BY <1>1 DEF SearchJob, SearchForm, SearchPlaces, SearchCommand
  <2>3. ToSet(<<>>) = {}
    BY DEF ToSet
  <2> QED BY <1>1, <2>1, <2>2, <2>3
<1>3. CASE old.found = {}
  <2>1. PICK e : e = SearchEnd(w, "none")
    OBVIOUS
  <2>2. e.end = "none" /\ e.how = how /\ e.cfg = old.cfg /\ e.failed = old.failed
    BY <2>1 DEF SearchEnd
  <2>3. SearchEnds(w) /\ ends' = ends \cup {e}
    BY <1>3, <2>1 DEF Select
  <2>4. \A g \in ToSet(old.cfg.channels) \ old.failed : AskedFor(g, how, old.cfg.words) = {}
    BY <1>1, <1>2, <1>3 DEF SearchKnown
  <2>5. \A g, hw, words : AskedFor(g, hw, words)' = AskedFor(g, hw, words)
    BY <1>1 DEF ListSame, AskedFor, Matching
  <2>6. NothingMissed'
    BY <2>2, <2>3, <2>4, <2>5 DEF NothingMissed, SearchInv, SearchIsSound
  <2>7. OnlyWanted'
    BY <1>1 DEF SearchInv, SearchIsSound, OnlyWanted, PostsOf, ListSame
  <2>8. \A f \in ends' : f.end = "deleted" => \E r \in results' : r.cfg = f.cfg
    BY <1>1, <2>2, <2>3 DEF SearchInv, SearchIsSound, ResultFirst
  <2>9. OthersSearch(w) /\ w \notin DOMAIN searching' /\ DirsAreHeld(w, old)
    BY <1>1, <2>3 DEF SearchEnds, OthersSearch, DirsAreHeld
  <2>10. exports' \subseteq Seq(Channels) /\ results \subseteq results'
    BY <1>1 DEF SearchInv
  <2> QED BY <1>1, <2>6, <2>7, <2>8, <2>9, <2>10, ListSameStays, SearchStep
<1>4. CASE old.found # {}
  <2>1. \E m \in old.found, at \in {"download", "forward"} : searching' = [searching EXCEPT ![w].at = at, ![w].found = {m}]
    <3>1. Best(old.found) \subseteq old.found
      BY DEF Best
    <3>2. \E m \in IF old.cmd.how = "best" THEN Best(old.found) ELSE old.found :
            searching' = [searching EXCEPT ![w].at = IF old.cmd.spoiler THEN "download" ELSE "forward", ![w].found = {m}]
      BY <1>4 DEF Select
    <3>3. (IF old.cmd.spoiler THEN "download" ELSE "forward") \in {"download", "forward"}
      OBVIOUS
    <3> QED BY <3>1, <3>2, <3>3
  <2>2. PICK m \in old.found, at \in {"download", "forward"} : searching' = [searching EXCEPT ![w].at = at, ![w].found = {m}]
    BY <2>1
  <2>3. PICK first : first = [old EXCEPT !.at = at]
    OBVIOUS
  <2>4. PICK j : j = [first EXCEPT !.found = {m}]
    OBVIOUS
  <2>5. first = [at |-> at, cmd |-> old.cmd, base |-> old.base, cfg |-> old.cfg, todo |-> old.todo, added |-> old.added,
                 found |-> old.found, failed |-> old.failed]
    BY <1>1, <2>3 DEF SearchJob, SearchForm
  <2>6. /\ j.at = at /\ j.cmd = old.cmd /\ j.base = old.base /\ j.cfg = old.cfg /\ j.todo = old.todo /\ j.added = old.added
        /\ j.found = {m} /\ j.failed = old.failed
        /\ j = [at |-> j.at, cmd |-> j.cmd, base |-> j.base, cfg |-> j.cfg, todo |-> j.todo, added |-> j.added,
                found |-> j.found, failed |-> j.failed]
    BY ONLY <2>4, <2>5
  <2>7. SearchForm(j)
    BY <1>1, <1>2, <2>6 DEF SearchJob, SearchForm, SearchPlaces
  <2>8. CopyKnown(j)
    BY <1>1, <1>2, <2>6 DEF CopyKnown
  <2>9. SearchKnown(j)
    BY <1>1, <1>2, <2>6 DEF SearchKnown
  <2>10. SearchJob(j)
    BY <2>7, <2>8, <2>9 DEF SearchJob
  <2>11. searching' = [searching EXCEPT ![w] = j]
    BY <1>1, <2>2, <2>3, <2>4
  <2>12. DirsAreHeld(w, j) /\ UNCHANGED outcomes
    BY <1>1, <1>4 DEF DirsAreHeld, Select, outcomes
  <2> QED BY <1>1, <2>10, <2>11, <2>12, SearchMoves
<1> QED BY <1>3, <1>4
-----------------------------------------------------------------------------
(* Search: the result.                                                      *)

\* The step to a place behind the choice; what is sent is wanted.
LEMMA SentStep ==
  ASSUME SearchInv, NEW w, NEW old, old = searching[w], w \in DOMAIN searching, SearchJob(old),
         old.at \in {"forward", "copy", "download", "upload"}, NEW at \in {"copy", "upload", "delete"},
         ResultSent(w) \/ (UNCHANGED results /\ at # "delete"), SearchGo(w, at),
         \A v \in tempDirs' : v = w \/ v \in tempDirs, w \in tempDirs' => at = "upload",
         ListSame, UNCHANGED <<ends, exports>>
  PROVE  SearchInv'
<1>1. PICK j : j = [old EXCEPT !.at = at]
  OBVIOUS
<1>2. /\ j.at = at /\ j.cmd = old.cmd /\ j.base = old.base /\ j.cfg = old.cfg /\ j.todo = old.todo /\ j.added = old.added
      /\ j.found = old.found /\ j.failed = old.failed
      /\ j = [at |-> j.at, cmd |-> j.cmd, base |-> j.base, cfg |-> j.cfg, todo |-> j.todo, added |-> j.added,
              found |-> j.found, failed |-> j.failed]
  BY <1>1 DEF SearchJob, SearchForm
<1>3. /\ SoundList(old.cfg) /\ old.at \in SearchPlaces(old.cmd.kind) /\ SearchCommand(old.cmd) /\ CopyKnown(old) /\ SearchKnown(old)
      /\ old.todo \in Seq(Channels) /\ old.found # {}
  BY DEF SearchJob, SearchForm, SearchKnown
<1>4. old.cmd.kind = "search"
  BY <1>3 DEF SearchPlaces, SearchCommand
<1>5. searching' = [searching EXCEPT ![w] = j] /\ searching'[w] = j
  BY <1>1 DEF SearchGo
<1>6. /\ \A r \in results' : r \in results \/ (r.video \in old.found /\ r.cfg = old.cfg)
      /\ results \subseteq results' /\ (at = "delete" => \E r \in results' : r.cfg = old.cfg)
  <2>1. CASE UNCHANGED results /\ at # "delete"
    BY <2>1
  <2>2. CASE ResultSent(w)
    <3>1. results' = results \cup {[video |-> m, cfg |-> old.cfg] : m \in old.found}
      BY <2>2 DEF ResultSent
    <3>2. PICK m : m \in old.found
      BY <1>3
    <3>3. PICK sent : sent = [video |-> m, cfg |-> old.cfg]
      OBVIOUS
    <3>4. sent \in results' /\ sent.cfg = old.cfg
      BY <3>1, <3>2, <3>3
    <3>5. \A r \in results' : r \in results \/ (r.video \in old.found /\ r.cfg = old.cfg)
      BY <3>1
    <3>6. results \subseteq results'
      BY <3>1
    <3> QED BY <3>4, <3>5, <3>6
  <2> QED BY <2>1, <2>2
<1>7. UNCHANGED searchWorld /\ (\A m, cfg : WantedBy(m, cfg)' <=> WantedBy(m, cfg))
  BY DEF WantedBy, PostsOf, ListSame
<1>8. OnlyWanted'
  <2>1. \A r \in results : WantedBy(r.video, r.cfg)
    BY DEF SearchInv, SearchIsSound, OnlyWanted, WantedBy
  <2>2. \A m \in old.found : WantedBy(m, old.cfg)
    BY <1>3 DEF SearchKnown
  <2>3. \A r \in results' : WantedBy(r.video, r.cfg)'
    BY <1>6, <1>7, <2>1, <2>2
  <2> QED BY <2>3 DEF OnlyWanted, WantedBy
<1>9. NothingMissed'
  <2>1. \A h, how, words : AskedFor(h, how, words)' = AskedFor(h, how, words)
    BY <1>7 DEF AskedFor, Matching
  <2> QED BY <2>1 DEF SearchInv, SearchIsSound, NothingMissed
<1>10. \A e \in ends' : e.end = "deleted" => \E r \in results' : r.cfg = e.cfg
  BY <1>6 DEF SearchInv, SearchIsSound, ResultFirst
<1>11. SearchForm(j)
  BY <1>2, <1>3, <1>4 DEF SearchForm, SearchPlaces
<1>12. CopyKnown(j)
  BY <1>2, <1>3 DEF CopyKnown
<1>13. SearchForm(j)' /\ CopyKnown(j)'
  BY <1>11, <1>12 DEF SearchForm, CopyKnown, SearchCommand
<1>14. SearchKnown(j)'
  <2>1. \A m \in old.found : WantedBy(m, old.cfg)'
    BY <1>3, <1>7 DEF SearchKnown
  <2> QED BY <1>2, <1>3, <1>4, <1>6, <2>1 DEF SearchKnown
<1>15. SearchJob(j)'
  BY <1>13, <1>14 DEF SearchJob
<1>16. OthersSearch(w) /\ DirsAreHeld(w, j) /\ w \in DOMAIN searching'
  BY <1>2, <1>5 DEF OthersSearch, DirsAreHeld
<1>17. exports' \subseteq Seq(Channels)
  BY DEF SearchInv
<1> QED BY <1>5, <1>6, <1>7, <1>8, <1>9, <1>10, <1>15, <1>16, <1>17, ListSameStays, SearchStep

LEMMA ForwardStep == ASSUME SearchInv, NEW w, Forward(w) PROVE SearchInv'
<1> PICK old : old = searching[w]
  OBVIOUS
<1>1. w \in DOMAIN searching /\ SearchJob(old) /\ old.at = "forward" /\ w \notin tempDirs
      /\ ListSame /\ UNCHANGED <<ends, exports>> /\ UNCHANGED tempDirs
  BY SearchJobIs DEF Forward, SearchAt, ListSame
<1>2. \/ ResultSent(w) /\ SearchGo(w, "delete")
      \/ SearchGo(w, "copy") /\ (ResultSent(w) \/ UNCHANGED results)
  BY DEF Forward
<1>3. /\ \A v \in tempDirs' : v = w \/ v \in tempDirs
      /\ w \notin tempDirs'
  BY <1>1
<1>4. CASE ResultSent(w) /\ SearchGo(w, "delete")
  BY <1>1, <1>3, <1>4, SentStep
<1>5. CASE SearchGo(w, "copy") /\ (ResultSent(w) \/ UNCHANGED results)
  BY <1>1, <1>3, <1>5, SentStep
<1> QED BY <1>2, <1>4, <1>5

LEMMA CopyStep == ASSUME SearchInv, NEW w, CopyMessage(w) PROVE SearchInv'
<1> PICK old : old = searching[w]
  OBVIOUS
<1>1. w \in DOMAIN searching /\ SearchJob(old) /\ old.at = "copy" /\ w \notin tempDirs
      /\ ListSame /\ UNCHANGED <<ends, exports>> /\ UNCHANGED tempDirs /\ ResultSent(w) /\ SearchGo(w, "delete")
  BY SearchJobIs DEF CopyMessage, SearchAt, ListSame
<1>2. /\ \A v \in tempDirs' : v = w \/ v \in tempDirs
      /\ w \notin tempDirs'
  BY <1>1
<1> QED BY <1>1, <1>2, SentStep

LEMMA DownloadStep == ASSUME SearchInv, NEW w, DownloadVideo(w) PROVE SearchInv'
<1> PICK old : old = searching[w]
  OBVIOUS
<1>1. w \in DOMAIN searching /\ SearchJob(old) /\ old.at = "download" /\ tempDirs' = tempDirs \cup {w}
      /\ ListSame /\ UNCHANGED <<ends, exports>> /\ UNCHANGED results /\ SearchGo(w, "upload")
  BY SearchJobIs DEF DownloadVideo, SearchAt, ListSame, outcomes
<1>2. \A v \in tempDirs' : v = w \/ v \in tempDirs
  BY <1>1
<1> QED BY <1>1, <1>2, SentStep

LEMMA UploadStep == ASSUME SearchInv, NEW w, UploadVideo(w) PROVE SearchInv'
<1> PICK old : old = searching[w]
  OBVIOUS
<1>1. w \in DOMAIN searching /\ SearchJob(old) /\ old.at = "upload" /\ tempDirs' = tempDirs \ {w}
      /\ ListSame /\ UNCHANGED <<ends, exports>> /\ ResultSent(w) /\ SearchGo(w, "delete")
  BY SearchJobIs DEF UploadVideo, SearchAt, ListSame, Busy
<1>2. /\ \A v \in tempDirs' : v = w \/ v \in tempDirs
      /\ w \notin tempDirs'
  BY <1>1
<1> QED BY <1>1, <1>2, SentStep

LEMMA DeleteStep == ASSUME SearchInv, NEW w, deleteCommand(w) PROVE SearchInv'
<1> PICK old : old = searching[w]
  OBVIOUS
<1> PICK e : e = SearchEnd(w, "deleted")
  OBVIOUS
<1>1. /\ w \in DOMAIN searching /\ SearchJob(old) /\ old.at = "delete" /\ w \notin tempDirs
      /\ ListSame /\ UNCHANGED <<results, exports, tempDirs>> /\ SearchEnds(w) /\ ends' = ends \cup {e}
  BY SearchJobIs DEF deleteCommand, SearchAt, ListSame
<1>2. e.end = "deleted" /\ e.cfg = old.cfg
  BY DEF SearchEnd
<1>3. \E r \in results : r.cfg = old.cfg
  BY <1>1 DEF SearchJob, SearchKnown
<1>4. \A f \in ends' : f.end = "deleted" => \E r \in results' : r.cfg = f.cfg
  <2>1. \A f \in ends : f.end = "deleted" => \E r \in results : r.cfg = f.cfg
    BY DEF SearchInv, SearchIsSound, ResultFirst
  <2> QED BY <1>1, <1>2, <1>3, <2>1
<1>5. NothingMissed'
  <2>1. \A h, how, words : AskedFor(h, how, words)' = AskedFor(h, how, words)
    BY <1>1 DEF ListSame, AskedFor, Matching
  <2>2. NothingMissed /\ e.end # "none"
    BY <1>2 DEF SearchInv, SearchIsSound
  <2> QED BY <1>1, <2>1, <2>2 DEF NothingMissed
<1>6. OnlyWanted'
  BY <1>1 DEF SearchInv, SearchIsSound, OnlyWanted, PostsOf, ListSame
<1>7. OthersSearch(w) /\ w \notin DOMAIN searching' /\ DirsAreHeld(w, old)
  BY <1>1 DEF SearchEnds, OthersSearch, DirsAreHeld
<1>8. exports' \subseteq Seq(Channels) /\ results \subseteq results'
  BY <1>1 DEF SearchInv
<1> QED BY <1>1, <1>4, <1>5, <1>6, <1>7, <1>8, ListSameStays, SearchStep
-----------------------------------------------------------------------------
(* Search: every step, and the theorems.                                    *)

LEMMA SearchStart == ASSUME NEW world \in SearchWorlds, SearchInit(world) PROVE SearchInv
<1>1. /\ searchWorld = world /\ list = world.list /\ listed = Content(list) /\ exports = world.files
      /\ DOMAIN searching = {} /\ results = {} /\ ends = {} /\ tempDirs = {}
  BY DEF SearchInit, SearchIdle
<1>2. /\ world.list = NoList \/ SoundList(world.list)
      /\ world.files \subseteq Seq(Channels)
      /\ \A h \in Channels : DOMAIN world.threads[h] \subseteq Nat
      /\ \A c \in world.commands : SearchCommand(c)
  BY SearchAssumption DEF SearchCommand
<1>3. SearchWorldInv
  BY <1>1, <1>2 DEF SearchWorldInv
<1>4. list = NoList \/ SoundList(list)
  BY <1>1, <1>2
<1>5. SearchIsSound
  BY <1>1, <1>4 DEF SearchIsSound, ListIsSound, SoundList, ListIsKept, OnlyWanted, NothingMissed, ResultFirst
<1> QED BY <1>1, <1>2, <1>3, <1>4, <1>5 DEF SearchInv

LEMMA SearchStays == ASSUME SearchInv, UNCHANGED searchVars PROVE SearchInv'
<1>1. UNCHANGED <<searchWorld, list, listed, searching, results, ends, exports, tempDirs>>
  BY DEF searchVars
<1>2. ListSame /\ UNCHANGED outcomes /\ UNCHANGED <<searching, tempDirs>> /\ UNCHANGED searchWorld /\ UNCHANGED results
  BY <1>1 DEF ListSame, outcomes
<1>3. SearchWorldInv'
  BY <1>2 DEF SearchInv, SearchWorldInv, SearchCommand
<1>4. /\ list' = NoList \/ SoundList(list')
      /\ ListIsKept' /\ exports' \subseteq Seq(Channels) /\ OnlyWanted' /\ NothingMissed'
      /\ \A e \in ends' : e.end = "deleted" => \E r \in results' : r.cfg = e.cfg
  BY <1>2, ListSameStays, OutcomesStay
<1>5. ASSUME NEW v \in DOMAIN searching' PROVE SearchJob(searching[v])'
  <2> PICK k : k = searching[v]
    OBVIOUS
  <2>1. searching'[v] = k /\ SearchJob(k)
    BY <1>2, <1>5 DEF SearchInv
  <2>2. SearchJob(k)'
    BY <1>2, <2>1, SearchJobStays
  <2> QED BY <2>1, <2>2
<1>6. \A v \in tempDirs' : SearchAt(v, "send export")' \/ SearchAt(v, "upload")'
  BY <1>2 DEF SearchInv, SearchAt, Busy
<1>7. ListIsSound' /\ ResultFirst'
  BY <1>4, <1>6 DEF ListIsSound, SoundList, ResultFirst, SearchAt, Busy
<1> QED BY <1>3, <1>4, <1>5, <1>6, <1>7 DEF SearchInv, SearchIsSound

LEMMA SearchNextStep == ASSUME SearchInv, SearchNext PROVE SearchInv'
<1>1. CASE SearchRestarts
  BY <1>1, SearchRestartsStep
<1>2. ASSUME NEW w \in Searchers,
        \/ load(w) \/ SearchFails(w) \/ ResolveTarget(w) \/ ImportConfig(w) \/ NothingReached(w) \/ save(w)
        \/ NoSuchDefault(w) \/ ExportList(w) \/ SendExport(w)
      PROVE SearchInv'
  BY <1>2, LoadStep, SearchFailsStep, ResolveStep, ImportStep, NothingReachedStep, SaveStep, NoSuchDefaultStep,
     ExportStep, SendExportStep
<1>3. ASSUME NEW w \in Searchers,
        \/ BeginSearch(w) \/ ReadSource(w) \/ Select(w) \/ Forward(w) \/ CopyMessage(w) \/ DownloadVideo(w) \/ UploadVideo(w)
        \/ deleteCommand(w)
      PROVE SearchInv'
  BY <1>3, BeginStep, ReadStep, SelectStep, ForwardStep, CopyStep, DownloadStep, UploadStep, DeleteStep
<1> QED BY <1>1, <1>2, <1>3 DEF SearchNext

\* Whatever the owner types and whatever fails, the invariant of the search plugin holds.
THEOREM SearchInvariance == SearchSpec => []SearchInv
<1>1. (\E world \in SearchWorlds : SearchInit(world)) => SearchInv
  BY SearchStart
<1>2. SearchInv /\ [SearchNext]_searchVars => SearchInv'
  BY SearchStays, SearchNextStep
<1> QED BY <1>1, <1>2, PTL DEF SearchSpec

\* The stored list can be searched and is what the owner was told, only wanted videos are sent, none is missed, and a
\* command is only removed after its result (SearchIsSound).
THEOREM SearchSound == SearchSpec => []SearchIsSound
<1>1. SearchInv => SearchIsSound
  BY DEF SearchInv
<1> QED BY <1>1, SearchInvariance, PTL
-----------------------------------------------------------------------------
(* Moderation: the invariant.                                               *)

TalkInv ==
  /\ lastID \in Nat /\ IsFiniteSet(talk) /\ IsFiniteSet(managed)
  /\ \A m \in talk : m.id \in 1 .. lastID /\ \A n \in talk : n.id = m.id => n = m
ModCommand(c) ==
  /\ c.kind \in {"range", "recent", "switch", "moderate", "super", "refresh"}
  /\ c.kind = "recent" => c.count \in Nat
  /\ c.kind = "switch" => c.on \in BOOLEAN
ModPlaces(kind) ==
  IF kind = "range" THEN {"range", "collect", "delete"}
  ELSE IF kind = "recent" THEN {"recent", "delete"}
  ELSE IF kind = "switch" THEN {"switch"}
  ELSE IF kind = "moderate" THEN {"moderate", "history", "act"}
  ELSE IF kind = "super" THEN {"super", "list", "cache", "batch"} ELSE {"refresh", "list", "cache"}
ModForm(j) ==
  /\ j = [at |-> j.at, cmd |-> j.cmd, id |-> j.id, on |-> j.on, others |-> j.others, unread |-> j.unread, offset |-> j.offset,
          ids |-> j.ids, chats |-> j.chats, inflight |-> j.inflight, success |-> j.success, failed |-> j.failed,
          read |-> j.read, need |-> j.need, behind |-> j.behind]
  /\ j.cmd \in modWorld.commands /\ j.at \in ModPlaces(j.cmd.kind)
  /\ j.on \in BOOLEAN /\ j.others \in BOOLEAN /\ j.unread \in BOOLEAN /\ j.behind \in BOOLEAN
  /\ j.read \in Nat /\ j.need \in Nat
\* The command is the owner's own message; no number is given twice.
OwnCommand(j) ==
  /\ j.id \in 1 .. lastID /\ \A m \in talk : m.id = j.id => m.from = "me"
  /\ \A i \in j.ids : i \in 1 .. j.id
RangeJob(j) ==
  j.cmd.kind = "range" =>
    /\ j.others => j.on \/ j.unread
    /\ j.at = "range" => (mode # FALSE => j.on)
    /\ j.at = "delete" => \A m \in talk : m.id \in j.ids /\ m.from # "me" => j.others
\* What is below the offset is still to be looked at, and above it nothing of the owner's is left out.
RecentJob(j) ==
  j.cmd.kind = "recent" =>
    /\ IsFiniteSet(j.ids) /\ \A m \in talk : m.id \in j.ids => m.from = "me"
    /\ j.at = "recent" =>
         /\ j.offset \in 1 .. j.id /\ \A i \in j.ids : j.offset <= i
         /\ \A m \in talk : m.from = "me" /\ m.id < j.id /\ m.id >= j.offset => m.id \in j.ids
    /\ j.at = "delete" =>
         /\ j.id \in j.ids
         /\ \A i \in j.ids, m \in talk : m.from = "me" /\ m.id < j.id /\ m.id > i => m.id \in j.ids
\* Each chat of the list is in one state.
BatchJob(j) ==
  /\ IsFiniteSet(j.chats) /\ j.inflight \cup j.success \cup j.failed \subseteq j.chats
  /\ j.inflight \cap j.success = {} /\ j.inflight \cap j.failed = {} /\ j.success \cap j.failed = {}
  /\ j.at # "batch" => j.inflight = {} /\ j.success = {} /\ j.failed = {}
\* While a list is renewed there is none, or one that may be old.
RefreshJob(j) ==
  /\ j.need <= renewed
  /\ j.cmd.kind = "refresh" /\ j.at \in {"list", "cache"} => cache = NoMod \/ oldBack
  /\ j.at = "cache" => j.read <= reading
  /\ j.at = "cache" \/ j.at = "batch" => (j.read < j.need => j.behind)
ModJob(j) == ModForm(j) /\ OwnCommand(j) /\ RangeJob(j) /\ RecentJob(j) /\ BatchJob(j) /\ RefreshJob(j)
CacheInv ==
  /\ oldBack \in BOOLEAN /\ reading \in Nat /\ renewed \in Nat /\ renewed <= reading
  /\ cache # NoMod =>
       /\ cache = [chats |-> cache.chats, read |-> cache.read, fresh |-> cache.fresh]
       /\ IsFiniteSet(cache.chats) /\ cache.read \in Nat
       /\ cache.read < renewed => oldBack
ModInv ==
  /\ \A c \in modWorld.commands : ModCommand(c)
  /\ mode \in BOOLEAN \cup {NoMod} /\ TalkInv /\ CacheInv
  /\ modding = [w \in Moderators |-> modding[w]]
  /\ \A w \in Moderators : modding[w] # NoMod => ModJob(modding[w])
  /\ ModerationIsSound
\* What a step does to the chat: messages go, new ones have new numbers.
TalkMoves == lastID' \in Nat /\ lastID <= lastID' /\ \A m \in talk' : m \in talk \/ m.id > lastID

LEMMA ModStart == ASSUME NEW world \in ModWorlds, ModInit(world) PROVE ModInv
<1>1. /\ modWorld = world /\ talk = world.talk /\ lastID = world.last /\ managed = world.managed
      /\ mode = NoMod /\ cache = NoMod /\ reading = 0 /\ renewed = 0 /\ oldBack = FALSE
      /\ modding = [w \in Moderators |-> NoMod] /\ deleted = {} /\ reports = {}
  BY DEF ModInit
<1>2. \A c \in modWorld.commands : ModCommand(c)
  BY <1>1, ModAssumption DEF ModCommand
<1>3. TalkInv
  BY <1>1, ModAssumption DEF TalkInv
<1>4. CacheInv /\ mode \in BOOLEAN \cup {NoMod}
  <2>1. mode \in BOOLEAN \cup {NoMod}
    BY <1>1
  <2>2. oldBack \in BOOLEAN
    BY <1>1
  <2>3. reading \in Nat /\ renewed \in Nat /\ renewed <= reading /\ cache = NoMod
    BY <1>1
  <2> QED BY <2>1, <2>2, <2>3 DEF CacheInv
<1>5. ModerationIsSound
  BY <1>1 DEF ModerationIsSound, OthersSpared, OwnAreTaken, RefreshHolds, CountsAddUp
<1>6. modding = [w \in Moderators |-> modding[w]] /\ \A w \in Moderators : modding[w] = NoMod
  BY <1>1
<1> QED BY <1>2, <1>3, <1>4, <1>5, <1>6 DEF ModInv

LEMMA JobStays ==
  ASSUME NEW j, ModJob(j), TalkInv, TalkInv', TalkMoves, UNCHANGED <<modWorld, mode>>, RefreshJob(j)'
  PROVE  ModJob(j)'
<1>1. ModForm(j)' /\ BatchJob(j)'
  BY DEF ModJob, ModForm, BatchJob
<1>2. OwnCommand(j)'
  BY DEF ModJob, OwnCommand, TalkMoves, TalkInv
<1>3. \A m \in talk' : m.id <= j.id => m \in talk
  BY DEF ModJob, OwnCommand, TalkMoves, TalkInv
<1>4. \A i \in j.ids : i \in 1 .. j.id
  BY DEF ModJob, OwnCommand
<1>5. RangeJob(j)'
  <2>1. RangeJob(j) /\ mode' = mode
    BY DEF ModJob
  <2>2. j.cmd.kind = "range" => (j.at = "range" => (mode' # FALSE => j.on)) /\ (j.others => j.on \/ j.unread)
    BY <2>1, Zenon DEF RangeJob
  <2>3. \A m \in talk' : m.id \in j.ids => m \in talk
    BY <1>3, <1>4
  <2>4. j.cmd.kind = "range" /\ j.at = "delete" => \A m \in talk' : m.id \in j.ids /\ m.from # "me" => j.others
    BY <2>1, <2>3, Zenon DEF RangeJob
  <2> QED BY <2>2, <2>4, Zenon DEF RangeJob
<1>6. RecentJob(j)'
  <2>1. \A m \in talk' : m.id \in j.ids => m \in talk
    BY <1>3, <1>4 DEF ModJob, OwnCommand
  <2>2. \A m \in talk' : m.id < j.id => m \in talk
    BY <1>3 DEF ModJob, OwnCommand, TalkMoves, TalkInv
  <2> QED BY <2>1, <2>2 DEF ModJob, RecentJob
<1> QED BY <1>1, <1>2, <1>5, <1>6 DEF ModJob

\* A step of a worker that leaves the switch alone.
LEMMA ModStep ==
  ASSUME ModInv, NEW w \in Moderators, NEW j, modding' = [modding EXCEPT ![w] = j], UNCHANGED <<modWorld, mode>>,
         TalkInv', TalkMoves, CacheInv', j # NoMod => ModJob(j)',
         \A v \in Moderators \ {w} : modding[v] # NoMod => RefreshJob(modding[v])',
         ModerationIsSound'
  PROVE  ModInv'
<1>1. /\ modding' = [v \in Moderators |-> modding'[v]] /\ modding'[w] = j
      /\ \A v \in Moderators \ {w} : modding'[v] = modding[v]
  BY DEF ModInv
<1>2. ASSUME NEW v \in Moderators, modding'[v] # NoMod PROVE ModJob(modding[v])' 
  <2>1. CASE v = w
    <3>1. ModJob(j)'
      BY <1>1, <1>2, <2>1
    <3> QED BY <1>1, <2>1, <3>1, Zenon
  <2>2. CASE v # w
    <3> PICK k : k = modding[v]
      OBVIOUS
    <3>1. modding'[v] = k /\ ModJob(k) /\ RefreshJob(k)'
      BY <1>1, <1>2, <2>2 DEF ModInv
    <3>2. ModJob(k)'
      BY <3>1, JobStays DEF ModInv
    <3> QED BY <3>1, <3>2
  <2> QED BY <2>1, <2>2
<1>3. (\A c \in modWorld.commands : ModCommand(c))' /\ mode' \in BOOLEAN \cup {NoMod}
  BY DEF ModInv, ModCommand
<1> QED BY <1>1, <1>2, <1>3 DEF ModInv
ChatSame == UNCHANGED <<talk, lastID, managed>>
LEMMA ChatStays == ASSUME TalkInv, ChatSame PROVE TalkInv' /\ TalkMoves
  BY DEF TalkInv, ChatSame, TalkMoves
LEMMA ListStays == ASSUME CacheInv, UNCHANGED chatLists PROVE CacheInv' /\ \A j : RefreshJob(j) => RefreshJob(j)'
  BY DEF CacheInv, chatLists, RefreshJob
LEMMA SoundStays == ASSUME ModerationIsSound, UNCHANGED <<deleted, reports>> PROVE ModerationIsSound'
  BY DEF ModerationIsSound, OthersSpared, OwnAreTaken, RefreshHolds, CountsAddUp

\* A step that changes nothing but what a worker is at.
LEMMA QuietModStep ==
  ASSUME ModInv, NEW w \in Moderators, NEW j, modding' = [modding EXCEPT ![w] = j], j # NoMod => ModJob(j),
         ChatSame, UNCHANGED <<modWorld, mode, chatLists, deleted, reports>>
  PROVE  ModInv'
<1>1. TalkInv' /\ TalkMoves /\ CacheInv' /\ ModerationIsSound'
  BY ChatStays, ListStays, SoundStays DEF ModInv
<1>2. ASSUME NEW k, k # NoMod, ModJob(k) PROVE RefreshJob(k)'
  BY <1>2, ListStays DEF ModInv, ModJob
<1>3. j # NoMod => ModJob(j)'
  BY <1>1, <1>2, JobStays DEF ModInv
<1>4. ASSUME NEW v \in Moderators \ {w}, modding[v] # NoMod PROVE RefreshJob(modding[v])'
  <2> PICK k : k = modding[v]
    OBVIOUS
  <2>1. modding'[v] = k /\ RefreshJob(k)'
    BY <1>2, <1>4 DEF ModInv
  <2> QED BY <2>1
<1> QED BY <1>1, <1>3, <1>4, ModStep

LEMMA ModEndsStep ==
  ASSUME ModInv, NEW w \in Moderators, ModEnds(w), ChatSame, UNCHANGED <<modWorld, mode, chatLists, deleted, reports>>
  PROVE  ModInv'
  BY QuietModStep DEF ModEnds

\* What a worker's job is.
LEMMA ModJobIs ==
  ASSUME ModInv, NEW w \in Moderators, NEW at, ModAt(w, at)
  PROVE  ModJob(modding[w]) /\ modding[w].at = at /\ modding[w] # NoMod /\ ModCommand(modding[w].cmd)
  BY DEF ModInv, ModAt, ModJob, ModForm
-----------------------------------------------------------------------------
(* Moderation: the steps of the commands.                                   *)

LEMMA JobFields ==
  ASSUME NEW old, NEW at, NEW j, ModForm(old), at \in ModPlaces(old.cmd.kind), j = [old EXCEPT !.at = at]
  PROVE  /\ ModForm(j) /\ j.at = at /\ j.cmd = old.cmd /\ j.id = old.id /\ j.on = old.on /\ j.others = old.others
         /\ j.unread = old.unread /\ j.offset = old.offset /\ j.ids = old.ids /\ j.chats = old.chats
         /\ j.inflight = old.inflight /\ j.success = old.success /\ j.failed = old.failed /\ j.read = old.read
         /\ j.need = old.need /\ j.behind = old.behind
<1>1. /\ j.at = at /\ j.cmd = old.cmd /\ j.id = old.id /\ j.on = old.on /\ j.others = old.others
      /\ j.unread = old.unread /\ j.offset = old.offset /\ j.ids = old.ids /\ j.chats = old.chats
      /\ j.inflight = old.inflight /\ j.success = old.success /\ j.failed = old.failed /\ j.read = old.read
      /\ j.need = old.need /\ j.behind = old.behind
      /\ j = [at |-> j.at, cmd |-> j.cmd, id |-> j.id, on |-> j.on, others |-> j.others, unread |-> j.unread, offset |-> j.offset,
               ids |-> j.ids, chats |-> j.chats, inflight |-> j.inflight, success |-> j.success, failed |-> j.failed,
               read |-> j.read, need |-> j.need, behind |-> j.behind]
  BY DEF ModForm
<1> QED BY <1>1 DEF ModForm

\* A step to a place where the job has nothing more to show.
LEMMA ModGoes ==
  ASSUME NEW old, NEW at, NEW j, ModJob(old), at \in ModPlaces(old.cmd.kind), j = [old EXCEPT !.at = at],
         at \notin {"delete", "cache", "recent", "range"}, old.at # "batch", at = "batch" => old.at = "cache",
         at = "list" /\ old.cmd.kind = "refresh" => cache = NoMod \/ oldBack
  PROVE  ModJob(j)
<1>1. /\ ModForm(j) /\ j.at = at /\ j.cmd = old.cmd /\ j.id = old.id /\ j.on = old.on /\ j.others = old.others
      /\ j.unread = old.unread /\ j.offset = old.offset /\ j.ids = old.ids /\ j.chats = old.chats
      /\ j.inflight = old.inflight /\ j.success = old.success /\ j.failed = old.failed /\ j.read = old.read
      /\ j.need = old.need /\ j.behind = old.behind
  BY JobFields DEF ModJob
<1>2. OwnCommand(j)
  BY <1>1 DEF ModJob, OwnCommand
<1>3. RangeJob(j)
  BY <1>1, Zenon DEF ModJob, RangeJob
<1>4. RecentJob(j)
  BY <1>1 DEF ModJob, RecentJob
<1>5. BatchJob(j)
  BY <1>1 DEF ModJob, BatchJob
<1>6. RefreshJob(j)
  BY <1>1 DEF ModJob, RefreshJob
<1> QED BY <1>1, <1>2, <1>3, <1>4, <1>5, <1>6 DEF ModJob

LEMMA ModGoStep ==
  ASSUME ModInv, NEW w \in Moderators, NEW from, NEW at, ModAt(w, from), ModGo(w, at), at \in ModPlaces(modding[w].cmd.kind),
         at \notin {"delete", "cache", "recent", "range"}, from # "batch", at = "batch" => from = "cache",
         at = "list" /\ modding[w].cmd.kind = "refresh" => cache = NoMod \/ oldBack,
         ChatSame, UNCHANGED <<modWorld, mode, chatLists, deleted, reports>>
  PROVE  ModInv'
<1> PICK old : old = modding[w]
  OBVIOUS
<1> PICK j : j = [old EXCEPT !.at = at]
  OBVIOUS
<1>1. ModJob(old) /\ old.at = from
  BY ModJobIs
<1>2. ModJob(j)
  BY <1>1, ModGoes
<1>3. modding' = [modding EXCEPT ![w] = j]
  BY DEF ModGo
<1> QED BY <1>2, <1>3, QuietModStep

LEMMA ModHandleStep == ASSUME ModInv, NEW w \in Moderators, ModHandle(w) PROVE ModInv'
<1> PICK next : next = lastID + 1
  OBVIOUS
<1>1. PICK c \in modWorld.commands :
        modding' = [modding EXCEPT ![w] =
          [at |-> c.kind, cmd |-> c, id |-> next, on |-> mode # FALSE, others |-> FALSE, unread |-> FALSE, offset |-> next,
           ids |-> {}, chats |-> {}, inflight |-> {}, success |-> {}, failed |-> {}, read |-> 0, need |-> renewed,
           behind |-> FALSE]]
  BY DEF ModHandle, Writes
<1> PICK on \in BOOLEAN : on = (mode # FALSE)
  OBVIOUS
<1>2. PICK j : j = [at |-> c.kind, cmd |-> c, id |-> next, on |-> on, others |-> FALSE, unread |-> FALSE, offset |-> next,
                    ids |-> {}, chats |-> {}, inflight |-> {}, success |-> {}, failed |-> {}, read |-> 0, need |-> renewed,
                    behind |-> FALSE]
  OBVIOUS
<1>3. modding' = [modding EXCEPT ![w] = j]
  BY <1>1, <1>2
<1>4. /\ lastID' = next /\ talk' = talk \cup {[id |-> next, from |-> "me"]}
      /\ UNCHANGED <<modWorld, managed, mode, chatLists, deleted, reports>>
  BY DEF ModHandle, Writes, people
<1>5. TalkInv' /\ TalkMoves
  <2>1. IsFiniteSet(talk')
    BY <1>4, FS_AddElement DEF ModInv, TalkInv
  <2> QED BY <1>4, <2>1 DEF ModInv, TalkInv, TalkMoves
<1>6. CacheInv' /\ ModerationIsSound' /\ (\A k : RefreshJob(k) => RefreshJob(k)')
  BY <1>4, ListStays, SoundStays DEF ModInv
<1>7. ModForm(j)'
  <2>1. ModCommand(c) /\ c \in modWorld'.commands
    BY <1>4 DEF ModInv
  <2>2. /\ j.at = c.kind /\ j.cmd = c /\ j.on = on /\ j.others = FALSE /\ j.unread = FALSE /\ j.behind = FALSE
        /\ j.read = 0 /\ j.need = renewed
        /\ j = [at |-> j.at, cmd |-> j.cmd, id |-> j.id, on |-> j.on, others |-> j.others, unread |-> j.unread, offset |-> j.offset,
               ids |-> j.ids, chats |-> j.chats, inflight |-> j.inflight, success |-> j.success, failed |-> j.failed,
               read |-> j.read, need |-> j.need, behind |-> j.behind]
    BY <1>2
  <2>3. j.at \in ModPlaces(j.cmd.kind)
    BY <2>1, <2>2 DEF ModCommand, ModPlaces
  <2>4. renewed \in Nat
    BY DEF ModInv, CacheInv
  <2>5. j.on \in BOOLEAN /\ j.others \in BOOLEAN /\ j.unread \in BOOLEAN /\ j.behind \in BOOLEAN
    BY <2>2
  <2>6. j.read \in Nat /\ j.need \in Nat /\ j.cmd \in modWorld'.commands
    BY <2>1, <2>2, <2>4
  <2>7. ModPlaces(j.cmd.kind)' = ModPlaces(j.cmd.kind)
    BY DEF ModPlaces
  <2> QED BY <2>2, <2>3, <2>5, <2>6, <2>7, Zenon DEF ModForm
<1>8. OwnCommand(j)'
  <2>1. j.id = next /\ j.ids = {}
    BY <1>2
  <2> QED BY <1>4, <2>1 DEF OwnCommand, ModInv, TalkInv
<1>9. RangeJob(j)'
  <2>1. j.others = FALSE /\ j.on = on /\ j.ids = {} /\ mode' = mode
    BY <1>2, <1>4
  <2> QED BY <2>1 DEF RangeJob
<1>10. RecentJob(j)'
  <2>1. j.id = next /\ j.ids = {} /\ j.offset = next /\ j.at = j.cmd.kind
    BY <1>2
  <2>2. IsFiniteSet({})
    BY FS_EmptySet
  <2> QED BY <1>4, <1>5, <2>1, <2>2 DEF RecentJob, ModInv, TalkInv
<1>11. BatchJob(j)'
  BY <1>2, FS_EmptySet DEF BatchJob
<1>12. RefreshJob(j)'
  <2>1. j.need = renewed /\ j.at = c.kind /\ renewed' = renewed /\ renewed \in Nat
    BY <1>2, <1>4 DEF chatLists, ModInv, CacheInv
  <2>2. c.kind \notin {"list", "cache", "batch"}
    BY DEF ModInv, ModCommand
  <2> QED BY <2>1, <2>2 DEF RefreshJob
<1>13. ModJob(j)'
  BY <1>7, <1>8, <1>9, <1>10, <1>11, <1>12 DEF ModJob
<1>14. ASSUME NEW v \in Moderators \ {w}, modding[v] # NoMod PROVE RefreshJob(modding[v])'
  <2> PICK k : k = modding[v]
    OBVIOUS
  <2>1. modding'[v] = k /\ RefreshJob(k)'
    BY <1>3, <1>6, <1>14 DEF ModInv, ModJob
  <2> QED BY <2>1
<1> QED BY <1>3, <1>4, <1>5, <1>6, <1>13, <1>14, ModStep
LEMMA CollectJob ==
  ASSUME NEW old, ModJob(old), old.at = "range", NEW others \in BOOLEAN, NEW unread \in BOOLEAN, others => old.on \/ unread,
         NEW first, first = [old EXCEPT !.at = "collect"], NEW j, j = [first EXCEPT !.others = others, !.unread = unread]
  PROVE  ModJob(j)
<1>1. old.cmd.kind = "range"
  BY DEF ModJob, ModForm, ModPlaces
<1>2. ModJob(first)
  BY <1>1, ModGoes DEF ModPlaces
<1>3. first.at = "collect" /\ first.cmd = old.cmd
  BY DEF ModJob, ModForm
<1>4. /\ j.at = "collect" /\ j.cmd = first.cmd /\ j.id = first.id /\ j.on = first.on /\ j.others = others
      /\ j.unread = unread /\ j.offset = first.offset /\ j.ids = first.ids /\ j.chats = first.chats
      /\ j.inflight = first.inflight /\ j.success = first.success /\ j.failed = first.failed /\ j.read = first.read
      /\ j.need = first.need /\ j.behind = first.behind /\ j.on = old.on
      /\ j = [at |-> j.at, cmd |-> j.cmd, id |-> j.id, on |-> j.on, others |-> j.others, unread |-> j.unread, offset |-> j.offset,
               ids |-> j.ids, chats |-> j.chats, inflight |-> j.inflight, success |-> j.success, failed |-> j.failed,
               read |-> j.read, need |-> j.need, behind |-> j.behind]
  BY <1>2, <1>3 DEF ModJob, ModForm
<1>5. ModForm(j)
  <2>1. ModForm(first)
    BY <1>2 DEF ModJob
  <2> QED BY <1>1, <1>3, <1>4, <2>1 DEF ModForm, ModPlaces
<1>6. OwnCommand(j)
  BY <1>2, <1>4 DEF ModJob, OwnCommand
<1>7. RangeJob(j)
  BY <1>4, Zenon DEF RangeJob
<1>8. RecentJob(j)
  BY <1>1, <1>3, <1>4 DEF RecentJob
<1>9. BatchJob(j) /\ RefreshJob(j)
  BY <1>2, <1>3, <1>4 DEF ModJob, BatchJob, RefreshJob
<1> QED BY <1>5, <1>6, <1>7, <1>8, <1>9 DEF ModJob

LEMMA LoadModeStep == ASSUME ModInv, NEW w \in Moderators, loadMode(w) PROVE ModInv'
<1> PICK old : old = modding[w]
  OBVIOUS
<1> PICK first : first = [old EXCEPT !.at = "collect"]
  OBVIOUS
<1>1. ModJob(old) /\ old.at = "range" /\ ChatSame /\ UNCHANGED <<modWorld, mode, chatLists, deleted, reports>>
  BY ModJobIs DEF loadMode, ChatSame, people
<1>2. old.cmd.kind = "range"
  BY <1>1 DEF ModJob, ModForm, ModPlaces
<1>3. old.on \in BOOLEAN /\ (mode # FALSE => old.on)
  BY <1>1, <1>2, Zenon DEF ModJob, ModForm, RangeJob
<1>4. CASE ModGo(w, "collect")
  BY <1>1, <1>2, <1>4, ModGoStep DEF loadMode, ModPlaces
<1>5. ASSUME NEW others \in BOOLEAN, NEW unread \in BOOLEAN, others => old.on \/ unread,
             modding' = [modding EXCEPT ![w] = [first EXCEPT !.others = others, !.unread = unread]]
      PROVE ModInv'
  <2>1. PICK j : j = [first EXCEPT !.others = others, !.unread = unread]
    OBVIOUS
  <2>2. ModJob(j)
    BY <1>1, <1>5, <2>1, CollectJob
  <2>3. modding' = [modding EXCEPT ![w] = j]
    BY <1>5, <2>1
  <2> QED BY <1>1, <2>2, <2>3, QuietModStep
<1>6. CASE modding' = [modding EXCEPT ![w].at = "collect", ![w].others = DeletesOthers(mode, Here \in managed)]
  <2>1. PICK others \in BOOLEAN : others = DeletesOthers(mode, Here \in managed)
    BY DEF DeletesOthers
  <2>2. PICK no \in BOOLEAN : no = old.unread
    BY <1>1 DEF ModJob, ModForm
  <2>3. others => old.on
    BY <1>3, <2>1, Zenon DEF DeletesOthers
  <2>4. modding' = [modding EXCEPT ![w] = [first EXCEPT !.others = others, !.unread = no]]
    <3>1. first.unread = no /\ [first EXCEPT !.others = others] = [first EXCEPT !.others = others, !.unread = no]
      <4>1. first = [at |-> first.at, cmd |-> first.cmd, id |-> first.id, on |-> first.on, others |-> first.others,
               unread |-> first.unread, offset |-> first.offset, ids |-> first.ids, chats |-> first.chats,
               inflight |-> first.inflight, success |-> first.success, failed |-> first.failed,
               read |-> first.read, need |-> first.need, behind |-> first.behind] /\ first.unread = old.unread
        BY <1>1 DEF ModJob, ModForm
      <4> QED BY <2>2, <4>1
    <3>2. modding' = [modding EXCEPT ![w] = [first EXCEPT !.others = others]]
      BY <1>6, <2>1
    <3> QED BY <3>1, <3>2
  <2> QED BY <1>5, <2>3, <2>4
<1>7. CASE modding' = [modding EXCEPT ![w].at = "collect", ![w].others = Here \in managed, ![w].unread = TRUE]
  <2>0. (Here \in managed) \in BOOLEAN
    OBVIOUS
  <2>1. PICK others : others = (Here \in managed)
    OBVIOUS
  <2>2. PICK yes \in BOOLEAN : yes = TRUE
    OBVIOUS
  <2>3. modding' = [modding EXCEPT ![w] = [first EXCEPT !.others = others, !.unread = yes]]
    BY <1>7, <2>1, <2>2
  <2>4. others \in BOOLEAN
    BY <2>0, <2>1
  <2> QED BY <1>5, <2>2, <2>3, <2>4
<1> QED BY <1>4, <1>6, <1>7 DEF loadMode

LEMMA DeleteRangeStep == ASSUME ModInv, NEW w \in Moderators, deleteRange(w) PROVE ModInv'
<1> PICK old : old = modding[w]
  OBVIOUS
<1> DEFINE range == ChatPage({m \in talk : m.id >= old.cmd.reply /\ m.id <= old.id})
           found == Ids({m \in range : old.others \/ m.from = "me"})
<1> PICK ids : ids = found
  OBVIOUS
<1>1. ModJob(old) /\ old.at = "collect" /\ ChatSame /\ UNCHANGED <<modWorld, mode, chatLists, deleted, reports>>
  BY ModJobIs DEF deleteRange, ChatSame, people
<1>2. old.cmd.kind = "range"
  BY <1>1 DEF ModJob, ModForm, ModPlaces
<1>3. \A i \in ids : \E m \in talk : m.id = i /\ m.id <= old.id /\ (old.others \/ m.from = "me")
  BY DEF Ids, ChatPage, Newest
<1>4. CASE ModEnds(w)
  BY <1>1, <1>4, ModEndsStep
<1>5. CASE modding' = [modding EXCEPT ![w].at = "delete", ![w].ids = ids \cup {old.id}]
  <2> PICK first : first = [old EXCEPT !.at = "delete"]
    OBVIOUS
  <2> PICK j : j = [first EXCEPT !.ids = ids \cup {old.id}]
    OBVIOUS
  <2>1. modding' = [modding EXCEPT ![w] = j]
    BY <1>5
  <2>2. /\ j.at = "delete" /\ j.cmd = old.cmd /\ j.id = old.id /\ j.on = old.on /\ j.others = old.others
        /\ j.unread = old.unread /\ j.ids = ids \cup {old.id} /\ j.chats = old.chats
        /\ j.inflight = old.inflight /\ j.success = old.success /\ j.failed = old.failed /\ j.read = old.read
        /\ j.need = old.need /\ j.behind = old.behind
        /\ j = [at |-> j.at, cmd |-> j.cmd, id |-> j.id, on |-> j.on, others |-> j.others, unread |-> j.unread, offset |-> j.offset,
                 ids |-> j.ids, chats |-> j.chats, inflight |-> j.inflight, success |-> j.success, failed |-> j.failed,
                 read |-> j.read, need |-> j.need, behind |-> j.behind]
    BY <1>1 DEF ModJob, ModForm
  <2>3. ModForm(j)
    <3>1. ModForm(old)
      BY <1>1 DEF ModJob
    <3> QED BY <1>2, <2>2, <3>1 DEF ModForm, ModPlaces
  <2>4. OwnCommand(j)
    BY <1>1, <1>3, <2>2 DEF ModJob, OwnCommand, ModInv, TalkInv
  <2>5. RangeJob(j)
    <3>1. ASSUME NEW m \in talk, m.id \in j.ids, m.from # "me" PROVE j.others
      <4>1. m.id # old.id
        BY <1>1, <3>1 DEF ModJob, OwnCommand
      <4>2. PICK n \in talk : n.id = m.id /\ (old.others \/ n.from = "me")
        BY <1>3, <2>2, <3>1, <4>1
      <4>3. n = m
        BY <4>2 DEF ModInv, TalkInv
      <4> QED BY <2>2, <3>1, <4>2, <4>3
    <3>2. RangeJob(old)
      BY <1>1 DEF ModJob
    <3> QED BY <1>2, <2>2, <3>1, <3>2, Zenon DEF RangeJob
  <2>6. RecentJob(j)
    BY <1>2, <2>2 DEF RecentJob
  <2>7. BatchJob(j) /\ RefreshJob(j)
    BY <1>1, <2>2 DEF ModJob, BatchJob, RefreshJob
  <2>8. ModJob(j)
    BY <2>3, <2>4, <2>5, <2>6, <2>7 DEF ModJob
  <2> QED BY <1>1, <2>1, <2>8, QuietModStep
<1>6. ModEnds(w) \/ modding' = [modding EXCEPT ![w].at = "delete", ![w].ids = ids \cup {old.id}]
  BY DEF deleteRange
<1> QED BY <1>4, <1>5, <1>6
-----------------------------------------------------------------------------
(* Moderation: the newest messages of a set.                                *)

Newer(messages, m) == {n \in messages : n.id > m.id}
NewestOf(messages, count) == {m \in messages : Cardinality(Newer(messages, m)) < count}

\* What is newer than one of them is one of them.
LEMMA NewestGoUp ==
  ASSUME NEW messages, IsFiniteSet(messages), \A m \in messages : m.id \in Nat, NEW count \in Int,
         NEW low \in NewestOf(messages, count), NEW m \in messages, m.id >= low.id
  PROVE  m \in NewestOf(messages, count)
<1>1. Newer(messages, m) \subseteq Newer(messages, low) /\ Newer(messages, low) \subseteq messages
  BY DEF Newer, NewestOf
<1>2. IsFiniteSet(Newer(messages, low))
  BY <1>1, FS_Subset
<1>3. Cardinality(Newer(messages, m)) <= Cardinality(Newer(messages, low))
  BY <1>1, <1>2, FS_Subset
<1>4. Cardinality(Newer(messages, m)) \in Nat /\ Cardinality(Newer(messages, low)) \in Nat
  BY <1>1, <1>2, FS_Subset, FS_CardinalityType
<1> QED BY <1>3, <1>4 DEF NewestOf

\* When there are more messages, they are as many as were asked for.
LEMMA NewestAreEnough ==
  ASSUME NEW messages, IsFiniteSet(messages), \A m \in messages : m.id \in Nat, NEW count \in Int,
         NEW left \in messages, left \notin NewestOf(messages, count)
  PROVE  Cardinality(NewestOf(messages, count)) >= count
<1> DEFINE rest == messages \ NewestOf(messages, count)
           ranks == {Cardinality(Newer(messages, m)) : m \in rest}
<1>1. \A m \in messages : IsFiniteSet(Newer(messages, m)) /\ Cardinality(Newer(messages, m)) \in Nat
  <2> TAKE m \in messages
  <2>1. IsFiniteSet(Newer(messages, m))
    BY FS_Subset DEF Newer
  <2> QED BY <2>1, FS_CardinalityType
<1>2. ranks \in SUBSET Nat /\ ranks # {}
  BY <1>1
<1>3. PICK m \in rest : Cardinality(Newer(messages, m)) = Min(ranks)
  BY <1>2, LeastNumber
<1>4. ASSUME NEW n \in Newer(messages, m) PROVE n \in NewestOf(messages, count)
  <2>1. n \in messages /\ n.id > m.id /\ n.id \in Nat /\ m.id \in Nat
    BY DEF Newer
  <2>2. Newer(messages, n) \subseteq Newer(messages, m) /\ n \notin Newer(messages, n)
    BY <2>1 DEF Newer
  <2>3. Cardinality(Newer(messages, n)) < Cardinality(Newer(messages, m))
    <3>1. Cardinality(Newer(messages, n)) <= Cardinality(Newer(messages, m))
          /\ (Cardinality(Newer(messages, m)) = Cardinality(Newer(messages, n)) => Newer(messages, m) = Newer(messages, n))
      BY <1>1, <2>2, FS_Subset
    <3> QED BY <1>1, <1>4, <2>1, <2>2, <3>1
  <2>4. n \notin rest
    <3>1. n \in rest => Min(ranks) <= Cardinality(Newer(messages, n))
      BY <1>2, LeastNumber
    <3> QED BY <1>1, <1>3, <2>1, <2>3, <3>1
  <2> QED BY <2>1, <2>4
<1>5. Newer(messages, m) \subseteq NewestOf(messages, count) /\ NewestOf(messages, count) \subseteq messages
  BY <1>4 DEF NewestOf
<1>6. IsFiniteSet(NewestOf(messages, count))
  BY <1>5, FS_Subset
<1>7. Cardinality(Newer(messages, m)) <= Cardinality(NewestOf(messages, count)) /\ Cardinality(NewestOf(messages, count)) \in Nat
  BY <1>5, <1>6, FS_Subset, FS_CardinalityType
<1>8. ~ (Cardinality(Newer(messages, m)) < count) /\ Cardinality(Newer(messages, m)) \in Nat
  BY <1>1 DEF NewestOf
<1> QED BY <1>7, <1>8

\* Messages have as many numbers.
LEMMA IdsCount ==
  ASSUME NEW messages, IsFiniteSet(messages), \A m, n \in messages : m.id = n.id => m = n
  PROVE  IsFiniteSet(Ids(messages)) /\ Cardinality(Ids(messages)) = Cardinality(messages)
<1> DEFINE f == [m \in messages |-> m.id]
<1>1. f \in Surjection(messages, Ids(messages))
  BY DEF Surjection, Ids
<1>2. f \in Injection(messages, Ids(messages))
  <2>1. f \in [messages -> Ids(messages)]
    BY DEF Ids
  <2>2. \A m, n \in messages : f[m] = f[n] => m = n
    OBVIOUS
  <2> QED BY <2>1, <2>2 DEF Injection, IsInjective
<1> QED BY <1>1, <1>2, FS_Surjection

Below(offset) == {m \in talk : m.id < offset}
OfOwner(messages) == {m \in messages : m.from = "me"}
\* What a page adds to the owner's numbers: nothing of the owner's above its end is left out.
PageBelow(offset) == ChatPage(Below(offset))
TakenBelow(offset, missing) == NewestOf(OfOwner(PageBelow(offset)), missing)
LEMMA RecentPage ==
  ASSUME TalkInv, NEW ids, IsFiniteSet(ids), NEW offset \in Nat, \A i \in ids : i \in Nat /\ offset <= i, NEW count \in Nat,
         NEW new, new = ids \cup Ids(TakenBelow(offset, count - Cardinality(ids)))
  PROVE  /\ IsFiniteSet(new) /\ PageBelow(offset) \subseteq Below(offset)
         /\ TakenBelow(offset, count - Cardinality(ids)) \subseteq OfOwner(PageBelow(offset))
         /\ \A i \in new \ ids, m \in talk : m.from = "me" /\ m.id < offset /\ m.id > i => m.id \in new
         /\ Cardinality(new) < count =>
              \A low \in PageBelow(offset), m \in talk : m.from = "me" /\ m.id < offset /\ m.id >= low.id => m.id \in new
<1> PICK base : base = Below(offset)
  OBVIOUS
<1> PICK page : page = PageBelow(offset)
  OBVIOUS
<1> PICK mine : mine = OfOwner(page)
  OBVIOUS
<1> PICK taken : taken = NewestOf(mine, count - Cardinality(ids))
  OBVIOUS
<1>9. page = PageBelow(offset) /\ base = Below(offset) /\ taken = TakenBelow(offset, count - Cardinality(ids))
      /\ mine = OfOwner(PageBelow(offset)) /\ new = ids \cup Ids(taken)
  BY DEF TakenBelow
<1>0. \A m : m \in base <=> m \in talk /\ m.id < offset
  BY DEF Below
<1>1. /\ base \subseteq talk /\ page \subseteq base /\ mine \subseteq page /\ taken \subseteq mine /\ IsFiniteSet(talk)
      /\ \A m \in talk : m.id \in Nat /\ \A n \in talk : n.id = m.id => n = m
      /\ page \subseteq NewestOf(base, PageSize)
  <2>1. page \subseteq NewestOf(base, PageSize) /\ page \subseteq base
    BY DEF PageBelow, ChatPage, Newest, NewestOf, Newer, OfOwner, Below
  <2> QED BY <2>1 DEF TalkInv, NewestOf, OfOwner, Below
<1>2. IsFiniteSet(base) /\ IsFiniteSet(mine) /\ IsFiniteSet(taken)
  BY <1>1, FS_Subset
<1>3. IsFiniteSet(Ids(taken)) /\ Cardinality(Ids(taken)) = Cardinality(taken)
  BY <1>1, <1>2, IdsCount
<1>4. IsFiniteSet(new) /\ Cardinality(ids) \in Nat /\ Cardinality(taken) \in Nat
  <2>1. IsFiniteSet(ids \cup Ids(taken))
    BY <1>3, FS_Union
  <2> QED BY <1>2, <1>9, <2>1, FS_CardinalityType
<1>5. Cardinality(new) = Cardinality(ids) + Cardinality(taken)
  <2>1. ids \cap Ids(taken) = {}
    BY <1>0, <1>1 DEF Ids
  <2>2. Cardinality(new) = Cardinality(ids) + Cardinality(Ids(taken)) - Cardinality(ids \cap Ids(taken))
    BY <1>3, <1>9, FS_Union
  <2>3. Cardinality(ids \cap Ids(taken)) = 0
    BY <2>1, FS_EmptySet
  <2> QED BY <1>3, <1>4, <2>2, <2>3
<1>6. ASSUME NEW low \in page, NEW m \in talk, m.from = "me", m.id < offset, m.id >= low.id PROVE m \in mine
  <2>1. m \in NewestOf(base, PageSize)
    BY <1>0, <1>1, <1>2, <1>6, NewestGoUp, ModAssumption DEF PageBelow
  <2> QED BY <1>6, <1>9, <2>1 DEF PageBelow, ChatPage, Newest, NewestOf, Newer, OfOwner, Below
<1>7. ASSUME NEW i \in Ids(taken), NEW m \in talk, m.from = "me", m.id < offset, m.id > i PROVE m.id \in new
  <2>1. PICK low \in taken : low.id = i
    BY DEF Ids
  <2>2. low \in page /\ m.id >= low.id
    BY <1>1, <1>7, <2>1
  <2>3. m \in mine
    BY <1>6, <1>7, <2>2
  <2>4. count - Cardinality(ids) \in Int /\ \A n \in mine : n.id \in Nat
    BY <1>1, <1>4
  <2>5. m \in taken
    BY <1>2, <2>1, <2>2, <2>3, <2>4, NewestGoUp
  <2> QED BY <1>9, <2>5 DEF Ids
<1>8. ASSUME Cardinality(new) < count, NEW low \in page, NEW m \in talk, m.from = "me", m.id < offset, m.id >= low.id
      PROVE m.id \in new
  <2>1. m \in mine
    BY <1>6, <1>8
  <2>2. CASE m \notin taken
    <3>1. Cardinality(taken) >= count - Cardinality(ids)
      <4>1. count - Cardinality(ids) \in Int /\ \A n \in mine : n.id \in Nat
        BY <1>1, <1>4
      <4> QED BY <1>2, <2>1, <2>2, <4>1, NewestAreEnough
    <3> QED BY <1>4, <1>5, <1>8, <3>1
  <2>3. CASE m \in taken
    BY <1>9, <2>3 DEF Ids
  <2> QED BY <2>2, <2>3
<1> QED BY <1>1, <1>4, <1>7, <1>8, <1>9
-----------------------------------------------------------------------------
(* Moderation: deletions.                                                   *)

LEMMA DeleteRecentOwnStep == ASSUME ModInv, NEW w \in Moderators, deleteRecentOwn(w) PROVE ModInv'
<1> PICK old : old = modding[w]
  OBVIOUS
<1> PICK page : page = PageBelow(old.offset)
  OBVIOUS
<1> PICK taken : taken = TakenBelow(old.offset, old.cmd.count - Cardinality(old.ids))
  OBVIOUS
<1> PICK new : new = old.ids \cup Ids(taken)
  OBVIOUS
<1>1. ModJob(old) /\ old.at = "recent" /\ ChatSame /\ UNCHANGED <<modWorld, mode, chatLists, deleted, reports>>
      /\ ModCommand(old.cmd) /\ TalkInv
  BY ModJobIs DEF deleteRecentOwn, ChatSame, people, ModInv
<1>2. /\ old.cmd.kind = "recent" /\ old.cmd.count \in Nat /\ old.id \in 1 .. lastID /\ old.offset \in 1 .. old.id
      /\ IsFiniteSet(old.ids) /\ \A i \in old.ids : i \in 1 .. old.id /\ i >= old.offset
      /\ \A m \in talk : m.from = "me" /\ m.id < old.id /\ m.id >= old.offset => m.id \in old.ids
      /\ \A m \in talk : m.id \in old.ids => m.from = "me"
      /\ \A m \in talk : m.id = old.id => m.from = "me"
      /\ \A m \in talk : m.id \in 1 .. lastID /\ \A n \in talk : n.id = m.id => n = m
      /\ lastID \in Nat
  <2>1. old.cmd.kind = "recent"
    BY <1>1 DEF ModJob, ModForm, ModPlaces
  <2>2. OwnCommand(old) /\ RecentJob(old)
    BY <1>1 DEF ModJob
  <2>3. lastID \in Nat /\ \A m \in talk : m.id \in 1 .. lastID /\ \A n \in talk : n.id = m.id => n = m
    BY <1>1 DEF TalkInv
  <2>4. old.id \in 1 .. lastID /\ \A i \in old.ids : i \in 1 .. old.id
    BY <2>2 DEF OwnCommand
  <2>5. old.offset \in 1 .. old.id /\ \A i \in old.ids : old.offset <= i
    BY <1>1, <2>1, <2>2 DEF RecentJob
  <2> QED BY <1>1, <2>1, <2>2, <2>3, <2>4, <2>5 DEF RecentJob, OwnCommand, ModCommand
<1>3. /\ taken \subseteq page /\ IsFiniteSet(new) /\ page \subseteq talk
      /\ \A m \in page : m.id < old.offset
      /\ \A m \in taken : m.from = "me"
      /\ \A i \in new \ old.ids, m \in talk : m.from = "me" /\ m.id < old.offset /\ m.id > i => m.id \in new
      /\ Cardinality(new) < old.cmd.count =>
           \A low \in page, m \in talk : m.from = "me" /\ m.id < old.offset /\ m.id >= low.id => m.id \in new
  <2> PICK offset : offset = old.offset
    OBVIOUS
  <2> PICK ids : ids = old.ids
    OBVIOUS
  <2> PICK count : count = old.cmd.count
    OBVIOUS
  <2>1. offset \in Nat /\ (\A i \in ids : i \in Nat /\ offset <= i) /\ IsFiniteSet(ids) /\ count \in Nat
    BY <1>2
  <2>2. new = ids \cup Ids(TakenBelow(offset, count - Cardinality(ids))) /\ TalkInv
    BY <1>1
  <2>3. /\ IsFiniteSet(new) /\ PageBelow(offset) \subseteq Below(offset)
        /\ TakenBelow(offset, count - Cardinality(ids)) \subseteq OfOwner(PageBelow(offset))
        /\ \A i \in new \ ids, m \in talk : m.from = "me" /\ m.id < offset /\ m.id > i => m.id \in new
        /\ Cardinality(new) < count =>
             \A low \in PageBelow(offset), m \in talk : m.from = "me" /\ m.id < offset /\ m.id >= low.id => m.id \in new
    BY ONLY <2>1, <2>2, RecentPage
  <2> QED BY <2>3 DEF OfOwner, Below
<1>4. \A i \in Ids(taken) : \E m \in talk : m.id = i /\ m.from = "me" /\ m \in page /\ i < old.offset
  BY <1>3 DEF Ids
<1>5. \A m \in talk : m.id \in new => m.from = "me"
  <2> SUFFICES ASSUME NEW m \in talk, m.id \in new PROVE m.from = "me"
    OBVIOUS
  <2>1. CASE m.id \in old.ids
    BY <1>2, <2>1
  <2>2. CASE m.id \in Ids(taken)
    <3>1. PICK n \in talk : n.id = m.id /\ n.from = "me"
      BY <1>4, <2>2
    <3> QED BY <1>2, <3>1
  <2> QED BY <2>1, <2>2
<1>6. \A i \in new : i \in 1 .. old.id
  BY <1>2, <1>4
<1>7. ASSUME NEW at \in {"recent", "delete"}, NEW ids, NEW offset,
             NEW first, first = [old EXCEPT !.at = at],
             NEW second, second = [first EXCEPT !.ids = ids],
             NEW j, j = [second EXCEPT !.offset = offset],
             IsFiniteSet(ids), \A i \in ids : i \in 1 .. old.id, \A m \in talk : m.id \in ids => m.from = "me",
             at = "recent" =>
               /\ offset \in 1 .. old.id /\ \A i \in ids : offset <= i
               /\ \A m \in talk : m.from = "me" /\ m.id < old.id /\ m.id >= offset => m.id \in ids,
             at = "delete" =>
               /\ old.id \in ids
               /\ \A i \in ids, m \in talk : m.from = "me" /\ m.id < old.id /\ m.id > i => m.id \in ids
      PROVE  ModJob(j)
  <2>1. ModForm(first) /\ first.at = at /\ first.cmd = old.cmd /\ first.id = old.id /\ first.on = old.on
         /\ first.others = old.others /\ first.unread = old.unread
         /\ first.chats = old.chats /\ first.inflight = old.inflight /\ first.success = old.success
         /\ first.failed = old.failed /\ first.read = old.read /\ first.need = old.need /\ first.behind = old.behind
    BY <1>1, <1>2, <1>7, JobFields DEF ModJob, ModPlaces
  <2>2. /\ j.at = at /\ j.cmd = old.cmd /\ j.id = old.id /\ j.on = first.on /\ j.others = first.others
        /\ j.unread = first.unread /\ j.ids = ids /\ j.offset = offset /\ j.chats = old.chats
        /\ j.inflight = old.inflight /\ j.success = old.success /\ j.failed = old.failed /\ j.read = first.read
        /\ j.need = old.need /\ j.behind = first.behind
        /\ j = [at |-> j.at, cmd |-> j.cmd, id |-> j.id, on |-> j.on, others |-> j.others, unread |-> j.unread, offset |-> j.offset,
                 ids |-> j.ids, chats |-> j.chats, inflight |-> j.inflight, success |-> j.success, failed |-> j.failed,
                 read |-> j.read, need |-> j.need, behind |-> j.behind]
    BY <1>7, <2>1 DEF ModForm
  <2>3. ModForm(j)
    BY <1>2, <2>1, <2>2 DEF ModForm, ModPlaces
  <2>4. OwnCommand(j)
    BY <1>1, <1>2, <1>7, <2>2 DEF OwnCommand
  <2>5. RangeJob(j)
    BY <1>2, <2>2 DEF RangeJob
  <2>6. RecentJob(j)
    BY <1>7, <2>2 DEF RecentJob
  <2>7. BatchJob(j) /\ RefreshJob(j)
    BY <1>1, <1>2, <1>7, <2>2 DEF ModJob, BatchJob, RefreshJob
  <2> QED BY <2>3, <2>4, <2>5, <2>6, <2>7 DEF ModJob
<1>8. CASE modding' = [modding EXCEPT ![w] = [old EXCEPT !.at = "delete", !.ids = new \cup {old.id}]]
  <2> PICK ids : ids = new \cup {old.id}
    OBVIOUS
  <2> PICK first : first = [old EXCEPT !.at = "delete"]
    OBVIOUS
  <2> PICK second : second = [first EXCEPT !.ids = ids]
    OBVIOUS
  <2> PICK j : j = [second EXCEPT !.offset = old.offset]
    OBVIOUS
  <2>1. modding' = [modding EXCEPT ![w] = j]
    <3>1. second.offset = old.offset /\ second = [old EXCEPT !.at = "delete", !.ids = ids]
          /\ second = [at |-> second.at, cmd |-> second.cmd, id |-> second.id, on |-> second.on, others |-> second.others,
               unread |-> second.unread, offset |-> second.offset, ids |-> second.ids, chats |-> second.chats,
               inflight |-> second.inflight, success |-> second.success, failed |-> second.failed,
               read |-> second.read, need |-> second.need, behind |-> second.behind]
      BY <1>1 DEF ModJob, ModForm
    <3>2. j = second
      BY <3>1
    <3> QED BY <1>8, <3>1, <3>2
  <2>2. IsFiniteSet(ids) /\ old.id \in ids
    <3>1. IsFiniteSet(new)
      BY <1>3
    <3> QED BY <3>1, FS_AddElement
  <2>3. (\A i \in ids : i \in 1 .. old.id) /\ \A m \in talk : m.id \in ids => m.from = "me"
    BY <1>2, <1>5, <1>6
  <2>4. ASSUME NEW i \in ids, NEW m \in talk, m.from = "me", m.id < old.id, m.id > i PROVE m.id \in ids
    <3>1. CASE m.id >= old.offset
      BY <1>2, <2>4, <3>1
    <3>2. CASE m.id < old.offset
      <4>1. i \in new \ old.ids
        BY <1>2, <2>3, <2>4, <3>2
      <4> QED BY <1>3, <2>4, <3>2, <4>1
    <3> QED BY <1>2, <3>1, <3>2
  <2>5. ModJob(j)
    BY <1>7, <2>2, <2>3, <2>4
  <2> QED BY <1>1, <2>1, <2>5, QuietModStep
<1>9. CASE /\ ~ (Cardinality(page) < PageSize) /\ ~ (Cardinality(new) >= old.cmd.count)
           /\ modding' = [modding EXCEPT ![w] = [old EXCEPT !.ids = new, !.offset = LastOf(page)]]
  <2> PICK offset : offset = LastOf(page)
    OBVIOUS
  <2> PICK first : first = [old EXCEPT !.at = "recent"]
    OBVIOUS
  <2> PICK second : second = [first EXCEPT !.ids = new]
    OBVIOUS
  <2> PICK j : j = [second EXCEPT !.offset = offset]
    OBVIOUS
  <2>1. modding' = [modding EXCEPT ![w] = j]
    <3>1. first = old
      BY <1>1 DEF ModJob, ModForm
    <3> QED BY <1>9, <3>1
  <2>2. page # {} /\ IsFiniteSet(page) /\ page \subseteq talk
    <3>1. page \subseteq talk /\ IsFiniteSet(talk)
      BY <1>1, <1>3 DEF TalkInv
    <3>2. page = {} => Cardinality(page) = 0
      BY FS_EmptySet
    <3>3. IsFiniteSet(page)
      BY <3>1, FS_Subset
    <3> QED BY <1>9, <3>1, <3>2, <3>3, ModAssumption
  <2>3. PICK low \in page : low.id = offset /\ \A m \in page : low.id <= m.id
    <3>1. Ids(page) \in SUBSET Nat /\ Ids(page) # {}
      BY <1>2, <2>2 DEF Ids
    <3>2. offset \in Ids(page) /\ \A i \in Ids(page) : offset <= i
      BY <3>1, LeastNumber DEF LastOf
    <3>3. PICK low \in page : low.id = offset
      BY <3>2 DEF Ids
    <3>4. \A m \in page : m.id \in Ids(page)
      BY DEF Ids
    <3> QED BY <3>2, <3>3, <3>4
  <2>4. Cardinality(new) < old.cmd.count
    BY <1>2, <1>3, <1>9, FS_CardinalityType
  <2>5. offset \in 1 .. old.id /\ offset < old.offset
    BY <1>2, <1>3, <2>2, <2>3
  <2>6. \A i \in new : offset <= i
    <3>1. \A i \in old.ids : offset <= i
      BY <1>2, <2>5
    <3>2. \A i \in Ids(taken) : offset <= i
      BY <1>4, <2>3
    <3> QED BY <3>1, <3>2
  <2>7. ASSUME NEW m \in talk, m.from = "me", m.id < old.id, m.id >= offset PROVE m.id \in new
    <3>1. CASE m.id >= old.offset
      BY <1>2, <2>7, <3>1
    <3>2. CASE m.id < old.offset
      BY <1>3, <2>3, <2>4, <2>7, <3>2
    <3> QED BY <1>2, <3>1, <3>2
  <2>8. ModJob(j)
    BY <1>3, <1>5, <1>6, <1>7, <2>5, <2>6, <2>7
  <2> QED BY <1>1, <2>1, <2>8, QuietModStep
<1>10. modding' = [modding EXCEPT ![w] =
         IF Cardinality(page) < PageSize \/ Cardinality(new) >= old.cmd.count
         THEN [old EXCEPT !.at = "delete", !.ids = new \cup {old.id}]
         ELSE [old EXCEPT !.ids = new, !.offset = LastOf(page)]]
  BY DEF deleteRecentOwn, PageBelow, TakenBelow, NewestOf, Newer, OfOwner, Below
<1> QED BY <1>8, <1>9, <1>10

LEMMA OthersStay ==
  ASSUME ModInv, NEW w \in Moderators, NEW j, modding' = [modding EXCEPT ![w] = j], \A k : RefreshJob(k) => RefreshJob(k)'
  PROVE  \A v \in Moderators \ {w} : modding[v] # NoMod => RefreshJob(modding[v])'
<1> SUFFICES ASSUME NEW v \in Moderators \ {w}, modding[v] # NoMod PROVE RefreshJob(modding[v])'
  OBVIOUS
<1> PICK k : k = modding[v]
  OBVIOUS
<1>1. modding'[v] = k /\ RefreshJob(k)'
  BY DEF ModInv, ModJob
<1> QED BY <1>1

LEMMA DeleteMessagesStep == ASSUME ModInv, NEW w \in Moderators, DeleteMessages(w) PROVE ModInv'
<1> PICK old : old = modding[w]
  OBVIOUS
<1>1. /\ ModJob(old) /\ old.at = "delete" /\ modding' = [modding EXCEPT ![w] = NoMod] /\ talk' \subseteq talk
      /\ UNCHANGED <<modWorld, mode, lastID, managed, chatLists, reports>>
  BY ModJobIs DEF DeleteMessages, people, ModEnds
<1>2. TalkInv' /\ TalkMoves
  <2>1. IsFiniteSet(talk')
    BY <1>1, FS_Subset DEF ModInv, TalkInv
  <2> QED BY <1>1, <2>1 DEF ModInv, TalkInv, TalkMoves
<1>3. CacheInv' /\ \A v \in Moderators \ {w} : modding[v] # NoMod => RefreshJob(modding[v])'
  BY <1>1, ListStays, OthersStay DEF ModInv
<1> PICK own : own = Ids({m \in talk : m.from = "me"})
  OBVIOUS
<1> PICK others : others = Ids({m \in {n \in talk : n.id \in old.ids} : m.from # "me"})
  OBVIOUS
<1> PICK allowed : allowed = (old.on \/ old.unread)
  OBVIOUS
<1> PICK d : d = [kind |-> old.cmd.kind, ids |-> old.ids, own |-> own, others |-> others, id |-> old.id, allowed |-> allowed]
  OBVIOUS
<1>4. deleted' = deleted \cup {d}
  BY DEF DeleteMessages
<1>5. d.kind = old.cmd.kind /\ d.ids = old.ids /\ d.own = own /\ d.others = others /\ d.id = old.id /\ d.allowed = allowed
  OBVIOUS
<1>6. old.cmd.kind \in {"range", "recent"} /\ OwnCommand(old) /\ RangeJob(old) /\ RecentJob(old)
  BY <1>1 DEF ModJob, ModForm, ModPlaces, ModInv, ModCommand
<1>7. \A i \in others : \E m \in talk : m.id = i /\ i \in old.ids /\ m.from # "me"
  BY DEF Ids
<1>8. d.others # {} => d.kind = "range" /\ d.allowed /\ \A i \in d.others : i <= d.id
  <2> SUFFICES ASSUME others # {} PROVE d.kind = "range" /\ d.allowed /\ \A i \in d.others : i <= d.id
    BY <1>5
  <2>1. PICK m \in talk : m.id \in old.ids /\ m.from # "me"
    BY <1>7
  <2>2. old.cmd.kind = "range"
    BY <1>6, <2>1 DEF RecentJob
  <2>3. old.others
    BY <1>1, <1>6, <2>1, <2>2 DEF RangeJob
  <2>4. allowed
    <3>1. old.on \/ old.unread
      BY <1>6, <2>2, <2>3, Zenon DEF RangeJob
    <3> QED BY <3>1, Zenon
  <2>5. \A i \in others : i <= old.id
    BY <1>6, <1>7 DEF OwnCommand
  <2> QED BY <1>5, <2>2, <2>4, <2>5
<1>9. d.kind = "recent" => \A i \in d.own : i > Min(d.ids) /\ i < d.id => i \in d.ids
  <2> SUFFICES ASSUME old.cmd.kind = "recent", NEW i \in own, i > Min(old.ids), i < old.id PROVE i \in old.ids
    BY <1>5
  <2>1. old.ids \in SUBSET Nat /\ old.ids # {}
    BY <1>1, <1>6 DEF OwnCommand, RecentJob
  <2>2. Min(old.ids) \in old.ids
    BY <2>1, LeastNumber
  <2>3. PICK m \in talk : m.id = i /\ m.from = "me"
    BY DEF Ids
  <2> QED BY <1>1, <1>6, <2>2, <2>3 DEF RecentJob
<1>10. ModerationIsSound'
  <2>1. OthersSpared'
    BY <1>4, <1>8 DEF ModInv, ModerationIsSound, OthersSpared
  <2>2. OwnAreTaken'
    BY <1>4, <1>9 DEF ModInv, ModerationIsSound, OwnAreTaken
  <2>3. RefreshHolds' /\ CountsAddUp'
    BY <1>1 DEF ModInv, ModerationIsSound, RefreshHolds, CountsAddUp
  <2> QED BY <2>1, <2>2, <2>3 DEF ModerationIsSound
<1> QED BY <1>1, <1>2, <1>3, <1>10, ModStep

LEMMA SaveModeStep == ASSUME ModInv, NEW w \in Moderators, saveMode(w) PROVE ModInv'
<1> PICK next : next = modding[w].cmd.on
  OBVIOUS
<1>1. /\ mode' = next /\ ChatSame /\ UNCHANGED <<modWorld, chatLists, deleted, reports>>
      /\ modding' = [v \in Moderators |-> IF v = w THEN NoMod ELSE IF modding[v] = NoMod THEN NoMod
                       ELSE [modding[v] EXCEPT !.on = @ \/ mode']]
  BY DEF saveMode, ChatSame, people
<1>2. next \in BOOLEAN
  <2>1. modding[w].at = "switch" /\ ModCommand(modding[w].cmd) /\ ModJob(modding[w])
    BY ModJobIs DEF saveMode
  <2>2. modding[w].cmd.kind = "switch"
    BY <2>1 DEF ModJob, ModForm, ModPlaces
  <2> QED BY <2>1, <2>2 DEF ModCommand
<1>3. TalkInv' /\ TalkMoves /\ CacheInv' /\ ModerationIsSound' /\ \A j : RefreshJob(j) => RefreshJob(j)'
  BY <1>1, ChatStays, ListStays, SoundStays DEF ModInv
<1>4. ASSUME NEW v \in Moderators, modding'[v] # NoMod PROVE ModJob(modding[v])'
  <2>1. PICK k : k = modding[v]
    OBVIOUS
  <2>2. PICK on : on = (k.on \/ next)
    OBVIOUS
  <2>3. PICK j : j = [k EXCEPT !.on = on]
    OBVIOUS
  <2>4. k # NoMod /\ modding'[v] = j
    <3>1. modding'[v] = (IF v = w THEN NoMod ELSE IF k = NoMod THEN NoMod ELSE [k EXCEPT !.on = @ \/ mode'])
      BY <1>1, <2>1
    <3>2. v # w /\ k # NoMod
      BY <1>4, <3>1
    <3>3. modding'[v] = [k EXCEPT !.on = @ \/ mode']
      BY <3>1, <3>2
    <3>4. [k EXCEPT !.on = @ \/ mode'] = j
      BY <1>1, <2>2, <2>3, Zenon
    <3> QED BY <3>2, <3>3, <3>4
  <2>5. ModJob(k)
    BY <2>1, <2>4 DEF ModInv
  <2>6. /\ j.at = k.at /\ j.cmd = k.cmd /\ j.id = k.id /\ j.on = on /\ j.others = k.others
        /\ j.unread = k.unread /\ j.offset = k.offset /\ j.ids = k.ids /\ j.chats = k.chats
        /\ j.inflight = k.inflight /\ j.success = k.success /\ j.failed = k.failed /\ j.read = k.read
        /\ j.need = k.need /\ j.behind = k.behind
        /\ j = [at |-> j.at, cmd |-> j.cmd, id |-> j.id, on |-> j.on, others |-> j.others, unread |-> j.unread, offset |-> j.offset,
                 ids |-> j.ids, chats |-> j.chats, inflight |-> j.inflight, success |-> j.success, failed |-> j.failed,
                 read |-> j.read, need |-> j.need, behind |-> j.behind]
    BY <2>3, <2>5 DEF ModJob, ModForm
  <2>7. k.on \in BOOLEAN /\ on \in BOOLEAN /\ (k.on => on) /\ (next => on)
    <3>1. k.on \in BOOLEAN
      BY <2>5 DEF ModJob, ModForm
    <3>2. on \in BOOLEAN
      BY <2>2
    <3> QED BY <2>2, <3>1, <3>2, Zenon
  <2>8. ModForm(j)' /\ OwnCommand(j)' /\ BatchJob(j)'
    <3>1. ModForm(j)'
      <4>1. ModForm(k) /\ modWorld' = modWorld
        BY <1>1, <2>5 DEF ModJob
      <4> QED BY <2>6, <2>7, <4>1 DEF ModForm, ModPlaces
    <3>2. OwnCommand(j)' /\ BatchJob(j)'
      BY <1>1, <2>5, <2>6 DEF ModJob, OwnCommand, BatchJob, ChatSame
    <3> QED BY <3>1, <3>2
  <2>9. RangeJob(j)'
    <3>1. RangeJob(k) /\ talk' = talk
      BY <1>1, <2>5 DEF ModJob, ChatSame
    <3>2. j.cmd.kind = "range" => (j.others => j.on \/ j.unread)
      BY <2>6, <2>7, <3>1, Zenon DEF RangeJob
    <3>3. mode' # FALSE => j.on
      BY <1>1, <1>2, <2>6, <2>7, Zenon
    <3>4. j.cmd.kind = "range" /\ j.at = "delete" => \A m \in talk' : m.id \in j.ids /\ m.from # "me" => j.others
      BY <2>6, <3>1, Zenon DEF RangeJob
    <3> QED BY <3>2, <3>3, <3>4, Zenon DEF RangeJob
  <2>10. RecentJob(j)'
    BY <1>1, <2>5, <2>6 DEF ModJob, RecentJob, ChatSame
  <2>11. RefreshJob(j)'
    <3>1. RefreshJob(j)
      BY <2>5, <2>6 DEF ModJob, RefreshJob
    <3> QED BY <1>3, <3>1
  <2>12. ModJob(j)'
    BY <2>8, <2>9, <2>10, <2>11 DEF ModJob
  <2> QED BY <2>4, <2>12, Zenon
<1>5. (\A c \in modWorld.commands : ModCommand(c))' /\ mode' \in BOOLEAN \cup {NoMod}
  BY <1>1, <1>2 DEF ModInv, ModCommand
<1>6. modding' = [v \in Moderators |-> modding'[v]]
  BY <1>1
<1> QED BY <1>3, <1>4, <1>5, <1>6 DEF ModInv
-----------------------------------------------------------------------------
(* Moderation: faults, and what others do in the chats.                     *)

\* A step that leaves the commands alone.
LEMMA ModOutside ==
  ASSUME ModInv, UNCHANGED <<modding, modWorld, mode>>, TalkInv', TalkMoves, CacheInv',
         \A j : RefreshJob(j) => RefreshJob(j)', ModerationIsSound'
  PROVE  ModInv'
<1>1. ASSUME NEW v \in Moderators, modding'[v] # NoMod PROVE ModJob(modding[v])'
  <2> PICK k : k = modding[v]
    OBVIOUS
  <2>1. modding'[v] = k /\ ModJob(k) /\ RefreshJob(k)'
    BY <1>1 DEF ModInv, ModJob
  <2>2. ModJob(k)'
    BY <2>1, JobStays DEF ModInv
  <2> QED BY <2>1, <2>2
<1>2. (\A c \in modWorld.commands : ModCommand(c))' /\ mode' \in BOOLEAN \cup {NoMod}
  BY DEF ModInv, ModCommand
<1>3. modding' = [v \in Moderators |-> modding'[v]]
  BY DEF ModInv
<1> QED BY <1>1, <1>2, <1>3 DEF ModInv

LEMMA ModFailsStep == ASSUME ModInv, NEW w \in Moderators, ModFails(w) PROVE ModInv'
  BY ModEndsStep DEF ModFails, ChatSame, people

LEMMA ModRestartsStep == ASSUME ModInv, ModRestarts PROVE ModInv'
<1>1. /\ modding' = [w \in Moderators |-> NoMod] /\ ChatSame
      /\ UNCHANGED <<modWorld, mode, chatLists, deleted, reports>>
  BY DEF ModRestarts, ChatSame, people
<1>2. TalkInv' /\ CacheInv' /\ ModerationIsSound'
  BY <1>1, ChatStays, ListStays, SoundStays DEF ModInv
<1>3. (\A c \in modWorld.commands : ModCommand(c))' /\ mode' \in BOOLEAN \cup {NoMod}
  BY <1>1 DEF ModInv, ModCommand
<1>4. modding' = [w \in Moderators |-> modding'[w]] /\ \A w \in Moderators : modding'[w] = NoMod
  BY <1>1
<1> QED BY <1>2, <1>3, <1>4 DEF ModInv

LEMMA RightsGoStep == ASSUME ModInv, RightsGo PROVE ModInv'
<1>1. /\ managed' \subseteq managed /\ UNCHANGED <<talk, lastID, modding, modWorld, mode, chatLists, deleted, reports>>
  BY DEF RightsGo
<1>2. TalkInv' /\ TalkMoves
  <2>1. IsFiniteSet(managed')
    BY <1>1, FS_Subset DEF ModInv, TalkInv
  <2> QED BY <1>1, <2>1 DEF ModInv, TalkInv, TalkMoves
<1>3. CacheInv' /\ ModerationIsSound' /\ \A j : RefreshJob(j) => RefreshJob(j)'
  BY <1>1, ListStays, SoundStays DEF ModInv
<1> QED BY <1>1, <1>2, <1>3, ModOutside

LEMMA XWritesStep == ASSUME ModInv, XWrites PROVE ModInv'
<1>1. /\ lastID' = lastID + 1 /\ talk' = talk \cup {[id |-> lastID + 1, from |-> "x"]}
      /\ UNCHANGED <<managed, modding, modWorld, mode, chatLists, deleted, reports>>
  BY DEF XWrites, Writes, people
<1>2. TalkInv' /\ TalkMoves
  <2>1. IsFiniteSet(talk')
    BY <1>1, FS_AddElement DEF ModInv, TalkInv
  <2> QED BY <1>1, <2>1 DEF ModInv, TalkInv, TalkMoves
<1>3. CacheInv' /\ ModerationIsSound' /\ \A j : RefreshJob(j) => RefreshJob(j)'
  BY <1>1, ListStays, SoundStays DEF ModInv
<1> QED BY <1>1, <1>2, <1>3, ModOutside

LEMMA ListExpiresStep == ASSUME ModInv, ListExpires PROVE ModInv'
<1>1. /\ cache # NoMod /\ cache' = [cache EXCEPT !.fresh = FALSE] /\ ChatSame
      /\ UNCHANGED <<modding, modWorld, mode, reading, renewed, oldBack, deleted, reports>>
  BY DEF ListExpires, ChatSame, people
<1>2. TalkInv' /\ TalkMoves /\ ModerationIsSound'
  BY <1>1, ChatStays, SoundStays DEF ModInv
<1>3. CacheInv'
  BY <1>1 DEF ModInv, CacheInv
<1>4. \A j : RefreshJob(j) => RefreshJob(j)'
  BY <1>1 DEF RefreshJob
<1> QED BY <1>1, <1>2, <1>3, <1>4, ModOutside
-----------------------------------------------------------------------------
(* Moderation: one chat.                                                    *)

LEMMA MayBanStep == ASSUME ModInv, NEW w \in Moderators, MayBan(w) PROVE ModInv'
<1>1. /\ ModAt(w, "moderate") /\ ChatSame /\ UNCHANGED <<modWorld, mode, chatLists, deleted, reports>>
      /\ ModGo(w, "history") \/ ModEnds(w)
  BY DEF MayBan, ChatSame, people
<1>2. "history" \in ModPlaces(modding[w].cmd.kind)
  BY <1>1, ModJobIs DEF ModJob, ModForm, ModPlaces
<1>3. CASE ModGo(w, "history")
  BY <1>1, <1>2, <1>3, ModGoStep
<1> QED BY <1>1, <1>3, ModEndsStep

LEMMA DeleteUserHistoryStep == ASSUME ModInv, NEW w \in Moderators, DeleteUserHistory(w) PROVE ModInv'
<1> PICK old : old = modding[w]
  OBVIOUS
<1> PICK j : j = [old EXCEPT !.at = "act"]
  OBVIOUS
<1>1. /\ ModJob(old) /\ old.at = "history" /\ modding' = [modding EXCEPT ![w] = j] /\ talk' \subseteq talk
      /\ UNCHANGED <<modWorld, mode, lastID, managed, chatLists, deleted, reports>>
  BY ModJobIs DEF DeleteUserHistory, people, ModGo
<1>2. TalkInv' /\ TalkMoves
  <2>1. IsFiniteSet(talk')
    BY <1>1, FS_Subset DEF ModInv, TalkInv
  <2> QED BY <1>1, <2>1 DEF ModInv, TalkInv, TalkMoves
<1>3. /\ CacheInv' /\ ModerationIsSound' /\ \A k : RefreshJob(k) => RefreshJob(k)'
      /\ \A v \in Moderators \ {w} : modding[v] # NoMod => RefreshJob(modding[v])'
  BY <1>1, ListStays, SoundStays, OthersStay DEF ModInv
<1>4. ModJob(j)
  BY <1>1, ModGoes DEF ModJob, ModForm, ModPlaces
<1>5. ModJob(j)'
  BY <1>1, <1>2, <1>3, <1>4, JobStays DEF ModInv, ModJob
<1> QED BY <1>1, <1>2, <1>3, <1>5, ModStep

LEMMA ModerateStep == ASSUME ModInv, NEW w \in Moderators, moderate(w) PROVE ModInv'
  BY ModEndsStep DEF moderate, ChatSame
-----------------------------------------------------------------------------
(* Moderation: the list of chats.                                           *)

LEMMA DropListStep == ASSUME ModInv, NEW w \in Moderators, DropList(w) PROVE ModInv'
<1> PICK old : old = modding[w]
  OBVIOUS
<1> PICK j : j = [old EXCEPT !.at = "list"]
  OBVIOUS
<1>1. /\ ModJob(old) /\ old.at = "refresh" /\ modding' = [modding EXCEPT ![w] = j] /\ ChatSame
      /\ UNCHANGED <<modWorld, mode, reading, renewed, deleted, reports>>
      /\ (cache' = NoMod /\ oldBack' = oldBack) \/ (cache' = cache /\ oldBack' = TRUE)
  BY ModJobIs DEF DropList, people, ModGo, ChatSame, DropOld
<1>2. old.cmd.kind = "refresh"
  <2>1. ModCommand(old.cmd)
    BY <1>1, ModJobIs DEF DropList
  <2> QED BY <1>1, <2>1 DEF ModJob, ModForm, ModPlaces, ModCommand
<1>3. TalkInv' /\ TalkMoves /\ ModerationIsSound'
  BY <1>1, ChatStays, SoundStays DEF ModInv
<1>4. CacheInv'
  <2>1. CacheInv
    BY DEF ModInv
  <2>2. CASE cache' = NoMod /\ oldBack' = oldBack
    BY <1>1, <2>1, <2>2 DEF CacheInv
  <2>3. CASE cache' = cache /\ oldBack' = TRUE
    BY <1>1, <2>1, <2>3 DEF CacheInv
  <2> QED BY <1>1, <2>2, <2>3
<1>5. \A k : RefreshJob(k) => RefreshJob(k)'
  BY <1>1 DEF RefreshJob
<1>6. ModJob(j)'
  <2>1. /\ ModForm(j) /\ j.at = "list" /\ j.cmd = old.cmd /\ j.id = old.id /\ j.on = old.on /\ j.others = old.others
        /\ j.unread = old.unread /\ j.offset = old.offset /\ j.ids = old.ids /\ j.chats = old.chats
        /\ j.inflight = old.inflight /\ j.success = old.success /\ j.failed = old.failed /\ j.read = old.read
        /\ j.need = old.need /\ j.behind = old.behind
    BY <1>1, <1>2, JobFields DEF ModJob, ModPlaces
  <2>2. ModForm(j)' /\ OwnCommand(j)' /\ BatchJob(j)'
    BY <1>1, <2>1 DEF ModJob, OwnCommand, BatchJob, ChatSame, ModForm
  <2>3. RangeJob(j)' /\ RecentJob(j)'
    BY <1>2, <2>1 DEF RangeJob, RecentJob
  <2>4. RefreshJob(j)'
    BY <1>1, <2>1 DEF ModJob, RefreshJob
  <2> QED BY <2>2, <2>3, <2>4 DEF ModJob
<1> QED BY <1>1, <1>3, <1>4, <1>5, <1>6, OthersStay, ModStep

\* What a job that takes a list becomes.
Listed(j, at, chats, read, behind) ==
  [[[[j EXCEPT !.at = at] EXCEPT !.chats = chats] EXCEPT !.read = read] EXCEPT !.behind = behind]
LEMMA ListTaken ==
  ASSUME NEW old, ModJob(old), NEW at, at \in ModPlaces(old.cmd.kind), at \in {"cache", "batch"}, old.at # "batch",
         old.cmd.kind \in {"super", "refresh"}, NEW chats, IsFiniteSet(chats), NEW read \in Nat, NEW behind \in BOOLEAN,
         NEW j, j = Listed(old, at, chats, read, behind)
  PROVE  /\ ModForm(j) /\ OwnCommand(j) /\ RangeJob(j) /\ RecentJob(j) /\ BatchJob(j)
         /\ j.at = at /\ j.cmd = old.cmd /\ j.read = read /\ j.need = old.need /\ j.behind = behind
<1> PICK first : first = [old EXCEPT !.at = at]
  OBVIOUS
<1> PICK second : second = [first EXCEPT !.chats = chats]
  OBVIOUS
<1> PICK third : third = [second EXCEPT !.read = read]
  OBVIOUS
<1>0. j = [third EXCEPT !.behind = behind]
  BY DEF Listed
<1>1. /\ ModForm(first) /\ first.at = at /\ first.cmd = old.cmd /\ first.id = old.id
      /\ first.on = old.on /\ first.others = old.others
      /\ first.unread = old.unread /\ first.offset = old.offset /\ first.ids = old.ids
      /\ first.inflight = old.inflight /\ first.success = old.success /\ first.failed = old.failed
      /\ first.need = old.need
  BY JobFields DEF ModJob
<1>2. /\ j.at = at /\ j.cmd = old.cmd /\ j.id = old.id /\ j.on = first.on /\ j.others = first.others
      /\ j.unread = first.unread /\ j.ids = old.ids /\ j.offset = old.offset /\ j.chats = chats
      /\ j.inflight = old.inflight /\ j.success = old.success /\ j.failed = old.failed /\ j.read = read
      /\ j.need = old.need /\ j.behind = behind
      /\ j = [at |-> j.at, cmd |-> j.cmd, id |-> j.id, on |-> j.on, others |-> j.others, unread |-> j.unread, offset |-> j.offset,
               ids |-> j.ids, chats |-> j.chats, inflight |-> j.inflight, success |-> j.success, failed |-> j.failed,
               read |-> j.read, need |-> j.need, behind |-> j.behind]
  BY <1>0, <1>1 DEF ModForm
<1>3. ModForm(j)
  BY <1>1, <1>2 DEF ModForm
<1>4. OwnCommand(j)
  BY <1>2 DEF ModJob, OwnCommand
<1>5. RangeJob(j) /\ RecentJob(j)
  BY <1>2 DEF RangeJob, RecentJob
<1>6. BatchJob(j)
  BY <1>2 DEF ModJob, BatchJob
<1> QED BY <1>2, <1>3, <1>4, <1>5, <1>6

LEMMA UseListStep == ASSUME ModInv, NEW w \in Moderators, UseList(w) PROVE ModInv'
<1> PICK old : old = modding[w]
  OBVIOUS
<1>1. /\ ModAt(w, "super") /\ ModJob(old) /\ old.at = "super" /\ ChatSame
      /\ UNCHANGED <<modWorld, mode, chatLists, deleted, reports>>
  BY ModJobIs DEF UseList, ChatSame, people
<1>2. old.cmd.kind = "super"
  BY <1>1 DEF ModJob, ModForm, ModPlaces
<1>3. CASE ModGo(w, "list")
  BY <1>1, <1>2, <1>3, ModGoStep DEF ModPlaces
<1>4. CASE /\ cache # NoMod
           /\ modding' = [modding EXCEPT ![w].at = "batch", ![w].chats = cache.chats, ![w].read = cache.read,
                                         ![w].behind = oldBack]
  <2> PICK chats : chats = cache.chats
    OBVIOUS
  <2> PICK read : read = cache.read
    OBVIOUS
  <2> PICK behind : behind = oldBack
    OBVIOUS
  <2> PICK j : j = Listed(old, "batch", chats, read, behind)
    OBVIOUS
  <2>1. modding' = [modding EXCEPT ![w] = j]
    BY <1>4 DEF Listed
  <2>2. IsFiniteSet(chats) /\ read \in Nat /\ behind \in BOOLEAN /\ (read < renewed => behind) /\ renewed \in Nat
    BY <1>4 DEF ModInv, CacheInv
  <2>3. "batch" \in ModPlaces(old.cmd.kind)
    BY <1>2 DEF ModPlaces
  <2>4. /\ ModForm(j) /\ OwnCommand(j) /\ RangeJob(j) /\ RecentJob(j) /\ BatchJob(j)
        /\ j.at = "batch" /\ j.cmd = old.cmd /\ j.read = read /\ j.need = old.need /\ j.behind = behind
    <3>1. ModJob(old) /\ old.at # "batch" /\ old.cmd.kind \in {"super", "refresh"} /\ "batch" \in {"cache", "batch"}
      BY <1>1, <1>2
    <3>2. j = Listed(old, "batch", chats, read, behind)
      OBVIOUS
    <3> QED BY ONLY <2>2, <2>3, <3>1, <3>2, ListTaken
  <2>5. RefreshJob(j)
    <3>1. old.need \in Nat /\ old.need <= renewed
      BY <1>1 DEF ModJob, ModForm, RefreshJob
    <3>2. read < old.need => behind
      BY <2>2, <3>1
    <3>3. j.read < j.need => j.behind
      BY <2>4, <3>2, Zenon
    <3> QED BY <1>2, <2>4, <3>1, <3>3 DEF RefreshJob
  <2>6. ModJob(j)
    BY <2>4, <2>5 DEF ModJob
  <2> QED BY <1>1, <2>1, <2>6, QuietModStep
<1> QED BY <1>3, <1>4 DEF UseList

LEMMA ListManagedChatsStep == ASSUME ModInv, NEW w \in Moderators, ListManagedChats(w) PROVE ModInv'
<1> PICK old : old = modding[w]
  OBVIOUS
<1> PICK chats : chats = managed
  OBVIOUS
<1> PICK read : read = reading + 1
  OBVIOUS
<1> PICK behind : behind = old.behind
  OBVIOUS
<1> PICK j : j = Listed(old, "cache", chats, read, behind)
  OBVIOUS
<1>1. /\ ModJob(old) /\ old.at = "list" /\ ChatSame /\ reading' = read
      /\ UNCHANGED <<modWorld, mode, cache, renewed, oldBack, deleted, reports>>
      /\ modding' = [modding EXCEPT ![w].at = "cache", ![w].chats = managed, ![w].read = reading']
  BY ModJobIs DEF ListManagedChats, ChatSame, people
<1>2. old.cmd.kind \in {"super", "refresh"} /\ ModCommand(old.cmd) /\ "cache" \in ModPlaces(old.cmd.kind)
  <2>1. ModCommand(old.cmd)
    BY <1>1, ModJobIs DEF ListManagedChats
  <2> QED BY <1>1, <2>1 DEF ModJob, ModForm, ModPlaces, ModCommand
<1>3. modding' = [modding EXCEPT ![w] = j]
  <2>1. PICK most : most = [[[old EXCEPT !.at = "cache"] EXCEPT !.chats = chats] EXCEPT !.read = read]
    OBVIOUS
  <2>2. most.behind = behind /\ most =
          [at |-> most.at, cmd |-> most.cmd, id |-> most.id, on |-> most.on, others |-> most.others, unread |-> most.unread,
           offset |-> most.offset, ids |-> most.ids, chats |-> most.chats, inflight |-> most.inflight,
           success |-> most.success, failed |-> most.failed, read |-> most.read, need |-> most.need, behind |-> most.behind]
    BY <1>1, <2>1 DEF ModJob, ModForm
  <2>3. j = most
    BY <2>1, <2>2 DEF Listed
  <2>4. modding' = [modding EXCEPT ![w] = most]
    BY <1>1, <2>1
  <2> QED BY <2>3, <2>4
<1>4. reading \in Nat /\ renewed \in Nat /\ renewed <= reading /\ read \in Nat /\ IsFiniteSet(chats)
  BY DEF ModInv, CacheInv, TalkInv
<1>5. TalkInv' /\ TalkMoves /\ ModerationIsSound'
  BY <1>1, ChatStays, SoundStays DEF ModInv
<1>6. CacheInv'
  BY <1>1, <1>4 DEF ModInv, CacheInv
<1>7. \A k : ModJob(k) => RefreshJob(k)'
  <2>1. SUFFICES ASSUME NEW k, ModJob(k) PROVE RefreshJob(k)'
    OBVIOUS
  <2>2. RefreshJob(k) /\ k.read \in Nat
    BY <2>1 DEF ModJob, ModForm
  <2>3. k.at = "cache" => k.read <= reading'
    BY <1>1, <1>4, <2>2 DEF RefreshJob
  <2> QED BY <1>1, <2>2, <2>3 DEF RefreshJob
<1>8. behind \in BOOLEAN
  BY <1>1 DEF ModJob, ModForm
<1>9. /\ ModForm(j) /\ OwnCommand(j) /\ RangeJob(j) /\ RecentJob(j) /\ BatchJob(j)
      /\ j.at = "cache" /\ j.cmd = old.cmd /\ j.read = read /\ j.need = old.need
  <2>1. ModJob(old) /\ old.at # "batch" /\ "cache" \in {"cache", "batch"} /\ j = Listed(old, "cache", chats, read, behind)
    BY <1>1
  <2> QED BY ONLY <1>2, <1>4, <1>8, <2>1, ListTaken
<1>10. RefreshJob(j)'
  <2>1. old.need \in Nat /\ old.need <= renewed /\ (old.cmd.kind = "refresh" => cache = NoMod \/ oldBack)
    BY <1>1 DEF ModJob, ModForm, RefreshJob
  <2>2. ~ (j.read < j.need) /\ j.need <= renewed' /\ j.read <= reading'
    BY <1>1, <1>4, <1>9, <2>1
  <2>3. j.cmd.kind = "refresh" => cache' = NoMod \/ oldBack'
    BY <1>1, <1>9, <2>1, Zenon
  <2> QED BY <2>2, <2>3, Zenon DEF RefreshJob
<1>11. ModJob(j)'
  <2>1. ModForm(j)'
    BY <1>1, <1>9 DEF ModForm
  <2>2. OwnCommand(j)'
    BY <1>1, <1>9 DEF OwnCommand, ChatSame
  <2>3. BatchJob(j)'
    BY <1>9 DEF BatchJob
  <2>4. RangeJob(j)' /\ RecentJob(j)'
    BY <1>2, <1>9 DEF RangeJob, RecentJob
  <2> QED BY <1>10, <2>1, <2>2, <2>3, <2>4 DEF ModJob
<1>12. ASSUME NEW v \in Moderators \ {w}, modding[v] # NoMod PROVE RefreshJob(modding[v])'
  <2> PICK k : k = modding[v]
    OBVIOUS
  <2>1. modding'[v] = k /\ RefreshJob(k)'
    BY <1>3, <1>7, <1>12 DEF ModInv
  <2> QED BY <2>1
<1> QED BY <1>1, <1>3, <1>5, <1>6, <1>11, <1>12, ModStep

LEMMA ManagedChatsStep == ASSUME ModInv, NEW w \in Moderators, managedChats(w) PROVE ModInv'
<1> PICK old : old = modding[w]
  OBVIOUS
<1>1. /\ ModJob(old) /\ old.at = "cache" /\ ChatSame /\ UNCHANGED <<modWorld, mode, reading, deleted, reports>>
      /\ ModCommand(old.cmd)
      /\ \/ /\ cache' = [chats |-> old.chats, read |-> old.read, fresh |-> TRUE]
            /\ oldBack' = (old.read < renewed \/ Refreshing(w) \/ (old.cmd.kind = "super" /\ oldBack))
         \/ UNCHANGED <<cache, oldBack>>
  BY ModJobIs DEF managedChats, ChatSame, people
<1>2. CacheInv /\ old.read \in Nat /\ old.read <= reading /\ IsFiniteSet(old.chats)
      /\ (old.cmd.kind = "refresh" => cache = NoMod \/ oldBack)
  <2>1. ModForm(old) /\ RefreshJob(old) /\ BatchJob(old)
    BY <1>1 DEF ModJob
  <2> QED BY <1>1, <2>1 DEF ModInv, ModForm, RefreshJob, BatchJob
<1>3. TalkInv' /\ TalkMoves /\ ModerationIsSound'
  BY <1>1, ChatStays, SoundStays DEF ModInv
\* Whether or not the list could be stored.
<1>4. ASSUME renewed' = renewed \/ (old.cmd.kind = "refresh" /\ renewed' = Max({renewed, old.read}))
      PROVE  CacheInv' /\ renewed <= renewed'
  <2>1. /\ renewed \in Nat /\ reading \in Nat /\ renewed <= reading /\ oldBack \in BOOLEAN
        /\ cache # NoMod =>
             /\ cache = [chats |-> cache.chats, read |-> cache.read, fresh |-> cache.fresh]
             /\ IsFiniteSet(cache.chats) /\ cache.read \in Nat
             /\ cache.read < renewed => oldBack
    BY <1>2 DEF CacheInv
  <2>2. renewed' \in Nat /\ renewed <= renewed' /\ renewed' <= reading'
        /\ (renewed' # renewed => old.cmd.kind = "refresh" /\ renewed' = old.read)
    <3>1. Max({renewed, old.read}) \in {renewed, old.read} /\ renewed <= Max({renewed, old.read})
      <4>1. \A m \in {renewed, old.read} : Max({renewed, old.read}) \in {renewed, old.read} /\ m <= Max({renewed, old.read})
        BY <1>2, <2>1 DEF Max
      <4> QED BY <4>1
    <3> QED BY <1>1, <1>2, <1>4, <2>1, <3>1
  <2>3. CASE UNCHANGED <<cache, oldBack>>
    <3>1. cache' # NoMod => (cache'.read < renewed' => oldBack')
      BY <1>2, <2>1, <2>2, <2>3
    <3> QED BY <1>1, <2>1, <2>2, <2>3, <3>1 DEF CacheInv
  <2>4. CASE /\ cache' = [chats |-> old.chats, read |-> old.read, fresh |-> TRUE]
             /\ oldBack' = (old.read < renewed \/ Refreshing(w) \/ (old.cmd.kind = "super" /\ oldBack))
    <3>1. cache'.chats = old.chats /\ cache'.read = old.read
          /\ cache' = [chats |-> cache'.chats, read |-> cache'.read, fresh |-> cache'.fresh]
      BY <2>4
    <3>2. old.read < renewed => oldBack'
      BY <2>4, Zenon
    <3>3. old.read < renewed' => oldBack'
      <4>1. old.read < renewed' => old.read < renewed
        BY <1>2, <2>1, <2>2
      <4> QED BY <3>2, <4>1
    <3>4. oldBack' \in BOOLEAN
      BY <2>4, Zenon
    <3> QED BY <1>1, <1>2, <2>1, <2>2, <3>1, <3>3, <3>4 DEF CacheInv
  <2> QED BY <1>1, <2>2, <2>3, <2>4
<1>5. ASSUME NEW v \in Moderators \ {w}, modding[v] # NoMod, renewed <= renewed', renewed' \in Nat
      PROVE  RefreshJob(modding[v])'
  <2> PICK k : k = modding[v]
    OBVIOUS
  <2>1. ModJob(k) /\ RefreshJob(k) /\ k.need \in Nat /\ renewed \in Nat
    BY <1>2, <1>5 DEF ModInv, ModJob, ModForm, CacheInv
  <2>2. k.need <= renewed' /\ (k.at = "cache" => k.read <= reading')
    BY <1>1, <1>5, <2>1 DEF RefreshJob
  <2>3. k.cmd.kind = "refresh" /\ k.at \in {"list", "cache"} => cache' = NoMod \/ oldBack'
    <3>1. CASE UNCHANGED <<cache, oldBack>>
      BY <2>1, <3>1 DEF RefreshJob
    <3>2. CASE oldBack' = (old.read < renewed \/ Refreshing(w) \/ (old.cmd.kind = "super" /\ oldBack))
      <4>1. k.cmd.kind = "refresh" => Refreshing(w)
        BY <1>5 DEF Refreshing
      <4> QED BY <3>2, <4>1, Zenon
    <3> QED BY <1>1, <3>1, <3>2
  <2>4. k.at = "cache" \/ k.at = "batch" => (k.read < k.need => k.behind)
    BY <2>1, Zenon DEF RefreshJob
  <2>5. RefreshJob(k)'
    BY <2>2, <2>3, <2>4, Zenon DEF RefreshJob
  <2>6. modding'[v] = k
    BY DEF managedChats, ModInv, ModGo, ModEnds
  <2> QED BY <2>5, <2>6
<1>6. CASE old.cmd.kind = "refresh" /\ renewed' = Max({renewed, old.read}) /\ ModEnds(w)
  <2>1. CacheInv' /\ renewed <= renewed' /\ renewed' \in Nat
    BY <1>4, <1>6 DEF CacheInv
  <2>2. modding' = [modding EXCEPT ![w] = NoMod]
    BY <1>6 DEF ModEnds
  <2> QED BY <1>1, <1>3, <1>5, <2>1, <2>2, ModStep
<1>7. CASE old.cmd.kind # "refresh" /\ ModGo(w, "batch") /\ UNCHANGED renewed
  <2> PICK j : j = [old EXCEPT !.at = "batch"]
    OBVIOUS
  <2>1. CacheInv' /\ renewed <= renewed' /\ renewed' \in Nat
    BY <1>4, <1>7 DEF CacheInv
  <2>2. modding' = [modding EXCEPT ![w] = j]
    BY <1>7 DEF ModGo
  <2>3. old.cmd.kind = "super" /\ "batch" \in ModPlaces(old.cmd.kind)
    BY <1>1, <1>7 DEF ModJob, ModForm, ModPlaces, ModCommand
  <2>4. ModJob(j)
    BY <1>1, <2>3, ModGoes
  <2>5. RefreshJob(j)'
    <3>1. j.cmd = old.cmd /\ j.at = "batch" /\ RefreshJob(j)
      BY <1>1, <2>4 DEF ModJob, ModForm
    <3>2. j.need <= renewed' /\ j.cmd.kind # "refresh" /\ j.at # "cache"
      BY <1>7, <3>1 DEF RefreshJob
    <3>3. j.read < j.need => j.behind
      BY <3>1, Zenon DEF RefreshJob
    <3> QED BY <3>2, <3>3, Zenon DEF RefreshJob
  <2>6. ModJob(j)'
    BY <1>1, <1>3, <2>4, <2>5, JobStays DEF ModInv
  <2> QED BY <1>1, <1>3, <1>5, <2>1, <2>2, <2>6, ModStep
<1> QED BY <1>6, <1>7 DEF managedChats
-----------------------------------------------------------------------------
(* Moderation: all chats at once.                                           *)

Batched(j, inflight, success, failed) ==
  [[[j EXCEPT !.inflight = inflight] EXCEPT !.success = success] EXCEPT !.failed = failed]
LEMMA BatchStep ==
  ASSUME ModInv, NEW w \in Moderators, ModAt(w, "batch"), NEW inflight, NEW success, NEW failed,
         inflight \cup success \cup failed \subseteq modding[w].chats,
         inflight \cap success = {}, inflight \cap failed = {}, success \cap failed = {},
         modding' = [modding EXCEPT ![w] = Batched(modding[w], inflight, success, failed)],
         ChatSame, UNCHANGED <<modWorld, mode, chatLists, deleted, reports>>
  PROVE  ModInv'
<1> PICK old : old = modding[w]
  OBVIOUS
<1> PICK j : j = Batched(old, inflight, success, failed)
  OBVIOUS
<1>1. ModJob(old) /\ old.at = "batch"
  BY ModJobIs
<1>2. /\ j.at = old.at /\ j.cmd = old.cmd /\ j.id = old.id /\ j.on = old.on /\ j.others = old.others
      /\ j.unread = old.unread /\ j.ids = old.ids /\ j.offset = old.offset /\ j.chats = old.chats
      /\ j.inflight = inflight /\ j.success = success /\ j.failed = failed /\ j.read = old.read
      /\ j.need = old.need /\ j.behind = old.behind
      /\ j = [at |-> j.at, cmd |-> j.cmd, id |-> j.id, on |-> j.on, others |-> j.others, unread |-> j.unread, offset |-> j.offset,
               ids |-> j.ids, chats |-> j.chats, inflight |-> j.inflight, success |-> j.success, failed |-> j.failed,
               read |-> j.read, need |-> j.need, behind |-> j.behind]
  BY <1>1 DEF ModJob, ModForm, Batched
<1>3. ModForm(j) /\ OwnCommand(j)
  <2>1. ModForm(j)
    BY <1>1, <1>2 DEF ModJob, ModForm
  <2>2. OwnCommand(j)
    BY <1>1, <1>2 DEF ModJob, OwnCommand
  <2> QED BY <2>1, <2>2
<1>4. RangeJob(j) /\ RecentJob(j)
  BY <1>1, <1>2 DEF ModJob, RangeJob, RecentJob, ModForm, ModPlaces
<1>5. BatchJob(j)
  BY <1>1, <1>2 DEF ModJob, BatchJob
<1>6. RefreshJob(j)
  BY <1>1, <1>2 DEF ModJob, RefreshJob
<1>7. ModJob(j)
  BY <1>3, <1>4, <1>5, <1>6 DEF ModJob
<1> QED BY <1>7, QuietModStep

LEMMA DispatchStep == ASSUME ModInv, NEW w \in Moderators, ModAt(w, "batch"), Dispatch(w) PROVE ModInv'
<1> PICK old : old = modding[w]
  OBVIOUS
<1>1. PICK c \in old.chats :
        /\ c \notin old.inflight \cup old.success \cup old.failed
        /\ modding' = [modding EXCEPT ![w].inflight = @ \cup {c}]
        /\ ChatSame /\ UNCHANGED <<modWorld, mode, chatLists, deleted, reports>>
  BY DEF Dispatch, ChatSame, people
<1>2. ModForm(old) /\ BatchJob(old)
  BY ModJobIs DEF ModJob
<1> PICK inflight : inflight = old.inflight \cup {c}
  OBVIOUS
<1>3. modding' = [modding EXCEPT ![w] = Batched(old, inflight, old.success, old.failed)]
  <2> PICK j : j = [old EXCEPT !.inflight = inflight]
    OBVIOUS
  <2>1. modding' = [modding EXCEPT ![w] = j]
    BY <1>1
  <2>2. j = [at |-> j.at, cmd |-> j.cmd, id |-> j.id, on |-> j.on, others |-> j.others, unread |-> j.unread, offset |-> j.offset,
               ids |-> j.ids, chats |-> j.chats, inflight |-> j.inflight, success |-> old.success, failed |-> old.failed,
               read |-> j.read, need |-> j.need, behind |-> j.behind]
    BY <1>2 DEF ModForm
  <2>3. j = Batched(old, inflight, old.success, old.failed)
    BY <2>2 DEF Batched
  <2> QED BY <2>1, <2>3
<1>4. /\ inflight \cup old.success \cup old.failed \subseteq old.chats
      /\ inflight \cap old.success = {} /\ inflight \cap old.failed = {} /\ old.success \cap old.failed = {}
  BY <1>1, <1>2 DEF BatchJob
<1> PICK success : success = old.success
  OBVIOUS
<1> PICK failed : failed = old.failed
  OBVIOUS
<1>5. /\ ModInv /\ ModAt(w, "batch") /\ inflight \cup success \cup failed \subseteq modding[w].chats
      /\ inflight \cap success = {} /\ inflight \cap failed = {} /\ success \cap failed = {}
      /\ modding' = [modding EXCEPT ![w] = Batched(modding[w], inflight, success, failed)]
      /\ ChatSame /\ UNCHANGED <<modWorld, mode, chatLists, deleted, reports>>
  BY <1>1, <1>3, <1>4
<1> QED BY ONLY <1>5, w \in Moderators, BatchStep

LEMMA CalledStep == ASSUME ModInv, NEW w \in Moderators, ModAt(w, "batch"), Called(w) PROVE ModInv'
<1> PICK old : old = modding[w]
  OBVIOUS
<1>1. PICK c \in old.inflight :
        /\ \/ modding' = [modding EXCEPT ![w].inflight = @ \ {c}, ![w].success = @ \cup {c}]
           \/ modding' = [modding EXCEPT ![w].inflight = @ \ {c}, ![w].failed = @ \cup {c}]
        /\ ChatSame /\ UNCHANGED <<modWorld, mode, chatLists, deleted, reports>>
  BY DEF Called, ChatSame
<1>2. ModForm(old) /\ BatchJob(old)
  BY ModJobIs DEF ModJob
<1> PICK inflight : inflight = old.inflight \ {c}
  OBVIOUS
<1>3. CASE modding' = [modding EXCEPT ![w].inflight = @ \ {c}, ![w].success = @ \cup {c}]
  <2> PICK success : success = old.success \cup {c}
    OBVIOUS
  <2> PICK j : j = [[old EXCEPT !.inflight = inflight] EXCEPT !.success = success]
    OBVIOUS
  <2>1. modding' = [modding EXCEPT ![w] = j]
    BY <1>2, <1>3 DEF ModForm
  <2>2. j = [at |-> j.at, cmd |-> j.cmd, id |-> j.id, on |-> j.on, others |-> j.others, unread |-> j.unread, offset |-> j.offset,
               ids |-> j.ids, chats |-> j.chats, inflight |-> j.inflight, success |-> j.success, failed |-> old.failed,
               read |-> j.read, need |-> j.need, behind |-> j.behind]
    BY <1>2 DEF ModForm
  <2>3. j = Batched(old, inflight, success, old.failed)
    BY <2>2 DEF Batched
  <2>4. /\ inflight \cup success \cup old.failed \subseteq old.chats
        /\ inflight \cap success = {} /\ inflight \cap old.failed = {} /\ success \cap old.failed = {}
    BY <1>2 DEF BatchJob
  <2> PICK failed : failed = old.failed
    OBVIOUS
  <2>5. /\ ModInv /\ ModAt(w, "batch") /\ inflight \cup success \cup failed \subseteq modding[w].chats
        /\ inflight \cap success = {} /\ inflight \cap failed = {} /\ success \cap failed = {}
        /\ modding' = [modding EXCEPT ![w] = Batched(modding[w], inflight, success, failed)]
        /\ ChatSame /\ UNCHANGED <<modWorld, mode, chatLists, deleted, reports>>
    BY <1>1, <2>1, <2>3, <2>4
  <2> QED BY ONLY <2>5, w \in Moderators, BatchStep
<1>4. CASE modding' = [modding EXCEPT ![w].inflight = @ \ {c}, ![w].failed = @ \cup {c}]
  <2> PICK failed : failed = old.failed \cup {c}
    OBVIOUS
  <2> PICK j : j = [[old EXCEPT !.inflight = inflight] EXCEPT !.failed = failed]
    OBVIOUS
  <2>1. modding' = [modding EXCEPT ![w] = j]
    BY <1>2, <1>4 DEF ModForm
  <2>2. j = Batched(old, inflight, old.success, failed)
    <3>1. PICK half : half = [old EXCEPT !.inflight = inflight]
      OBVIOUS
    <3>2. PICK more : more = [half EXCEPT !.success = old.success]
      OBVIOUS
    <3>3. /\ half = [at |-> half.at, cmd |-> half.cmd, id |-> half.id, on |-> half.on, others |-> half.others,
                     unread |-> half.unread, offset |-> half.offset, ids |-> half.ids, chats |-> half.chats,
                     inflight |-> half.inflight, success |-> half.success, failed |-> half.failed,
                     read |-> half.read, need |-> half.need, behind |-> half.behind]
          /\ half.success = old.success
      BY <1>2, <3>1 DEF ModForm
    <3>4. more = half
      BY <3>2, <3>3
    <3>5. Batched(old, inflight, old.success, failed) = [half EXCEPT !.failed = failed]
      BY <3>1, <3>2, <3>4 DEF Batched
    <3> QED BY <3>1, <3>5
  <2>3. /\ inflight \cup old.success \cup failed \subseteq old.chats
        /\ inflight \cap old.success = {} /\ inflight \cap failed = {} /\ old.success \cap failed = {}
    BY <1>2 DEF BatchJob
  <2> PICK success : success = old.success
    OBVIOUS
  <2>4. /\ ModInv /\ ModAt(w, "batch") /\ inflight \cup success \cup failed \subseteq modding[w].chats
        /\ inflight \cap success = {} /\ inflight \cap failed = {} /\ success \cap failed = {}
        /\ modding' = [modding EXCEPT ![w] = Batched(modding[w], inflight, success, failed)]
        /\ ChatSame /\ UNCHANGED <<modWorld, mode, chatLists, deleted, reports>>
    BY <1>1, <2>1, <2>2, <2>3
  <2> QED BY ONLY <2>4, w \in Moderators, BatchStep
<1> QED BY <1>1, <1>3, <1>4

LEMMA SuperModerateStep == ASSUME ModInv, NEW w \in Moderators, ModAt(w, "batch"), superModerate(w) PROVE ModInv'
<1> PICK old : old = modding[w]
  OBVIOUS
<1>1. /\ ModJob(old) /\ old.at = "batch" /\ modding' = [modding EXCEPT ![w] = NoMod] /\ ChatSame
      /\ UNCHANGED <<modWorld, mode, chatLists, deleted>> /\ old.chats = old.success \cup old.failed
  BY ModJobIs DEF superModerate, ChatSame, people, ModEnds, AllEnded
<1>2. TalkInv' /\ TalkMoves /\ CacheInv' /\ \A v \in Moderators \ {w} : modding[v] # NoMod => RefreshJob(modding[v])'
  BY <1>1, ChatStays, ListStays, OthersStay DEF ModInv
<1>3. Cardinality(old.success) + Cardinality(old.failed) = Cardinality(old.chats)
  <2>1. IsFiniteSet(old.chats) /\ old.success \cap old.failed = {}
    BY <1>1 DEF ModJob, BatchJob
  <2>2. IsFiniteSet(old.success) /\ IsFiniteSet(old.failed)
    BY <1>1, <2>1, FS_Subset
  <2>3. Cardinality(old.success \cup old.failed) =
          Cardinality(old.success) + Cardinality(old.failed) - Cardinality(old.success \cap old.failed)
    BY <2>2, FS_Union
  <2>4. Cardinality(old.success \cap old.failed) = 0
    BY <2>1, FS_EmptySet
  <2>5. Cardinality(old.success) \in Nat /\ Cardinality(old.failed) \in Nat
    BY <2>2, FS_CardinalityType
  <2> QED BY <1>1, <2>3, <2>4, <2>5
<1> PICK stale : stale = (old.read < old.need /\ ~old.behind)
  OBVIOUS
<1> PICK r : r = [success |-> Cardinality(old.success), failed |-> Cardinality(old.failed), all |-> Cardinality(old.chats),
                  old |-> stale]
  OBVIOUS
<1>4. ~stale
  <2>1. old.read < old.need => old.behind
    BY <1>1, Zenon DEF ModJob, RefreshJob
  <2> QED BY <2>1, Zenon
<1>5. reports' = reports \/ reports' = reports \cup {r}
  BY DEF superModerate
<1>6. r.success + r.failed = r.all /\ ~r.old
  BY <1>3, <1>4
<1>7. ModerationIsSound'
  <2>1. OthersSpared' /\ OwnAreTaken'
    BY <1>1 DEF ModInv, ModerationIsSound, OthersSpared, OwnAreTaken
  <2>2. RefreshHolds' /\ CountsAddUp'
    BY <1>5, <1>6 DEF ModInv, ModerationIsSound, RefreshHolds, CountsAddUp
  <2> QED BY <2>1, <2>2 DEF ModerationIsSound
<1> QED BY <1>1, <1>2, <1>7, ModStep
-----------------------------------------------------------------------------
(* Moderation: the invariant holds.                                         *)

LEMMA ModStutter == ASSUME ModInv, UNCHANGED modVars PROVE ModInv'
<1>1. ChatSame /\ UNCHANGED <<modding, modWorld, mode, chatLists, deleted, reports>>
  BY DEF modVars, ChatSame, chatLists
<1>2. TalkInv' /\ TalkMoves /\ CacheInv' /\ ModerationIsSound' /\ \A j : RefreshJob(j) => RefreshJob(j)'
  BY <1>1, ChatStays, ListStays, SoundStays DEF ModInv
<1> QED BY <1>1, <1>2, ModOutside

LEMMA ModNextStep == ASSUME ModInv, [ModNext]_modVars PROVE ModInv'
<1>1. CASE UNCHANGED modVars
  BY <1>1, ModStutter
<1>2. CASE ModRestarts \/ RightsGo \/ XWrites \/ ListExpires
  BY <1>2, ModRestartsStep, RightsGoStep, XWritesStep, ListExpiresStep
<1>3. ASSUME NEW w \in Moderators,
             \/ ModHandle(w) \/ ModFails(w) \/ saveMode(w) \/ loadMode(w) \/ deleteRange(w) \/ deleteRecentOwn(w)
             \/ DeleteMessages(w) \/ MayBan(w) \/ DeleteUserHistory(w) \/ moderate(w)
      PROVE  ModInv'
  BY <1>3, ModHandleStep, ModFailsStep, SaveModeStep, LoadModeStep, DeleteRangeStep, DeleteRecentOwnStep,
     DeleteMessagesStep, MayBanStep, DeleteUserHistoryStep, ModerateStep
<1>4. ASSUME NEW w \in Moderators, DropList(w) \/ UseList(w) \/ ListManagedChats(w) \/ managedChats(w) PROVE ModInv'
  BY <1>4, DropListStep, UseListStep, ListManagedChatsStep, ManagedChatsStep
<1>5. ASSUME NEW w \in Moderators, batchModerate(w) PROVE ModInv'
  BY <1>5, DispatchStep, CalledStep, SuperModerateStep DEF batchModerate
<1> QED BY <1>1, <1>2, <1>3, <1>4, <1>5 DEF ModNext

\* Whatever is typed in the chats, whatever fails and whatever others write there, the invariant of the
\* moderation holds (aban.go:121-312, bulkdelete.go:57-199).
THEOREM ModInvariance == ModSpec => []ModInv
<1>1. (\E world \in ModWorlds : ModInit(world)) => ModInv
  BY ModStart
<1>2. ModInv /\ [ModNext]_modVars => ModInv'
  BY ModNextStep
<1> QED BY <1>1, <1>2, PTL DEF ModSpec

\* Only messages asked for are deleted, all of the owner's last ones are, a refreshed list is used, and the counts
\* of a batch add up (ModerationIsSound).
THEOREM ModSound == ModSpec => []ModerationIsSound
<1>1. ModInv => ModerationIsSound
  BY DEF ModInv
<1> QED BY <1>1, ModInvariance, PTL
-----------------------------------------------------------------------------
(* The three together.                                                      *)

\* What the chat tools answer holds: rules are kept, searches and moderation are sound (ChatToolsAreSound).
THEOREM ChatToolsSound == TraceSpec /\ SearchSpec /\ ModSpec => []ChatToolsAreSound
<1>1. RulesAreKept /\ SearchIsSound /\ ModerationIsSound => ChatToolsAreSound
  BY DEF ChatToolsAreSound
<1> QED BY <1>1, TraceSound, SearchSound, ModSound, PTL
=============================================================================
