----------------------------- MODULE PMCaptcha ------------------------------
(***************************************************************************)
(* The pmcaptcha plugin: strangers who write to the account are asked a    *)
(* question before they may go on, and a flood of strangers is shut out.   *)
(*                                                                         *)
(* One mutex guards the state, and the whole state is written to one row   *)
(* under it; but no call to Telegram is made under it.  A message is       *)
(* handled by a worker of the host; the timers of the questions and of the *)
(* flood, and the repeated punishments, are goroutines of the plugin.  An  *)
(* action below is what runs between two calls, or one call.               *)
(*                                                                         *)
(* The right answer of a math question is its number; 0 is the answer of a *)
(* question that has none yet.  Texts, statistics and the deletion of sent *)
(* messages are left out.                                                  *)
(***************************************************************************)
EXTENDS Naturals, FiniteSets

CONSTANTS
  Strangers,      \* [user -> [premium, common, history]]
  Helpers,        \* workers of the host that call the plugin
  Goroutines,     \* bound: timers that may be in their handlers at once
  CaptchaWorlds,  \* [config, auto]: what the plugin and the account start with
  Says,           \* messages: [number (or Nothing), sticker, word]
  Settings,       \* bound: the configurations a command may lead to
  Exports,        \* configurations in files that may be imported
  MaxMessages,    \* bound: messages and commands
  MaxChallenges,  \* bound: questions
  MaxFloods,      \* bound: floods
  CaptchaFaults,  \* bound: calls and writes that fail, and ends of the plugin
  Nothing

Users == DOMAIN Strangers
Numbers == 0 .. MaxChallenges
Types == {"math", "sticker", "img"}
Actions == {"ban", "delete", "none"}
Premiums == {"allow", "ban", "only", "none"}
FloodActions == {"asis", "delete", "captcha", "none"}

Flags == [active : BOOLEAN, users : SUBSET Users, recent : SUBSET Users,
          auto : BOOLEAN, name : BOOLEAN, channel : BOOLEAN]

ASSUME CaptchaAssumption ==
  /\ \A world \in CaptchaWorlds : world.auto \in BOOLEAN /\ world.config.action \in Actions
  /\ \A config \in Settings : config.action \in Actions
  /\ Nothing \notin Flags
  /\ IsFiniteSet(Users) /\ Helpers # {} /\ Helpers \cap Goroutines = {}
  /\ MaxMessages \in Nat /\ MaxChallenges \in Nat /\ MaxFloods \in Nat
  /\ CaptchaFaults \in Nat

VARIABLES
  alive,      \* the plugin is started
  mem, row,   \* its state in memory, and as it is stored
  timers,     \* challengeTimers: [user -> number of the question, or Nothing]
  floodTimer, \* a timer for the end of the flood is armed
  quiet,      \* five minutes have passed since Flood.LastMessageAt
  jobs,       \* [thread -> what it is doing]
  retries,    \* punishments that will be repeated
  account,    \* what Telegram holds: [blocked, archived, auto, name, channel]
  faults,     \* how many calls and writes have failed, and ends there were
  used,       \* how much of the other bounds is used
  past        \* history
captchaVars == <<alive, mem, row, timers, floodTimer, quiet, jobs, retries, account, faults, used, past>>
state == <<alive, mem, row>>
timing == <<timers, floodTimer, quiet>>

Threads == Helpers \cup Goroutines
Resting == [at |-> "idle", user |-> Nothing, c |-> Nothing, says |-> Nothing,
            config |-> Nothing, users |-> {}, flood |-> Nothing]
NoFlood == [active |-> FALSE, users |-> {}, recent |-> {}, auto |-> FALSE,
            name |-> FALSE, channel |-> FALSE]
Fresh(config) ==
  [config |-> config, verified |-> {}, flood |-> NoFlood,
   pending |-> [u \in Users |-> Nothing]]

CaptchaInit(world) ==
  /\ alive = FALSE /\ mem = Fresh(world.config) /\ row = Fresh(world.config)
  /\ timers = [u \in Users |-> Nothing] /\ floodTimer = FALSE /\ quiet = FALSE
  /\ jobs = [t \in Threads |-> Resting] /\ retries = {} /\ faults = 0
  /\ account = [blocked |-> {}, archived |-> {}, auto |-> world.auto,
                name |-> "account", channel |-> FALSE]
  /\ used = [messages |-> 0, challenges |-> 0, floods |-> 0]
  /\ past = [ended |-> [n \in Numbers |-> 0], revived |-> {}, untimed |-> {}, crossed |-> {},
             unsaved |-> FALSE, cut |-> FALSE, auto |-> world.auto]
-----------------------------------------------------------------------------
(* Steps of a thread.                                                      *)

At(t, step) == alive /\ jobs[t].at = step
Goto(t, step) ==
  jobs' = [jobs EXCEPT ![t] =
    IF step # "done" THEN [@ EXCEPT !.at = step]
    ELSE IF @.flood # Nothing THEN [@ EXCEPT !.at = "next"] ELSE Resting]
Counting(what) == used' = [used EXCEPT ![what] = @ + 1]
CanFail == faults < CaptchaFaults /\ faults' = faults + 1
Quietly == UNCHANGED <<state, timing, retries, used, past>>

\* A call to Telegram has its effect, or fails: the next step is the first or
\* the second.
Call(t, effect, ok, failed) ==
  /\ Quietly
  /\ \/ account' = effect /\ Goto(t, ok) /\ UNCHANGED faults
     \/ CanFail /\ Goto(t, failed) /\ UNCHANGED account

\* A call that puts something of the account back: it is made once.
PutBack(t, step, effect, next) ==
  /\ At(t, step) /\ Goto(t, next) /\ UNCHANGED <<state, timing, retries, used>>
  /\ \/ account' = effect /\ UNCHANGED <<faults, past>>
     \/ CanFail /\ past' = [past EXCEPT !.cut = TRUE] /\ UNCHANGED account

\* persistLocked: the state in memory becomes new, and the row too unless the
\* write fails.
Write(new) ==
  /\ mem' = new
  /\ \/ row' = new /\ UNCHANGED faults
     \/ row' = row /\ CanFail
Saved == faults' = faults
Persist(new, t, ok, failed) ==
  /\ Write(new) /\ Goto(t, IF Saved THEN ok ELSE failed) /\ UNCHANGED <<alive, retries, account>>
RememberCut == past' = [past EXCEPT !.unsaved = @ \/ ~Saved, !.cut = @ \/ ~Saved]
Remember == past' = [past EXCEPT !.unsaved = @ \/ ~Saved]

Archived(u, yes) == [account EXCEPT !.archived = IF yes THEN @ \cup {u} ELSE @ \ {u}]
Blocked(u, yes) == [account EXCEPT !.blocked = IF yes THEN @ \cup {u} ELSE @ \ {u}]
Erased(u) == [account EXCEPT !.archived = @ \ {u}]
-----------------------------------------------------------------------------
(* Start, Stop and the end of the process.                                 *)

\* Start: what is stored is taken up again, with its timers.
Limited(type) == type \in mem.config.limited
Resume ==
  LET asked == {u \in Users : row.pending[u] # Nothing}
      timed == {u \in asked : row.pending[u].type \in row.config.limited} IN
  /\ ~alive /\ alive' = TRUE /\ mem' = row
  /\ timers' = [u \in Users |-> IF u \in timed THEN row.pending[u].id ELSE Nothing]
  /\ floodTimer' = row.flood.active
  /\ past' = [past EXCEPT !.unsaved = FALSE,
                         !.untimed = @ \cup {row.pending[u].id : u \in asked \ timed}]
  /\ UNCHANGED <<row, quiet, jobs, retries, account, faults, used>>

\* Stop ends the timers and stores the state; a crash ends everything.
Cease(stored) ==
  /\ alive /\ CanFail
  /\ alive' = FALSE /\ row' = IF stored THEN mem ELSE row
  /\ timers' = [u \in Users |-> Nothing] /\ floodTimer' = FALSE /\ retries' = {}
  /\ jobs' = [t \in Threads |-> Resting]
  /\ past' = [past EXCEPT !.cut = @ \/ \E t \in Threads :
                 jobs[t].flood # Nothing \/ jobs[t].at \in {"readAuto", "keepAuto"}]
  /\ UNCHANGED <<mem, quiet, account, used>>
\* The host stops a plugin that is not in a call.
StopPlugin == (\A t \in Threads : jobs[t] = Resting) /\ Cease(TRUE)
Killed == Cease(FALSE)
-----------------------------------------------------------------------------
(* A message arrives.                                                      *)

\* The rules that decide before a question is asked, in their order.
Verdict(config, u, says) ==
  LET user == Strangers[u] IN
  CASE config.rule /\ says.word = "rule" -> "done"
    [] config.disabled -> "punish"
    [] config.history /\ user.history -> "trust"
    [] config.groups /\ user.common -> "trust"
    [] config.premium = "allow" /\ user.premium -> "trust"
    [] config.premium = "ban" /\ user.premium -> "punish"
    [] config.premium = "only" -> IF user.premium THEN "trust" ELSE "punish"
    [] config.whitelist /\ says.word = "white" -> "trust"
    [] config.blacklist /\ says.word = "black" -> "punish"
    [] OTHER -> "observe"

\* A worker takes a message or a command about a user, with what it reads of
\* the state before it lets go of the mutex.
Take(t, u, step, c, says) ==
  /\ At(t, "idle") /\ t \in Helpers /\ used.messages < MaxMessages /\ Counting("messages")
  /\ jobs' = [jobs EXCEPT ![t] = [Resting EXCEPT !.at = step, !.user = u, !.c = c, !.says = says]]
  /\ UNCHANGED <<state, floodTimer, quiet, retries, account, faults>>

\* handleIncoming: what is pending is read, and answered later.
Receive(t, u, says) ==
  LET c == mem.pending[u] IN
  /\ u \notin account.blocked /\ u \notin mem.verified
  /\ Take(t, u, IF c = Nothing THEN "rules" ELSE "verify", c, says) /\ UNCHANGED <<timers, past>>

\* ResolveUser may fail; a contact, an official account and a bot are let be.
Rules(t) ==
  /\ At(t, "rules") /\ Quietly /\ UNCHANGED account
  /\ \/ CanFail /\ Goto(t, "done")
     \/ LET v == Verdict(mem.config, jobs[t].user, jobs[t].says) IN
        /\ UNCHANGED faults
        /\ jobs' = [jobs EXCEPT ![t] = IF v = "done" THEN Resting
                      ELSE [@ EXCEPT !.at = v, !.config = mem.config]]

\* setVerified after a rule: a question that is pending stays.
Trust(t) ==
  /\ At(t, "trust") /\ Persist([mem EXCEPT !.verified = @ \cup {jobs[t].user}], t, "done", "done")
  /\ Remember /\ UNCHANGED <<timing, used>>

\* punishDirect counts the ban and punishes.
PunishDirect(t) ==
  /\ At(t, "punish") /\ Persist(mem, t, "notice", "done") /\ Remember /\ UNCHANGED <<timing, used>>

\* handleOutgoing: whom the owner writes to is trusted, and that is all.
OwnerWrites(t, u) ==
  /\ At(t, "idle") /\ t \in Helpers /\ used.messages < MaxMessages /\ Counting("messages")
  /\ mem.config.initiative /\ u \notin mem.verified
  /\ Write([mem EXCEPT !.verified = @ \cup {u}]) /\ Remember
  /\ UNCHANGED <<alive, timing, jobs, retries, account>>
-----------------------------------------------------------------------------
(* A question is asked.                                                    *)

\* Mutant of Arm: a timer that is armed already is left as it is.
ArmOnce(u, c) ==
  IF timers[u] # Nothing THEN timers
  ELSE [timers EXCEPT ![u] = IF Limited(c.type) THEN c.id ELSE Nothing]

\* scheduleChallengeTimer takes the place of the timer before it.
Arm(u, c) == [timers EXCEPT ![u] = IF Limited(c.type) THEN c.id ELSE Nothing]
Disarm(u) == [timers EXCEPT ![u] = Nothing]

NewId == used.challenges + 1
Question(type) == [id |-> NewId, type |-> type, answer |-> 0, tries |-> 0]

\* startChallenge up to the unlock.
AlreadyAsked(t) ==
  /\ At(t, "begin") /\ Goto(t, "done") /\ Quietly /\ UNCHANGED <<account, faults>>
  /\ jobs[t].user \in mem.verified \/ mem.pending[jobs[t].user] # Nothing
Begin(t) ==
  LET u == jobs[t].user c == Question(jobs[t].config.type) IN
  /\ At(t, "begin") /\ u \notin mem.verified /\ mem.pending[u] = Nothing
  /\ used.challenges < MaxChallenges /\ Counting("challenges")
  /\ UNCHANGED <<alive, timing, retries, account, past>>
  /\ \/ /\ UNCHANGED faults /\ mem' = [mem EXCEPT !.pending[u] = c] /\ row' = mem'
        /\ jobs' = [jobs EXCEPT ![t].at = "archive", ![t].c = c]
     \/ CanFail /\ UNCHANGED <<mem, row>> /\ Goto(t, "done")

\* The chat is archived; if it cannot be, the question is asked all the same.
Archive(t) == At(t, "archive") /\ Call(t, Archived(jobs[t].user, TRUE), "send", "send")

\* SendText, or the intro and the inline result of the image bot.
Send(t) ==
  /\ At(t, "send")
  /\ Call(t, account, "save", IF jobs[t].c.type = "img" THEN "fallback" ELSE "remove")

\* removeChallenge, after the question could not be sent.
RemoveChallenge(t) ==
  LET u == jobs[t].user IN
  /\ At(t, "remove") /\ Persist([mem EXCEPT !.pending[u] = Nothing], t, "done", "done")
  /\ timers' = Disarm(u) /\ Remember /\ UNCHANGED <<floodTimer, quiet, used>>

\* fallbackToMath: the question that is pending now becomes another.
Fallback(t) ==
  LET c == mem.pending[jobs[t].user] IN
  /\ At(t, "fallback") /\ UNCHANGED <<state, timing, retries, account, faults, past>>
  /\ \/ c = Nothing /\ Goto(t, "done") /\ UNCHANGED used
     \/ /\ c # Nothing /\ used.challenges < MaxChallenges /\ Counting("challenges")
        /\ jobs' = [jobs EXCEPT ![t].at = "send", ![t].c = Question("math")]

\* saveChallenge writes the copy, whatever has become of the question.
Save(t) ==
  LET c == [jobs[t].c EXCEPT !.answer = IF jobs[t].c.type = "math" THEN jobs[t].c.id ELSE 0]
  IN /\ At(t, "save")
     /\ Persist([mem EXCEPT !.pending[jobs[t].user] = c], t, IF c.type = "img" THEN "shut" ELSE "arm", "done")
     /\ past' = [past EXCEPT !.revived = IF past.ended[c.id] > 0 THEN @ \cup {c.id} ELSE @,
                            !.unsaved = @ \/ ~Saved]
     /\ UNCHANGED <<timing, used>>

\* Someone who has to solve an image is blocked meanwhile.
Shut(t) == At(t, "shut") /\ Call(t, Blocked(jobs[t].user, TRUE), "arm", "arm")

\* Its timer is the person's only one: that of another question is lost.
Untimed(c) == past.untimed \cup (IF Limited(c.type) THEN {} ELSE {c.id})
Armed(t, next) ==
  LET u == jobs[t].user c == jobs[t].c
      lost == mem.pending[u] # Nothing /\ mem.pending[u].id # c.id IN
  /\ Goto(t, next) /\ timers' = Arm(u, c)
  /\ past' = [past EXCEPT !.untimed = Untimed(c), !.crossed = @ \cup IF lost THEN {mem.pending[u].id} ELSE {}]
  /\ UNCHANGED <<state, floodTimer, quiet, retries, account, faults, used>>
Schedule(t) == At(t, "arm") /\ Armed(t, "done")
-----------------------------------------------------------------------------
(* A question is answered.                                                 *)

\* verifyChallenge looks at the copy that was read when the message came.
Verify(t) ==
  LET c == jobs[t].c says == jobs[t].says
      right == CASE c.type = "math" -> says.number = c.answer [] OTHER -> says.sticker
  IN /\ At(t, "verify") /\ Quietly /\ UNCHANGED <<account, faults>>
     /\ Goto(t, IF c.type = "img" THEN "done" ELSE IF right THEN "complete" ELSE "fail")

\* The question has not been replaced since c was read.
Matches(u, c) == mem.pending[u] # Nothing /\ mem.pending[u].id = c.id

\* Mutant of Over: the question is kept until its outcome is carried out.
StillPending(u, verified) == [mem EXCEPT !.verified = verified]

\* The state once a question is over.
Over(u, verified) == [mem EXCEPT !.pending[u] = Nothing, !.verified = verified]

Ends(u) == past' = [past EXCEPT !.ended[mem.pending[u].id] = IF Saved THEN @ + 1 ELSE @,
                               !.unsaved = @ \/ ~Saved]

\* completeChallenge ends whatever question is pending.
Complete(t) ==
  LET u == jobs[t].user c == mem.pending[u] IN
  /\ At(t, "complete") /\ UNCHANGED used
  /\ \/ c = Nothing /\ Goto(t, "done") /\ UNCHANGED <<state, timing, retries, account, faults, past>>
     \/ /\ c # Nothing /\ timers' = Disarm(u) /\ UNCHANGED <<floodTimer, quiet>>
        /\ Persist(Over(u, mem.verified \cup {u}), t, IF c.type = "img" THEN "open" ELSE "release", "done")
        /\ Ends(u)
Open(t) == At(t, "open") /\ Call(t, Blocked(jobs[t].user, FALSE), "release", "release")
Release(t) == At(t, "release") /\ Call(t, Archived(jobs[t].user, FALSE), "done", "done")

\* failChallenge ends the question it was called for.
Fail(t) ==
  LET u == jobs[t].user c == mem.pending[u] IN
  /\ At(t, "fail") /\ UNCHANGED <<alive, retries, account, used>>
  /\ \/ ~Matches(u, jobs[t].c) /\ Goto(t, "done") /\ UNCHANGED <<mem, row, timing, faults, past>>
     \/ /\ Matches(u, jobs[t].c) /\ timers' = Disarm(u) /\ UNCHANGED <<floodTimer, quiet>>
        /\ Write(Over(u, mem.verified)) /\ Ends(u)
        /\ IF Saved THEN jobs' = [jobs EXCEPT ![t].config = mem.config,
                                   ![t].at = IF c.type = "img" THEN "reopen" ELSE "notice"]
           ELSE Goto(t, "done")
Reopen(t) == At(t, "reopen") /\ Call(t, Blocked(jobs[t].user, FALSE), "notice", "notice")

\* punish: the notice, and what the configured action asks for.
Notice(t) ==
  /\ At(t, "notice") /\ Quietly /\ UNCHANGED <<account, faults>>
  /\ Goto(t, IF jobs[t].config.action = "none" THEN "release" ELSE "block")
Block(t) ==
  LET action == jobs[t].config.action IN
  At(t, "block") /\ Call(t, Blocked(jobs[t].user, TRUE), action, action)

\* The archive or the deletion is repeated after five and fifteen seconds.
Carry(what, u) == account' = IF what = "ban" THEN Archived(u, TRUE) ELSE Erased(u)
Finish(t) ==
  LET what == jobs[t].at u == jobs[t].user IN
  /\ alive /\ what \in {"ban", "delete"} /\ Goto(t, "done")
  /\ retries' = retries \cup {[user |-> u, what |-> what]}
  /\ \/ Carry(what, u) /\ UNCHANGED faults
     \/ CanFail /\ UNCHANGED account
  /\ UNCHANGED <<state, timing, used, past>>
Retry(r) ==
  /\ alive /\ r \in retries /\ Carry(r.what, r.user)
  /\ retries' \in {retries, retries \ {r}}
  /\ UNCHANGED <<state, timing, jobs, faults, used, past>>

\* The time is up: failChallenge is called with the number the timer had.
TimeUp(t, u) ==
  /\ At(t, "idle") /\ t \in Goroutines /\ timers[u] # Nothing /\ timers' = Disarm(u)
  /\ jobs' = [jobs EXCEPT ![t] = [Resting EXCEPT !.at = "fail", !.user = u, !.c = [id |-> timers[u]]]]
  /\ UNCHANGED <<state, floodTimer, quiet, retries, account, faults, used, past>>

\* The image bot's message is sent or edited: LastActiveAt moves and is stored,
\* or nothing more is done.  The timer is armed again after the mutex was let
\* go, and then the result is looked at.
ImageResult(t, u) ==
  LET c == mem.pending[u] IN
  /\ At(t, "idle") /\ t \in Helpers /\ used.messages < MaxMessages /\ Counting("messages")
  /\ c # Nothing /\ c.type = "img" /\ Write(mem) /\ Remember
  /\ jobs' = IF Saved THEN [jobs EXCEPT ![t] = [Resting EXCEPT !.at = "rearm", !.user = u, !.c = c]] ELSE jobs
  /\ UNCHANGED <<alive, timing, retries, account>>
ImageResults == {"complete", "fail", "retry", "unshut", "done"}
Rearm(t) == At(t, "rearm") /\ \E result \in ImageResults : Armed(t, result)
ImageRetry(t) ==
  LET u == jobs[t].user c == mem.pending[u] more == [c EXCEPT !.tries = @ + 1] IN
  /\ At(t, "retry") /\ UNCHANGED <<timing, used>>
  /\ \/ ~Matches(u, jobs[t].c) /\ Goto(t, "done") /\ UNCHANGED <<state, retries, account, faults, past>>
     \/ /\ Matches(u, jobs[t].c)
        /\ Persist([mem EXCEPT !.pending[u] = more], t, IF more.tries >= mem.config.tries THEN "fail" ELSE "done", "done")
        /\ Remember
ImageFallback(t) == At(t, "unshut") /\ Call(t, Blocked(jobs[t].user, FALSE), "fallback", "fallback")
-----------------------------------------------------------------------------
(* Commands.                                                               *)

\* add: a question that is pending counts as answered.
Add(t, u) == Take(t, u, IF mem.pending[u] = Nothing THEN "add" ELSE "complete", Nothing, Nothing) /\ UNCHANGED <<timers, past>>
AddVerified(t) ==
  /\ At(t, "add") /\ Persist([mem EXCEPT !.verified = @ \cup {jobs[t].user}], t, "release", "done")
  /\ Remember /\ UNCHANGED <<timing, used>>

\* A command that is done with the state before it makes any call.
Order(t, new, u, next) ==
  /\ At(t, "idle") /\ t \in Helpers /\ used.messages < MaxMessages /\ Counting("messages")
  /\ Write(new) /\ Remember /\ UNCHANGED <<alive, floodTimer, quiet, retries, account>>
  /\ jobs' = [jobs EXCEPT ![t] = IF next = "done" \/ ~Saved THEN Resting ELSE [Resting EXCEPT !.at = next, !.user = u]]

\* delete takes the record away; a question that is pending stays.
Delete(t, u) ==
  u \in mem.verified /\ Order(t, [mem EXCEPT !.verified = @ \ {u}], u, "done") /\ UNCHANGED timers

\* unstuck: the question is over without an outcome.
Unstuck(t, u) ==
  mem.pending[u] # Nothing /\ Order(t, Over(u, mem.verified), u, "open") /\ timers' = Disarm(u)

\* What the commands make of a configuration, each of one of its fields.
Toggles(c, on) ==
  {[c EXCEPT !.disabled = on], [c EXCEPT !.initiative = on], [c EXCEPT !.floodUsername = on]}
ChoiceChanges(c) ==
  {[c EXCEPT !.action = x] : x \in Actions} \cup {[c EXCEPT !.premium = x] : x \in Premiums} \cup
  {[c EXCEPT !.floodAction = x] : x \in FloodActions} \cup {[c EXCEPT !.type = x] : x \in Types}
Timeouts(c) ==
  {[c EXCEPT !.limited = @ \cup {type}] : type \in Types} \cup {[c EXCEPT !.limited = @ \ {type}] : type \in Types}
OptionalCounts(c, on) == {[c EXCEPT !.groups = on], [c EXCEPT !.history = on]}
Words(c, on) == {[c EXCEPT !.whitelist = on], [c EXCEPT !.blacklist = on], [c EXCEPT !.rule = on]}
Limits(c) ==
  {[c EXCEPT !.floodLimit = n] : n \in 1 .. Cardinality(Users) + 1} \cup {[c EXCEPT !.tries = n] : n \in 1 .. 3}
Commanded(c) ==
  ChoiceChanges(c) \cup Timeouts(c) \cup Limits(c) \cup
  UNION {Toggles(c, on) \cup OptionalCounts(c, on) \cup Words(c, on) : on \in BOOLEAN}

\* normalizeState puts the defaults in place of values that are none.
OrElse(value, set, default) == IF value \in set THEN value ELSE default
Normalized(c) ==
  [c EXCEPT !.action = OrElse(@, Actions, "ban"), !.premium = OrElse(@, Premiums, "none"),
            !.floodAction = OrElse(@, FloodActions, "delete"), !.type = OrElse(@, Types, "math"),
            !.floodLimit = IF @ > 0 THEN @ ELSE 5, !.tries = IF @ > 0 THEN @ ELSE 3]

\* A command changes the configuration, or a file takes its place.
Configure(t) ==
  /\ At(t, "idle") /\ t \in Helpers /\ used.messages < MaxMessages
  /\ \E new \in Settings \cap (Commanded(mem.config) \cup {Normalized(c) : c \in Exports}) :
       new # mem.config /\ Order(t, [mem EXCEPT !.config = new], Nothing, "done") /\ UNCHANGED timers
-----------------------------------------------------------------------------
(* A flood.                                                                *)

Recent(u) == mem.flood.recent \cup {u}
Floods(u) == Cardinality(Recent(u)) >= mem.config.floodLimit

\* The steps of the thread with which a flood begins.
Beginning ==
  {"readAuto", "keepAuto", "setAuto", "shutOut", "whoAmI", "create", "keepName", "dropName",
   "moveName", "undoName", "undoBoth", "undoChannel", "forget"}
\* The steps that undo what a flood has changed of the account.
Restoring == {"giveBack", "freeName", "takeName", "dropChannel"}

\* observeFlood up to its unlock: the flood goes on, there is none, or it starts
\* and the questions of its users are gone.
FloodGoesOn(t) ==
  /\ At(t, "observe") /\ mem.flood.active
  /\ Persist([mem EXCEPT !.flood.users = @ \cup {jobs[t].user}], t, "join", "done")
  /\ quiet' = FALSE /\ Remember /\ UNCHANGED <<timers, floodTimer, used>>
NoFloodYet(t) ==
  /\ At(t, "observe") /\ ~mem.flood.active /\ ~Floods(jobs[t].user)
  /\ Persist([mem EXCEPT !.flood.recent = Recent(jobs[t].user)], t, "begin", "begin")
  /\ Remember /\ UNCHANGED <<timing, used>>
FloodStarts(t) ==
  LET recent == Recent(jobs[t].user) IN
  /\ At(t, "observe") /\ ~mem.flood.active /\ Floods(jobs[t].user)
  /\ used.floods < MaxFloods /\ Counting("floods") /\ quiet' = FALSE
  /\ timers' = [v \in Users |-> IF v \in recent THEN Nothing ELSE timers[v]]
  /\ Write([mem EXCEPT !.flood.active = TRUE, !.flood.users = recent, !.flood.recent = recent,
              !.pending = [v \in Users |-> IF v \in recent THEN Nothing ELSE @[v]]])
  /\ jobs' = [jobs EXCEPT ![t] = IF Saved THEN [@ EXCEPT !.at = "readAuto", !.users = recent] ELSE Resting]
  /\ past' = [past EXCEPT !.unsaved = @ \/ ~Saved,
                         !.cut = @ \/ ~Saved \/ \E h \in Threads : jobs[h].at \in Restoring]
  /\ UNCHANGED <<alive, floodTimer, retries, account>>

\* A minute later the strangers of before no longer count.
MinuteEnds ==
  /\ alive /\ mem.flood.recent # {} /\ ~mem.flood.active
  /\ mem' = [mem EXCEPT !.flood.recent = {}]
  /\ UNCHANGED <<alive, row, timing, jobs, retries, account, faults, used, past>>

Join(t) == At(t, "join") /\ Call(t, Archived(jobs[t].user, TRUE), "awaitEnd", "awaitEnd")

\* The account's own setting is read and kept, then changed.
ReadAuto(t) ==
  /\ At(t, "readAuto") /\ UNCHANGED <<state, timing, retries, account, used>>
  /\ \/ /\ jobs' = [jobs EXCEPT ![t].at = "keepAuto", ![t].c = account.auto]
        /\ UNCHANGED <<faults, past>>
     \/ CanFail /\ Goto(t, "setAuto") /\ past' = [past EXCEPT !.cut = TRUE]
KeepAuto(t) ==
  /\ At(t, "keepAuto") /\ Persist([mem EXCEPT !.flood.auto = jobs[t].c], t, "setAuto", "setAuto")
  /\ RememberCut /\ UNCHANGED <<timing, used>>
SetAuto(t) == At(t, "setAuto") /\ Call(t, [account EXCEPT !.auto = TRUE], "shutOut", "shutOut")
ShutOut(t) ==
  /\ At(t, "shutOut") /\ Quietly /\ UNCHANGED faults
  /\ account' = [account EXCEPT !.archived = @ \cup jobs[t].users]
  /\ Goto(t, IF jobs[t].config.floodUsername THEN "whoAmI" ELSE "awaitEnd")

\* transferFloodUsername: the name moves to a channel made for it.
WhoAmI(t) ==
  At(t, "whoAmI") /\ Call(t, account, IF account.name = "account" THEN "create" ELSE "awaitEnd", "awaitEnd")
Create(t) == At(t, "create") /\ Call(t, [account EXCEPT !.channel = TRUE], "keepName", "awaitEnd")

\* Mutant of KeepName: the name is not written down before it is given up.
NameNotKept(t) == At(t, "keepName") /\ Goto(t, "dropName") /\ Quietly /\ UNCHANGED <<account, faults>>

\* What has to be undone is written down before it is done.
KeepName(t) ==
  /\ At(t, "keepName")
  /\ Persist([mem EXCEPT !.flood.name = TRUE, !.flood.channel = TRUE], t, "dropName", "undoChannel")
  /\ Remember /\ UNCHANGED <<timing, used>>
DropName(t) == At(t, "dropName") /\ Call(t, [account EXCEPT !.name = "nobody"], "moveName", "undoBoth")
MoveName(t) == At(t, "moveName") /\ Call(t, [account EXCEPT !.name = "channel"], "awaitEnd", "undoName")
UndoName(t) == PutBack(t, "undoName", [account EXCEPT !.name = "account"], "undoBoth")
UndoChannel(t) ==
  LET next == IF jobs[t].at = "undoBoth" THEN "forget" ELSE "awaitEnd" IN
  /\ alive /\ jobs[t].at \in {"undoBoth", "undoChannel"}
  /\ Call(t, [account EXCEPT !.channel = FALSE], next, next)
Forget(t) ==
  /\ At(t, "forget")
  /\ Persist([mem EXCEPT !.flood.name = FALSE, !.flood.channel = FALSE], t, "awaitEnd", "awaitEnd")
  /\ Remember /\ UNCHANGED <<timing, used>>

\* scheduleFloodEnd.
AwaitEnd(t) ==
  /\ At(t, "awaitEnd") /\ Goto(t, "done") /\ floodTimer' = TRUE
  /\ UNCHANGED <<state, timers, quiet, retries, account, faults, used, past>>

\* Five minutes pass without a stranger, it may be while a flood still begins.
Quiet ==
  /\ mem.flood.active /\ ~quiet /\ quiet' = TRUE
  /\ past' = [past EXCEPT !.cut = @ \/ \E t \in Threads : jobs[t].at \in Beginning]
  /\ UNCHANGED <<state, timers, floodTimer, jobs, retries, account, faults, used>>

\* endFlood: the flood is forgotten first, what it changed is put back then.
EndFlood(t) ==
  /\ At(t, "idle") /\ t \in Goroutines /\ floodTimer /\ mem.flood.active /\ quiet
  /\ floodTimer' = FALSE /\ Write([mem EXCEPT !.flood = NoFlood])
  /\ jobs' = [jobs EXCEPT ![t] = IF Saved THEN [Resting EXCEPT !.at = "giveBack", !.users = mem.flood.users,
                !.config = mem.config, !.flood = mem.flood] ELSE Resting]
  /\ RememberCut /\ UNCHANGED <<alive, timers, quiet, retries, account, used>>
GiveBack(t) ==
  LET f == jobs[t].flood IN
  PutBack(t, "giveBack", [account EXCEPT !.auto = f.auto], IF f.name \/ f.channel THEN "freeName" ELSE "next")
FreeName(t) ==
  PutBack(t, "freeName", [account EXCEPT !.name = IF @ = "channel" THEN "nobody" ELSE @], "takeName")
TakeName(t) ==
  PutBack(t, "takeName", [account EXCEPT !.name = IF @ = "channel" THEN @ ELSE "account"], "dropChannel")
DropChannel(t) ==
  PutBack(t, "dropChannel", [account EXCEPT !.channel = FALSE, !.name = IF @ = "channel" THEN "nobody" ELSE @], "next")

\* Each user of the flood is dealt with as configured.
NextUser(t, u) ==
  LET how == jobs[t].config.floodAction action == jobs[t].config.action IN
  /\ At(t, "next") /\ u \in jobs[t].users
  /\ Quietly /\ UNCHANGED faults
  /\ jobs' = [jobs EXCEPT ![t].users = @ \ {u}, ![t].user = u,
                         ![t].at = IF how = "captcha" THEN "begin" ELSE "next"]
  /\ account' = CASE how = "asis" /\ action = "ban" -> Blocked(u, TRUE)
                  [] how = "asis" /\ action = "delete" -> [Blocked(u, TRUE) EXCEPT !.archived = @ \ {u}]
                  [] how = "delete" -> Erased(u)
                  [] OTHER -> account
FloodOver(t) ==
  /\ At(t, "next") /\ jobs[t].users = {}
  /\ jobs' = [jobs EXCEPT ![t] = Resting] /\ Quietly /\ UNCHANGED <<account, faults>>
-----------------------------------------------------------------------------
Handling(t) ==
  \/ Rules(t) \/ Trust(t) \/ PunishDirect(t)
  \/ AlreadyAsked(t) \/ Begin(t) \/ Archive(t) \/ Send(t) \/ RemoveChallenge(t) \/ Fallback(t)
  \/ Save(t) \/ Shut(t) \/ Schedule(t)
  \/ Verify(t) \/ Complete(t) \/ Open(t) \/ Release(t)
  \/ Fail(t) \/ Reopen(t) \/ Notice(t) \/ Block(t) \/ Finish(t)
  \/ Rearm(t) \/ ImageRetry(t) \/ ImageFallback(t) \/ AddVerified(t)
  \/ FloodGoesOn(t) \/ NoFloodYet(t) \/ FloodStarts(t) \/ Join(t)
  \/ ReadAuto(t) \/ KeepAuto(t) \/ SetAuto(t) \/ ShutOut(t)
  \/ WhoAmI(t) \/ Create(t) \/ KeepName(t) \/ DropName(t) \/ MoveName(t)
  \/ UndoName(t) \/ UndoChannel(t) \/ Forget(t) \/ AwaitEnd(t)
  \/ EndFlood(t) \/ GiveBack(t) \/ FreeName(t) \/ TakeName(t) \/ DropChannel(t)
  \/ (\E u \in Users : NextUser(t, u)) \/ FloodOver(t)

Arriving(t, u) ==
  \/ \E says \in Says : Receive(t, u, says)
  \/ ImageResult(t, u) \/ OwnerWrites(t, u) \/ Add(t, u) \/ Delete(t, u) \/ Unstuck(t, u) \/ TimeUp(t, u)

CaptchaNext ==
  \/ Resume \/ StopPlugin \/ Killed \/ MinuteEnds \/ Quiet
  \/ \E r \in retries : Retry(r)
  \/ \E t \in Threads : Handling(t) \/ Configure(t) \/ (\E u \in Users : Arriving(t, u))

CaptchaSpec == (\E world \in CaptchaWorlds : CaptchaInit(world)) /\ [][CaptchaNext]_captchaVars
-----------------------------------------------------------------------------
(* Properties.                                                             *)

\* A question is passed or failed once: it is never ended again for the same
\* person, by its timer, by a second answer or by what a restart takes up.  Only
\* saveChallenge brings a question back, one that was ended while it was being
\* sent; then it is ended once more, and not a third time.
EndsOnce == \A n \in Numbers : past.ended[n] <= IF n \in past.revived THEN 2 ELSE 1

Asking == {"archive", "send", "save", "remove", "fallback", "complete"}
Timing == {"shut", "arm", "rearm", "fail"}
SeesTo(t, u, c) ==
  /\ jobs[t].user = u
  /\ jobs[t].at \in Asking \/ (jobs[t].at \in Timing /\ jobs[t].c.id = c.id)
RunsOut(u) ==
  LET c == mem.pending[u] IN
  alive /\ ~past.unsaved /\ c # Nothing /\ c.id \notin past.untimed \cup past.crossed =>
    timers[u] = c.id \/ \E t \in Threads : SeesTo(t, u, c)

\* Nobody is left with a question that will never run out: unless a write has
\* failed since the start, the type has no limit, or the timer of another
\* question of the same person took its place, a pending question has its timer
\* or a thread that is still asking it or about to end it.
TimersCover == \A u \in Users : RunsOut(u)

\* Nothing of the account is lost to a flood: while the setting or the name is
\* not the owner's, what was there before is on disk, or in the hands of the
\* thread that puts it back.  This holds through crashes and failed calls,
\* but not when the beginning of the flood cannot be stored or the setting not be
\* read, nor when what puts it back is killed or fails, for it is done once, or is
\* still at work when the next flood begins, which then takes the setting of
\* the last one for the owner's, nor when a flood is over before all it begins
\* with is done (past.cut).
AccountKept ==
  LET held == {t \in Threads : jobs[t].flood # Nothing}
      kept == {row.flood} \cup {jobs[t].flood : t \in held}
  IN past.cut
     \/ /\ account.name # "account" => \E f \in kept : f.name
        /\ account.auto # past.auto => \E f \in kept : f.auto = past.auto

\* Who is trusted is not punished.
TrustedIsNotPunished ==
  [][\A t \in Threads : At(t, "block") /\ jobs'[t].at \in {"ban", "delete"} => jobs[t].user \notin mem.verified]_captchaVars
-----------------------------------------------------------------------------
(* The inductive invariant behind AccountKept.                             *)

In(t, steps) == jobs[t].at \in steps

\* The state is stored but for a name that was not given up.
FloodIsStored ==
  alive => mem.flood.active = row.flood.active /\ mem.flood.auto = row.flood.auto

\* One thread begins the flood there is, or one undoes the flood there was.
OneBegins ==
  \A t \in Threads : In(t, Beginning) =>
    /\ alive /\ mem.flood.active /\ ~quiet
    /\ \A s \in Threads : In(s, Beginning) => s = t
OneRestores ==
  \A t \in Threads : In(t, Restoring) =>
    /\ alive /\ ~mem.flood.active /\ jobs[t].flood.auto = past.auto
    /\ \A s \in Threads : In(s, Restoring) => s = t

\* The owner's setting is stored before it is changed.
SettingKept ==
  /\ \/ row.flood.active => row.flood.auto = past.auto
     \/ \E t \in Threads : In(t, {"readAuto", "keepAuto"})
  /\ \A t \in Threads : In(t, {"keepAuto"}) => jobs[t].c = past.auto
  /\ account.auto # past.auto =>
       \/ row.flood.active /\ \A t \in Threads : ~In(t, {"readAuto", "keepAuto"})
       \/ \E t \in Threads : In(t, {"giveBack"})

\* So is the owner's name before it is given up, until it is taken back.
NameKept ==
  /\ \A t \in Threads :
       /\ In(t, Beginning \ {"moveName", "undoName"}) => account.name = "account"
       /\ In(t, {"dropName", "moveName", "undoName"}) => mem.flood.name /\ row.flood.name
       /\ In(t, {"takeName"}) => account.name # "channel"
  /\ account.name # "account" =>
       \/ row.flood.active /\ row.flood.name /\ (alive => mem.flood.name)
       \/ \E t \in Threads : In(t, {"giveBack", "freeName", "takeName"}) /\ jobs[t].flood.name

FloodInv ==
  ~past.cut => FloodIsStored /\ OneBegins /\ OneRestores /\ SettingKept /\ NameKept

\* What the parts above need to know of the values.
IsState(s) ==
  /\ s = [config |-> s.config, verified |-> s.verified, flood |-> s.flood, pending |-> s.pending]
  /\ s.flood \in Flags /\ s.config.action \in Actions
IsJob(j) ==
  /\ j = [at |-> j.at, user |-> j.user, c |-> j.c, says |-> j.says, config |-> j.config,
          users |-> j.users, flood |-> j.flood]
  /\ j.at \in {"rules", "observe"} => j.user \in Users
  /\ j.at \in {"punish", "notice", "reopen", "block"} => j.config.action \in Actions
  /\ j.at = "keepAuto" => j.c \in BOOLEAN
  /\ j.at \in Restoring => j.flood \in Flags
Shape ==
  /\ alive \in BOOLEAN /\ quiet \in BOOLEAN /\ faults \in Nat
  /\ IsState(mem) /\ IsState(row)
  /\ account.auto \in BOOLEAN
  /\ account = [blocked |-> account.blocked, archived |-> account.archived, auto |-> account.auto,
                name |-> account.name, channel |-> account.channel]
  /\ past = [ended |-> past.ended, revived |-> past.revived, untimed |-> past.untimed,
             crossed |-> past.crossed, unsaved |-> past.unsaved, cut |-> past.cut, auto |-> past.auto]
  /\ jobs = [t \in Threads |-> jobs[t]] /\ \A t \in Threads : IsJob(jobs[t])

CaptchaInv == Shape /\ FloodInv
-----------------------------------------------------------------------------
(* The inductive invariant behind EndsOnce and TimersCover.                *)

IsQuestion(c) ==
  /\ c = [id |-> c.id, type |-> c.type, answer |-> c.answer, tries |-> c.tries]
  /\ c.id \in 1 .. used.challenges

\* The steps of a thread whose own question may yet be written, and those that
\* are about one user.
Sending == {"archive", "send", "save"}
AboutUser == Asking \cup Timing \cup {"rules", "observe", "begin", "verify", "retry", "unshut"}
QuestionShape ==
  /\ used = [messages |-> used.messages, challenges |-> used.challenges, floods |-> used.floods]
  /\ used.challenges \in Numbers /\ past.ended \in [Numbers -> Nat]
  /\ timers = [u \in Users |-> timers[u]]
  /\ \A s \in {mem, row} :
       /\ s.pending = [u \in Users |-> s.pending[u]]
       /\ \A u \in Users : s.pending[u] = Nothing \/ IsQuestion(s.pending[u])
  /\ \A t \in Threads :
       /\ In(t, AboutUser) => jobs[t].user \in Users
       /\ In(t, Sending) => IsQuestion(jobs[t].c)

\* Where a question is: in memory or in the row, or in the hands of a thread.
InState(u, n) == \E s \in {mem, row} : s.pending[u] # Nothing /\ s.pending[u].id = n
Sends(t, u, n) == In(t, Sending) /\ jobs[t].user = u /\ jobs[t].c.id = n

\* A number is of one person, and in the hands of one thread.
OneOwner ==
  \A n \in Numbers, u, v \in Users :
    /\ InState(u, n) /\ InState(v, n) => u = v
    /\ \A t \in Threads : Sends(t, u, n) =>
         (InState(v, n) => u = v) /\ \A s \in Threads : Sends(s, v, n) => s = t

\* What was ended is brought back by the thread that sends it, once.
EndedOnce ==
  \A n \in Numbers :
    /\ past.ended[n] <= IF n \in past.revived THEN 2 ELSE 1
    /\ \A u \in Users : InState(u, n) => past.ended[n] <= IF n \in past.revived THEN 1 ELSE 0
    /\ n \in past.revived => \A t \in Threads, u \in Users : ~Sends(t, u, n)
    /\ n > used.challenges => past.ended[n] = 0 /\ n \notin past.revived

QuestionInv == QuestionShape /\ OneOwner /\ EndedOnce /\ TimersCover
=============================================================================
