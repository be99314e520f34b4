----------------------------- MODULE CommandPath -----------------------------
(***************************************************************************)
(* A message on its way to a command: the update loop (internal/app), the  *)
(* router (internal/command), the Sure listener and the commands of the    *)
(* core plugin that change who may command and how a command is written:   *)
(* sudo, sure, prefix, alias, loglevel and reload (internal/plugins/core). *)
(*                                                                         *)
(* Every setting exists twice, as a row of the database and in memory, and *)
(* the delegates a third time, in the router.  No mutex is held from the   *)
(* reading of a setting to the writing of it, and there are many workers.  *)
(*                                                                         *)
(* A text is a mark (the prefix it starts with, "" for none) and a body,   *)
(* the sequence of its words; an alias is a sequence of words that stands  *)
(* for another.  The database, and what the old databases hold, are        *)
(* functions on the keys that have a row.  Names and replies are left out. *)
(***************************************************************************)
EXTENDS Naturals, SequencesExt

CONSTANTS
  Workers,        \* the workers of the pool
  QueueSize,      \* capacity of the pool's queue
  Owners,         \* commands.owner_ids
  ConfigMarks,    \* commands.prefixes
  CommandOf,      \* [word -> plugin]: the commands the plugins define
  OtherListeners, \* some plugin beside core listens to messages
  Words,          \* what texts are made of
  Number,         \* [word -> number]: the words that are a number
  Lines,          \* [word -> [command, text]]: the text "sure msg" is given by it
  Worlds,         \* [rows, inbox]: rows the database may hold at first, and
                  \* messages that may then arrive
  Legacy,         \* [key -> value]: what the old databases hold
  Limited,        \* per_sender_interval_ms is not zero
  MaxStarts,      \* bound: how often the host starts
  Null

Keys == {"sudo", "sure", "prefixes", "aliases", "level"}
Access == {"sudo", "sure"}
Refused == {}    \* an edit that only answers with an error; the others give {the new value}
Nobody == [users |-> {}, chats |-> {}, msgs |-> <<>>]

\* The messages a Sure list allows, and what a database may hold of the
\* settings that have sequences in them.
Entries == [id : Nat, line : Words, out : Words \cup {""}]
IsSure(s) == DOMAIN s = {"users", "chats", "msgs"} /\ s.msgs \in Seq(Entries)
IsAliases(f) == \A a \in DOMAIN f : a \in Seq(Words) /\ f[a] \in Seq(Words)
Stored(table) ==
  /\ DOMAIN table \subseteq Keys
  /\ "sure" \in DOMAIN table => IsSure(table["sure"])
  /\ "aliases" \in DOMAIN table => IsAliases(table["aliases"])

ASSUME CommandPathAssumption ==
  /\ QueueSize \in Nat \ {0} /\ MaxStarts \in Nat /\ Limited \in BOOLEAN /\ OtherListeners \in BOOLEAN
  /\ ConfigMarks # {} /\ "" \notin ConfigMarks
  /\ Words \subseteq DOMAIN Lines /\ \A x \in Words : Lines[x].text.body \in Seq(Words)
  /\ Stored(Legacy)
  /\ \A w \in Worlds : Stored(w.rows) /\ \A m \in w.inbox : m.text.body \in Seq(Words)

VARIABLES
  up,         \* the host runs
  starts,     \* how often it was started
  rows,       \* the rows of namespace "core"
  live,       \* the settings in memory
  delegates,  \* Router.delegates and delegateChats
  routed,     \* the plugins whose commands are registered
  suppressed, \* Router.suppressed: messages the next Dispatch skips
  recent,     \* Limiter.last: senders admitted within the interval
  inbox,      \* messages that will arrive
  arriving,   \* the message handleMessage is working on
  queue,      \* jobs
  work,       \* [Workers -> the job a worker has, and how far it is]
  ran,        \* history: [message -> how often it ran as a command]
  expired,    \* history: messages whose suppression ran out
  clean       \* history: keys the start could read and take, and whose edits
              \* have not overlapped since
vars == <<up, starts, rows, live, delegates, routed, suppressed, recent, inbox,
          arriving, queue, work, ran, expired, clean>>
host == <<up, starts, rows, live, delegates, routed, clean>>
traffic == <<recent, inbox, arriving, queue>>

Idle == [at |-> "idle"]
-----------------------------------------------------------------------------
(* The router.                                                             *)

\* The longest alias the body starts with is replaced by what it stands for.
Rewrite(body, aliases) ==
  LET hits == {a \in DOMAIN aliases : IsPrefix(a, body)}
  IN IF hits = {} THEN body
     ELSE LET best == CHOOSE a \in hits : \A b \in hits : Len(b) <= Len(a)
          IN aliases[best] \o SubSeq(body, Len(best) + 1, Len(body))

\* The words of the command a text is, <<>> when it is none.
Parse(text) ==
  IF text.mark \in live.prefixes THEN Rewrite(text.body, live.aliases) ELSE <<>>

IsOwner(m) ==
  \/ m.from = "me" \/ m.from \in Owners
  \/ /\ m.from \in delegates.users
     /\ delegates.chats = {} \/ m.chat \in delegates.chats

HasRoute(word) == word \in DOMAIN CommandOf /\ CommandOf[word] \in routed

\* An alias whose target starts with an alias (validateAliasGraph).
Chained(aliases) ==
  \E a, b \in DOMAIN aliases : IsPrefix(b, aliases[a])

\* Mutant of ValidAliases: "alias" may be redefined.
AliasNotReserved(aliases) == ~Chained(aliases)

\* What SetUserAliases accepts.
ValidAliases(aliases) ==
  /\ \A a \in DOMAIN aliases : a # <<>> /\ aliases[a] # <<>> /\ a[1] # "alias"
  /\ ~Chained(aliases)

\* Prefixes are not empty and given once each (normalizePrefixes).
ValidMarks(marks) == marks # {} /\ "" \notin marks

\* What the router takes for a setting it keeps (SetPrefixes, SetUserAliases).
Takes(k, v) == (k = "prefixes" => ValidMarks(v)) /\ (k = "aliases" => ValidAliases(v))

\* The limiter lets one command of a sender pass in an interval.
Allow(from) == ~Limited \/ from \notin recent
-----------------------------------------------------------------------------
(* What a command makes of the setting it has read.  args are the words    *)
(* after the command's name.                                               *)

Insert(s, what, who) == {[s EXCEPT ![what] = @ \cup {who}]}
Delete(s, what, who) == IF who \in s[what] THEN {[s EXCEPT ![what] = @ \ {who}]} ELSE Refused

EditUsers(s, args) ==
  CASE args[1] = "add" -> Insert(s, "users", args[2])
    [] args[1] = "del" -> Delete(s, "users", args[2]) [] OTHER -> Refused
EditChats(s, args) ==
  CASE args[2] = "add" -> Insert(s, "chats", args[3])
    [] args[2] = "del" -> Delete(s, "chats", args[3]) [] OTHER -> Refused

\* The messages are kept in the order of their ids; a new one gets the next.
EditMessages(s, args) ==
  LET more == Len(args) > 2
      next == IF s.msgs = <<>> THEN 1 ELSE Last(s.msgs).id + 1
      known == {i \in DOMAIN s.msgs :
                  more /\ args[3] \in DOMAIN Number /\ s.msgs[i].id = Number[args[3]]}
      first == CHOOSE i \in known : \A j \in known : i <= j
  IN CASE args[2] = "add" /\ more /\ ~\E i \in DOMAIN s.msgs : s.msgs[i].line = args[3] ->
            {[s EXCEPT !.msgs = Append(@, [id |-> next, line |-> args[3], out |-> ""])]}
       [] args[2] = "del" /\ known # {} -> {[s EXCEPT !.msgs = RemoveAt(@, first)]}
       [] args[2] = "redirect" /\ known # {} ->
            {[s EXCEPT !.msgs[first].out = IF Len(args) > 3 THEN args[4] ELSE ""]}
       [] OTHER -> Refused

EditPrefixes(marks, args) ==
  LET given == {args[i] : i \in 2 .. Len(args)}
  IN CASE args[1] = "set" /\ Cardinality(given) = Len(args) - 1 -> {given}
       [] args[1] = "add" /\ given \cap marks = {} -> {marks \cup given}
       [] args[1] = "remove" /\ given \subseteq marks /\ marks # given -> {marks \ given}
       [] Len(args) = 1 /\ args[1] \notin {"set", "add", "remove"} -> {{args[1]}}
       [] OTHER -> Refused

\* alias set: the target starts at the first word, the first left out, that
\* is a command; aliases that stood for the same are dropped.
SplitAlias(words) ==
  LET known == {i \in 2 .. Len(words) : HasRoute(words[i])}
  IN IF known = {} THEN 2 ELSE CHOOSE i \in known : \A j \in known : i <= j

EditAliases(aliases, args) ==
  LET words == Tail(args)
      split == SplitAlias(words)
      name  == SubSeq(words, 1, split - 1)
      final == SubSeq(words, split, Len(words))
      kept  == {a \in DOMAIN aliases : aliases[a] # final} \cup {name}
  IN CASE args[1] = "set" /\ Len(words) > 1 /\ HasRoute(words[split]) ->
            {[a \in kept |-> IF a = name THEN final ELSE aliases[a]]}
       [] args[1] = "del" /\ words \in DOMAIN aliases ->
            {[a \in DOMAIN aliases \ {words} |-> aliases[a]]}
       [] OTHER -> Refused

\* The setting a command is about.
KeyOf(body) ==
  CASE body[1] = "prefix" -> "prefixes" [] body[1] = "alias" -> "aliases"
    [] body[1] = "loglevel" -> "level"  [] OTHER -> body[1]

EditSudo(args) ==
  IF args[1] = "chat" THEN EditChats(live.sudo, args) ELSE EditUsers(live.sudo, args)
EditSure(args) ==
  CASE args[1] = "msg" -> EditMessages(live.sure, args)
    [] args[1] = "chat" -> EditChats(live.sure, args)
    [] OTHER -> EditUsers(live.sure, args)

Edited(body) ==
  LET key == KeyOf(body) args == Tail(body) IN
  CASE key = "sudo" -> EditSudo(args) [] key = "sure" -> EditSure(args)
    [] key = "prefixes" -> EditPrefixes(live.prefixes, args)
    [] key = "aliases" -> EditAliases(live.aliases, args)
    [] OTHER -> {args[1]}
-----------------------------------------------------------------------------
(* The host starts, and ends at any moment.                                *)

\* What a setting is without its row: what an old database holds, or what the
\* program and its configuration have.
Built(k) ==
  CASE k \in Access -> Nobody [] k = "prefixes" -> ConfigMarks
    [] k = "aliases" -> <<>> [] OTHER -> "info"
Kept(k) == IF k \in DOMAIN rows THEN rows[k] ELSE IF k \in DOMAIN Legacy THEN Legacy[k] ELSE Built(k)

\* A row that cannot be read, or that the router does not take, is as good as
\* none, but nothing is imported in its place.  What is imported is written, if
\* it can be.
\* (A row of sudo or sure that does not decode would be passed over for the old
\* database, delegation.go:52-62; the program itself writes no such row.)
Loads(k, lost) == k \notin lost /\ Takes(k, Kept(k))
LoadAccess(k, lost) == IF Loads(k, lost) THEN Kept(k) ELSE Nobody
LoadPrefixes(lost) == IF Loads("prefixes", lost) THEN Kept("prefixes") ELSE ConfigMarks
LoadAliases(lost) == IF Loads("aliases", lost) THEN Kept("aliases") ELSE <<>>
LoadLevel(lost) == IF Loads("level", lost) THEN Kept("level") ELSE "info"
Imported(lost, written) ==
  {k \in written \cap DOMAIN Legacy : k \notin DOMAIN rows /\ Loads(k, lost)}

\* The row of a key is written.
Put(k, v) == rows' = [x \in DOMAIN rows \cup {k} |-> IF x = k THEN v ELSE rows[x]]

\* The router's copy of the delegates (applySudoDelegates, SetDelegates).
DelegatesOf(s) == [users |-> s.users, chats |-> s.chats]

Start(lost, written) ==
  /\ ~up /\ up' = TRUE /\ starts < MaxStarts /\ starts' = starts + 1
  /\ live' = [k \in Keys |->
       CASE k \in Access -> LoadAccess(k, lost) [] k = "prefixes" -> LoadPrefixes(lost)
         [] k = "aliases" -> LoadAliases(lost) [] OTHER -> LoadLevel(lost)]
  /\ delegates' = DelegatesOf(live'.sudo)
  /\ rows' = [k \in DOMAIN rows \cup Imported(lost, written) |->
                IF k \in DOMAIN rows THEN rows[k] ELSE Legacy[k]]
  /\ clean' = [k \in Keys |-> Loads(k, lost)]
  /\ routed' = {CommandOf[w] : w \in DOMAIN CommandOf}
  /\ UNCHANGED <<suppressed, traffic, work, ran, expired>>

Down ==
  /\ up /\ up' = FALSE
  /\ suppressed' = {} /\ recent' = {} /\ arriving' = Null /\ queue' = <<>>
  /\ work' = [w \in Workers |-> Idle]
  /\ UNCHANGED <<starts, rows, live, delegates, routed, inbox, ran, expired, clean>>

Init ==
  /\ up = FALSE /\ starts = 0
  /\ \E w \in Worlds : rows = w.rows /\ inbox = w.inbox
  /\ live = [k \in Keys |-> Built(k)] /\ delegates = DelegatesOf(Nobody)
  /\ routed = {} /\ suppressed = {} /\ recent = {} /\ arriving = Null /\ queue = <<>>
  /\ work = [w \in Workers |-> Idle]
  /\ ran = [m \in inbox |-> 0] /\ expired = {} /\ clean = [k \in Keys |-> FALSE]
-----------------------------------------------------------------------------
(* The update loop.                                                        *)

SureListens == live.sure.users # {} /\ live.sure.msgs # <<>>

\* handleMessage up to the first check of the sender.
Receive(m) ==
  LET cmd == Parse(m.text) # <<>> /\ IsOwner(m) IN
  /\ up /\ arriving = Null /\ m \in inbox /\ inbox' = inbox \ {m}
  /\ arriving' = IF cmd \/ SureListens \/ OtherListeners
                 THEN [m |-> m, cmd |-> cmd, sure |-> SureListens] ELSE Null
  /\ UNCHANGED <<host, suppressed, recent, queue, work, ran, expired>>

\* The second check, the limiter and Submit.
Admit ==
  LET m == arriving.m
      limits == arriving.cmd /\ ~IsOwner(m)
      passes == ~limits \/ Allow(m.from)
  IN /\ up /\ arriving # Null /\ arriving' = Null
     /\ recent' = IF limits /\ passes /\ Limited THEN recent \cup {m.from} ELSE recent
     /\ queue' = IF passes /\ Len(queue) < QueueSize THEN Append(queue, arriving) ELSE queue
     /\ UNCHANGED <<host, suppressed, inbox, work, ran, expired>>

IntervalEnds == recent # {} /\ recent' = {}
                /\ UNCHANGED <<host, suppressed, inbox, arriving, queue, work, ran, expired>>
-----------------------------------------------------------------------------
(* A job: the listeners, then the command.                                 *)

At(w, step) == up /\ work[w].at = step
Goto(w, step) == work' = [work EXCEPT ![w].at = step]
Finish(w) == work' = [work EXCEPT ![w] = Idle]
Quiet == UNCHANGED <<host, traffic, suppressed, ran, expired>>

Take(w) ==
  /\ At(w, "idle") /\ queue # <<>> /\ queue' = Tail(queue)
  /\ work' = [work EXCEPT ![w] = [at |-> IF Head(queue).sure THEN "listen" ELSE "later",
                m |-> Head(queue).m, cmd |-> Head(queue).cmd, forced |-> FALSE,
                body |-> <<>>, new |-> Null, old |-> Null]]
  /\ UNCHANGED <<host, suppressed, recent, inbox, arriving, ran, expired>>

\* Does an allowed message match the text, and what is sent in its place?
Matches(e, text) ==
  LET line == Lines[e.line] IN
  IF line.command THEN line.text.mark = text.mark /\ IsPrefix(line.text.body, text.body)
  ELSE line.text = text
Output(e, text) ==
  LET line == Lines[e.line]
      to   == Lines[e.out].text
      rest == SubSeq(text.body, Len(line.text.body) + 1, Len(text.body))
  IN IF e.out = "" THEN text
     ELSE IF line.command THEN [mark |-> to.mark, body |-> to.body \o rest] ELSE to

\* OnMessage of core: the text of a trusted sender is run as the owner's.
Listen(w) ==
  LET m == work[w].m
      hits == {i \in DOMAIN live.sure.msgs : Matches(live.sure.msgs[i], m.text)}
      out == Output(live.sure.msgs[CHOOSE i \in hits : \A j \in hits : i <= j], m.text)
      sure == /\ m.from # "me" /\ m.from \in live.sure.users
              /\ live.sure.chats = {} \/ m.chat \in live.sure.chats
              /\ hits # {}
  IN /\ At(w, "listen") /\ Quiet
     /\ IF sure /\ Parse(out) # <<>>
        THEN work' = [work EXCEPT ![w].at = "parsed", ![w].forced = TRUE,
                                  ![w].body = Parse(out)]
        ELSE Goto(w, "later")

\* Mutant of Suppress: a failed command returns before SuppressNext.
SuppressUnlessFailed(w) ==
  /\ At(w, "ran") /\ work[w].forced
  /\ suppressed' \in {suppressed, suppressed \cup {work[w].m}}
  /\ work' = [work EXCEPT ![w].at = "later", ![w].forced = FALSE]
  /\ UNCHANGED <<host, traffic, ran, expired>>

\* SuppressNext, also when the command failed.
Suppress(w) ==
  /\ At(w, "ran") /\ work[w].forced
  /\ suppressed' = suppressed \cup {work[w].m}
  /\ work' = [work EXCEPT ![w].at = "later", ![w].forced = FALSE]
  /\ UNCHANGED <<host, traffic, ran, expired>>

\* The other listeners of the message; they may take long.
Later(w) ==
  /\ At(w, "later") /\ Quiet
  /\ IF work[w].cmd THEN Goto(w, "dispatch") ELSE Finish(w)

\* A minute has passed since SuppressNext.
Expire(m) ==
  /\ m \in suppressed /\ suppressed' = suppressed \ {m}
  /\ expired' = expired \cup {m} /\ UNCHANGED <<host, traffic, work, ran>>

\* Dispatch skips a suppressed message, once.
ConsumeSuppressed(w) ==
  LET m == work[w].m body == Parse(m.text) IN
  /\ At(w, "dispatch") /\ suppressed' = suppressed \ {m}
  /\ IF m \in suppressed \/ body = <<>> THEN Finish(w)
     ELSE work' = [work EXCEPT ![w].at = "parsed", ![w].body = body]
  /\ UNCHANGED <<host, traffic, ran, expired>>

\* Mutant of Allowed: the check made when the message came is believed.
AdmittedBefore(w) == work[w].forced \/ work[w].cmd

\* The sender is checked again, whatever was found when the message came.
Allowed(w) == work[w].forced \/ IsOwner(work[w].m)

Dispatch(w) ==
  LET body == work[w].body IN
  /\ At(w, "parsed")
  /\ IF HasRoute(body[1]) /\ Allowed(w)
     THEN Goto(w, "run") /\ ran' = [ran EXCEPT ![work[w].m] = @ + 1]
     ELSE Goto(w, "ran") /\ UNCHANGED ran
  /\ UNCHANGED <<host, traffic, suppressed, expired>>

Return(w) == At(w, "ran") /\ ~work[w].forced /\ Finish(w) /\ Quiet
-----------------------------------------------------------------------------
(* The commands.                                                           *)

IsEdit(body) == /\ KeyOf(body) \in Keys /\ Len(body) > 1
                /\ body[2] \notin {"ls", "list", "show"}
Editing(w, k) ==
  /\ work[w].at \in {"held", "set", "stored", "undo", "apply"}
  /\ KeyOf(work[w].body) = k

\* A command that changes no setting here, or that fails before it does: the
\* user or chat cannot be resolved, the first answer cannot be sent.
Other(w) ==
  /\ At(w, "run") /\ Goto(w, "ran") /\ Quiet
  /\ IsEdit(work[w].body) => KeyOf(work[w].body) \in Access

\* The setting is copied and the copy changed.
Read(w) ==
  LET body == work[w].body k == KeyOf(body) new == Edited(body) IN
  /\ At(w, "run") /\ IsEdit(body)
  /\ IF new = Refused THEN Goto(w, "ran") /\ UNCHANGED clean
     ELSE /\ \E v \in new :
               work' = [work EXCEPT ![w].at = "held", ![w].new = v, ![w].old = live[k]]
          /\ clean' = [clean EXCEPT ![k] = @ /\ \A v \in Workers : ~Editing(v, k)]
  /\ UNCHANGED <<up, starts, rows, live, delegates, routed, traffic, suppressed, ran, expired>>

\* sudo and sure: the row, then the memory, then the router (saveAccessState).
StoreAccess(w) ==
  LET k == KeyOf(work[w].body) IN
  /\ At(w, "held") /\ k \in Access
  /\ \/ Put(k, work[w].new) /\ Goto(w, "stored")
     \/ UNCHANGED rows /\ Goto(w, "ran")
  /\ UNCHANGED <<up, starts, live, delegates, routed, clean, traffic, suppressed, ran, expired>>

Remember(w) ==
  LET k == KeyOf(work[w].body) IN
  /\ At(w, "stored") /\ live' = [live EXCEPT ![k] = work[w].new]
  /\ Goto(w, IF k = "sudo" THEN "apply" ELSE "ran")
  /\ UNCHANGED <<up, starts, rows, delegates, routed, clean, traffic, suppressed, ran, expired>>

Apply(w) ==
  /\ At(w, "apply") /\ Goto(w, "ran")
  /\ delegates' = DelegatesOf(work[w].new)
  /\ UNCHANGED <<up, starts, rows, live, routed, clean, traffic, suppressed, ran, expired>>

\* prefix, alias and loglevel: the memory, then the row; saveAliases reads
\* the aliases again before it sets them.
SetLive(w) ==
  LET k == KeyOf(work[w].body) IN
  /\ At(w, "held") /\ k \notin Access
  /\ IF ~Takes(k, work[w].new)
     THEN UNCHANGED live /\ Goto(w, "ran")
     ELSE /\ live' = [live EXCEPT ![k] = work[w].new]
          /\ work' = [work EXCEPT ![w].at = "set",
                        ![w].old = IF k = "aliases" THEN live[k] ELSE @]
  /\ UNCHANGED <<up, starts, rows, delegates, routed, clean, traffic, suppressed, ran, expired>>

\* What is written is what the router holds by then; for the level, what
\* the command was given.
StoreLive(w) ==
  LET k == KeyOf(work[w].body) IN
  /\ At(w, "set")
  /\ \/ /\ Put(k, IF k = "level" THEN work[w].new ELSE live[k])
        /\ Goto(w, "ran")
     \/ UNCHANGED rows /\ Goto(w, "undo")
  /\ UNCHANGED <<up, starts, live, delegates, routed, clean, traffic, suppressed, ran, expired>>

\* Mutant of Rollback: a failed write leaves the memory as it is.
KeepUnsaved(w) ==
  At(w, "undo") /\ Goto(w, "ran") /\ Quiet /\ UNCHANGED clean

Rollback(w) ==
  /\ At(w, "undo") /\ live' = [live EXCEPT ![KeyOf(work[w].body)] = work[w].old]
  /\ Goto(w, "ran")
  /\ UNCHANGED <<up, starts, rows, delegates, routed, clean, traffic, suppressed, ran, expired>>

\* reload takes the commands of each plugin away and puts them back, unless
\* the plugin does not start again.
Unroute(w, p) ==
  /\ At(w, "run") /\ work[w].body[1] = "reload" /\ p \in routed \ {"core"}
  /\ routed' = routed \ {p} /\ work' = [work EXCEPT ![w].at = "reload", ![w].new = p]
  /\ UNCHANGED <<up, starts, rows, live, delegates, clean, traffic, suppressed, ran, expired>>
Reroute(w) ==
  /\ At(w, "reload") /\ Goto(w, "ran")
  /\ routed' \in {routed, routed \cup {work[w].new}}
  /\ UNCHANGED <<up, starts, rows, live, delegates, clean, traffic, suppressed, ran, expired>>
-----------------------------------------------------------------------------
Edit(w) == \/ Read(w) \/ StoreAccess(w) \/ Remember(w) \/ Apply(w)
           \/ SetLive(w) \/ StoreLive(w) \/ Rollback(w)
Work(w) == \/ Take(w) \/ Listen(w) \/ Suppress(w) \/ Later(w) \/ ConsumeSuppressed(w)
           \/ Dispatch(w) \/ Return(w) \/ Other(w) \/ Edit(w)
           \/ (\E p \in routed : Unroute(w, p)) \/ Reroute(w)

Next ==
  \/ \E lost \in {{}} \cup {{k} : k \in Keys}, written \in {{}, Keys} : Start(lost, written)
  \/ Down
  \/ \E m \in inbox : Receive(m)
  \/ Admit \/ IntervalEnds
  \/ \E m \in suppressed : Expire(m)
  \/ \E w \in Workers : Work(w)

Spec == Init /\ [][Next]_vars
-----------------------------------------------------------------------------
\* A message runs as a command once, though a listener and the normal pass
\* both may run it, unless a minute went by between the two (SuppressNext,
\* consumeSuppressed).
OncePerMessage == \A m \in DOMAIN ran : ran[m] > 1 => m \in expired

\* As SuppressNext's comment has it: the normal pass never runs a message a
\* listener has dispatched.
NeverTwice == \A m \in DOMAIN ran : ran[m] <= 1

\* Between two edits of a setting the row, the memory and, for sudo, the
\* router say the same, whatever writes failed and whenever the host ended;
\* only edits that overlap, or a row that could not be read or taken, end this.
Settled ==
  \A k \in Keys :
    up /\ clean[k] /\ (\A w \in Workers : ~Editing(w, k)) =>
      /\ live[k] = Kept(k)
      /\ k = "sudo" => delegates = DelegatesOf(live.sudo)

\* Once a user's delegation is off the stored list, no message of theirs starts
\* a command on their own behalf, not even one admitted before and queued.
RevokedNeverRuns ==
  [][\A w \in Workers :
       LET m == work[w].m IN
       ran' # ran /\ work'[w] # work[w] /\ ~work[w].forced
       /\ clean["sudo"] /\ (\A v \in Workers : ~Editing(v, "sudo"))
       /\ m.from # "me" /\ m.from \notin Owners => m.from \in Kept("sudo").users]_vars

\* Whatever sequence of prefix and alias commands has run, failed or been
\* rolled back: some prefix is left, no alias hides the command that removes
\* aliases, and a command is found in one rewriting.
Repairable ==
  up => /\ live.prefixes # {} /\ "" \notin live.prefixes
        /\ \A a \in DOMAIN live.aliases :
             Rewrite(live.aliases[a], live.aliases) = live.aliases[a]
        /\ \A a \in DOMAIN live.aliases :
             Rewrite(<<"alias", "del">> \o a, live.aliases) = <<"alias", "del">> \o a
=============================================================================
