# TeleBox-Go in TLA+

TeleBox-Go is a Telegram user bot: one host process that logs in as the owner's
account, runs commands and passes messages to plugins. Every plugin but the
built-in `core` is a child process, reached over JSON-RPC on its stdin and
stdout. This directory holds TLA+ models of the parts of that system where order,
failure and concurrency decide whether it is correct, the TLC configurations
that check them on small instances, and proofs of the main safety results for
instances of every size.

`PROJECT.json` maps every definition to the source lines it models, and lists
components, runs, mutants, hazards, findings and theorems.

## 1. The system

### 1.1 Parts

| Part | State it keeps | Operations | Talks to |
|---|---|---|---|
| `cmd/telebox` | none; reads configuration, applies a staged restore, opens the database | `main`, `run` | systemd restarts it after every exit |
| `internal/app` | lifecycle, connection flags | `Run`, `handleMessage`, deferred shutdown | registry, pool, Telegram client, storage |
| `internal/dispatch` | bounded job queue, workers | `Start`, `Submit`, `Stop` | runs jobs of `app` |
| `internal/command` | command table, aliases, prefixes | register, parse, dispatch | registry fills it, workers read it |
| `internal/plugin` | entries in order, `enabled` flags, one mutex | `Enable`, `Disable`, `Remove`, `Shutdown`, listener lists | router, supervisors |
| `internal/pluginexternal` | process, peer, stdin, `done` of one plugin, one mutex | `Start`, `Stop`, calls that start the process again | registry, workers, OS |
| `internal/pluginrpc` | next id, pending table, `closed`, write mutex | `Call`, read loop, request handlers, `close` | the peer at the other end |
| `internal/pluginruntime` | plugin started or not, readiness | `Run`, start, stop, command, message | the plugin's own code |
| `internal/pluginbridge` | temporary files, what each plugin may do | host services | Telegram, storage |
| `internal/pluginmanager` | one mutex | `Install`, `InstallArchive`, `Update`, `Remove`, `Enable`, `Disable` | market, registry, rows in SQLite |
| `internal/pluginmarket` | package directories | download, verify, rename into place, remove | file system, HTTP |
| `internal/storage` | SQLite in WAL mode | rows of plugins, key-value tables | everyone |
| `internal/corebackup` | staged archive, rollback directories | `Create`, `Stage`, `ApplyPending` | file system, `main` |
| `internal/selfupdate` | executable, `telebox.previous` | check, download, verify, replace | file system, HTTP |
| `internal/plugins/core` | flags and mutexes of commands; delegations, sudo chats | owner's commands | all of the above |
| `internal/scheduler` | named jobs | `Add`, `Remove`, `Stop` | goroutines; no plugin registers a job |
| `internal/ratelimit` | last time per sender | `Allow` | `app` |
| `internal/migration` | converted and imported directories, receipts, quarantine | convert, import, quarantine at the host's start | file system |
| `plugins/pmcaptcha` | one row: questions, verified people, flood; timers | messages of strangers, commands, timers | bridge |
| `plugins/telegrambackup` | a database of backups, archives | backup, export, restore, clear | bridge, SQLite |
| `plugins/inkstone` | short names, stored operations | new, find, bind, write | bridge, a server over HTTP |
| `plugins/ai` | settings, histories, prompts, Telegraph pages | questions, settings, import | bridge, providers over HTTP |
| `plugins/ytdlp`, `plugins/speedlink` | a program with its receipt, settings, servers | install, run, update, test | bridge, processes, SSH |
| `plugins/trace`, `plugins/search`, `plugins/aban`, `plugins/bulkdelete` | rules, a list of channels, a list of chats, a switch | commands, messages | bridge |
| other plugins | nothing, or one setting | commands | bridge |

`PROJECT.json` has all 36 components, those left out with the reason.

### 1.2 Where it is hard

- **Nested calls over two bounded pipes.** A command handler in the plugin
  calls back into the host over the pipes its own request came by. Writes block
  when a pipe is full and hold a mutex while they do. Answers, deadlines, garbage
  and the end of the process race for one waiter with room for one answer.
- **Processes that start again by themselves.** A worker's call starts the
  plugin's process if there is none, beside registry operations that start and
  stop it; a worker keeps a handler it found before the plugin was disabled.
- **Three records of one fact.** Whether a plugin is installed and enabled is
  told by its directory, by the registry and by a row; every step may fail, the
  host may crash between any two, and the reload command bypasses the mutex of
  the operations that keep the three together.
- **Restores and updates across restarts.** Both replace files of the host by
  renames, one after the other, and either may fail or crash at each.
- **Settings that exist twice.** Prefixes, aliases, delegates and a plugin's state
  are a row and a copy in memory, some a third time in the router, and no mutex is
  held from reading to writing; a queued command was admitted under older ones.
- **Timers beside messages.** A question to a stranger is ended by an answer, a
  timer, the owner, a flood or a restart, each of which may meet another's step.
- **Files that cross a process, calls sent twice.** A caller gives up before the
  host makes its file; an append whose answer is lost is sent again.
- **Programs from elsewhere.** A downloaded program and the receipt that vouches
  for it are two files, and looking for a program may move one.
- **Shutdown.** Each stage waits at most ten seconds for the one before and goes
  on without it.

What makes each part correct: a call returns, once, with its own answer; the
supervisor owns every process it started; a registered plugin is on disk; a
success is true in all three records; data is whole and never lost; the loop goes
on whatever a plugin does; shutdown ends and leaves nothing behind; a revoked user
commands nothing; a question ends once; what a plugin answered stays so through
failures and restarts; nothing unverified is run.

## 2. Modules

| Module | Models | Proofs |
|---|---|---|
| `AtMostOnceCall` | abstract: what a plugin call promises | |
| `PluginRpc` | both peers of `pluginrpc`, the two pipes, the end of the process | `PluginRpcProofs` |
| `PluginProcess` | `External`, the registry operations on one plugin, the runtime in the process | `PluginProcessProofs` |
| `PluginController` | `pluginmanager`, the renames of `pluginmarket`, registry entries, routes, rows, reload, crash and boot | `PluginControllerProofs` |
| `CoreRestore` | restore command, staging, `ApplyPending`, undoing it, opening the database | `HostRestartProofs` |
| `SelfUpdate` | update command and updater | `HostRestartProofs` |
| `HostRestart` | composes the two with the life of the process | `HostRestartProofs` |
| `HostRun` | `App.Run`, `handleMessage`, the pool, `Registry.Shutdown` | `HostRunProofs` |
| `CommandPath` | a message on its way to a command: limiter, authorisation, router, Sure listener; sudo, sure, prefix, alias, loglevel, reload | `CommandPathProofs` |
| `PMCaptcha` | strangers' messages, questions and their timers, punishments, floods, commands, restarts | `ChatPluginsProofs` |
| `PluginBridge` | the proxy in the plugin, the host's side, files and errors between them | `ServiceProofs` |
| `TelegramBackup` | backups page by page, clear, export, restore | `ServiceProofs` |
| `Inkstone` | short names, writes with a stored operation, the server | `ServiceProofs` |
| `Migration` | `telebox-migrate` and the quarantine when the host starts | `ServiceProofs` |
| `AiPlugin` | requests, histories, prompts, settings, Telegraph, import | `HostRunProofs` |
| `ManagedTool` | a program and its receipt (operators the next two share) | |
| `YtDlp` | finding, installing, updating and running yt-dlp, settings | `ServiceProofs` |
| `Speedlink` | servers, their passwords and host keys, backups, speed tests | `ServiceProofs` |
| `Trace` | rules for reactions, their row, the predecessor's rules | `ChatPluginsProofs` |
| `Search` | the list of channels, the search, its result | `ChatPluginsProofs` |
| `Moderation` | `aban` and `bulk_delete` in the chats they work on | `ChatPluginsProofs` |
| `ChatTools` | puts the last three side by side | `ChatPluginsProofs` |

`MC_X` gives `X` its constants for TLC. `PluginProcess` takes a call as sent,
handled and answered or failed, which is what `PluginRpc` shows of it.
`PluginController` and `HostRun` take starting and stopping a plugin as one step
that succeeds or fails, which `PluginProcess` shows to end, unless the plugin hangs
in its own Stop under a context without an end.
These are abstractions by argument, not checked refinements; the one checked
refinement is `PluginRpc` of `AtMostOnceCall`.

`PluginBridge` takes the wire as `PluginRpc` shows it: an answer comes once, or
nobody waits any more. `CommandPath` goes on where `HostRun` submits a job.
`MC_Services` puts the modules from `PluginBridge` to `Moderation` side by side:
`part` names the one that runs and the others keep their first state. They share
nothing but the host, so interleaving them would add no behaviour to any of them.
It extends the MC modules of the parts, so that they are checked as they are proved
about.
In each of them a *world* is an instance: a first state, the commands the owner
types and what the outside holds. The instances of a module are its worlds.

Definitions commented `Mutant:` or `A bug:` are variants with a plausible bug. No
next-state relation uses them. Each one shows, put in the place of the
definition it varies, that a property can fail.

### 2.1 PluginRpc

One goroutine per step sequence: `pc[c]` is where a `Call` stands, `handler[c]`
the goroutine of its request at the other end, `reader[p]` and `hand[p]` the read
loop. A step is what happens between two points where another goroutine can get
in: the critical section that registers the waiter, the lock and look at `closed`
in `write`, the moment `Encode` returns, each case of the select,
`removePending`, the critical section in which the read loop takes a waiter out
of `pending`, and the send on it afterwards. `close` empties `pending` in one step
and fails the waiters one by one later. `Exit` is the end of the plugin's
process, after which unread messages in its pipe are lost to the host
(`Cmd.Wait` closes the read end).

Params and results are the name of their call, which the code never looks at:
it matches by id alone, and ids of the two directions coincide. Notifications are
left out; nothing in the repository sends one.

### 2.2 PluginProcess

`cur` stands for the fields `command`, `peer`, `stdin` and `done`, which change
together. The mutex of `External` is held over several steps only while a process
starts (`MuFree`). Stop holds it to take the process and again to clear the
fields, and not in between; so a late call can start another process
meanwhile, which Stop then forgets. Those processes are recorded in `inStop` and
are the stated exception in `NoProcessLost` and `OneProcess`. Only a late call
can make one: it needs a handler found before the routes were removed.

A kill and the exit it leads to are two steps (`Exits`). Stop waits in between;
the error path of a start does not, so the process of a failed start
(`abandoned`) may run beside its successor until it is gone, which is the second
exception in `OneProcess`.

The context of an owner's command has no deadline; `ending` is the end of the
host, which cancels those contexts and after which Shutdown runs with its ten
seconds. The contexts of the Controller's roll-backs (`"undo"`) never end.
`ContextEnds` says which Stop may therefore give up waiting.

### 2.3 PluginController

A package is its version; a directory holds a version, nothing, or something
that cannot be read (`Broken`). `ctl` is the operation in progress with what it
remembers (`had`, `ran`: the status read at the start), `rl` the reload. One
action is one call that can fail or one critical section of the registry.
`Registry.Remove` is two, because it gives the mutex up in between; a reload that
enables the plugin there is recorded in `revived`, the exception in
`RoutesMatchEntries`. An update of all plugins is a sequence of updates. A second
reload at the same time is not modelled. `config.json` lists no plugins as
enabled or disabled, which is its default.

### 2.4 CoreRestore, SelfUpdate, HostRestart

The five items of a backup are replaced in the order of the code (`Order`), each
by two renames (`Preserve`, `Activate`); `boot` is where `ApplyPending` stands.
`wal` is the database whose log lies beside the database file. `before` and `hit`
record what the host had when it last ran and what went wrong since. A restore
that fails stays staged and is tried again on every start: that is the code's
behaviour, and `StagedUntilApplied` relies on it. Only an archive that cannot be
unpacked is given up, whether it is damaged or the disk is full; it is kept beside
the others (`aside`), which `StagedUntilApplied` requires.

An executable is its version. `Plugin.restarting` is read before `updateMu` is
tried, so a command can begin after another has already put its update in place
(`late`).

### 2.5 HostRun

`main` walks through `App.Run` and its deferred calls. A job is the list of
listeners collected under the registry's mutex, called later without it.
Handlers may run for ever. `overdue` records that `Pool.Stop` gave up, `strays`
the plugins a job started after they had been disabled. Messages that match a
command and commands that change the registry are one thing here (`Administer`).
The router, authorisation and the rate limiter decide which jobs are
submitted and are in `CommandPath`.

### 2.6 CommandPath

A text is a mark (its prefix) and a sequence of words. `Rewrite` and `Parse` are
the router's, `ValidAliases` the graph `SetUserAliases` accepts. `rows`, `live` and
`delegates` are the three copies of a setting; an edit reads, changes, stores and
applies in steps of its own (`Read`, `StoreAccess`, `Remember`, `Apply`,
`StoreLive`, `Rollback`), so that two workers meet in every order. `expired` holds
messages whose suppression ran out while listeners were still at work, `clean` the
settings no overlapping edits and no unreadable row have touched: the exceptions of
`OncePerMessage` and `Settled`. Texts are made of `Words`; `Number` says which are
numbers and `Lines` which command and text a word given to `sure msg` stands for.

### 2.7 PMCaptcha

A step is what runs between two calls to Telegram, or one call: the plugin's mutex
guards the state and is never held over a call. `mem` is the state, `row` its
stored form, `timers` the timer of each person's question, `jobs` what worker and
goroutines are at. `account` is what a flood changes of the account, `past` what
happened (ended questions, failed writes, what was cut off). `past.cut` is the
exception of `AccountKept`: the beginning of a flood that could not be stored, an
undoing that failed or was killed, which nothing repeats, a flood that begins
while the last one is still being undone (`Restoring`), and one that is over, five
minutes after its last message, while it still begins (`Beginning`): no deadline ends
the calls it begins with. What the image bot reports is stored first, then the timer
is armed (`Rearm`), then it is acted on, each by itself. Whether a message
fulfils a rule expression is a choice; the expressions themselves are not modelled.

### 2.8 PluginBridge

One call per number: proxy (`at`), host (`host`), the file they name (`shared`).
The manifest decides which methods the host admits. A caller may give up at any
time; the host goes on and may make the file nobody will take, which is `late`,
the exception of `Swept`.

### 2.9 TelegramBackup, Inkstone, Migration

A backup reads pages of the newest messages while messages come and go. `torn`
marks what an interrupted `clear` left, an exception both properties name.
A write of Inkstone is stored, sent and marked; the server applies an operation it
has seen only once. A conversion is three renames and an undo; an import creates
file by file in place, which is what `ImportIsWhole` is about. The quarantine walks past
`plugin-runtime`, `quarantine` and a tool whose receipt fits (quarantine.go:42-57);
the model is about the paths it does look at.

### 2.10 AiPlugin, YtDlp, Speedlink

`AiPlugin` reads settings at once and writes them one by one; `configMu` guards
histories and prompts only. A command's writes are a set with an order, of which those of
the same order, those of a Go map, come as they may. A read that fails gives the default, as if nothing
were stored: `Reads` is what a command may find, and the operators that read take the
map they read from. `mine`, `recent`, `drafts`, `adopted`
and `answered` record what was promised, and forget what a failed read has made a command
write over. `ManagedTool!Verify` is the receipt's checksum. Looking
for a program (`YtDlp`) and installing it are steps of different workers, only one
of which holds the mutex. Every failure there to look at a program or to move it away
is taken for "not found", and an installation follows: `unmoved` has what it writes over.
What lies in the program's place without having had its receipt is one of the `Strays`
when it is run (`RunOf`), whoever put it there.
`Speedlink` runs one command at a time under its mutex;
what interferes are failures, lost answers, restarts and host keys that change. `lostKeys`
counts the keys a start wrote over because it could not read them, and `lapsed` names what
a failed read or write has put apart until it is mended.

### 2.11 Trace, Search, Moderation

`Trace` holds its mutex over the write (`traceMu`), and a failed write leaves the
changed rules in memory: `said` has for each rule what the answers allow.
`Search` works on a copy of the list it read at the beginning of a command;
`listed` is what the last stored list has to have, which is what the command had read
(`base`), changed as its answer says. `leftDirs` counts the directories of killed
processes, which nobody removes. `searching` has the workers that are at a command, and no
others. `Moderation` has the chat of the commands with its
messages, and the chats the account manages with the list `aban` keeps of them:
`need` is the refresh a command began after, `read` the one its list was read for, and
`behind` says that a list read before the last refresh had been put back when the command
took it (aban.go:276-298 does not stop that), which `RefreshHolds` excepts.
`lastID` is the last number given in the chat; numbers are not used again.

## 3. What is checked

Every run is in `PROJECT.json`. "States" are TLC's distinct states.

### 3.1 Runs that pass

| Run | States | Properties |
|---|---|---|
| `rpc_faults` | 400,600 | `SendsNeverBlock`, `NeverForgotten`, `NoStalePending`, `OwnAnswer`, `AtMostOnce` |
| `rpc_returns` | 2,503 | `HostCallsReturn`, `AllCallsReturn` |
| `process_safety` | 2,477,724 | `NoEarlyCommand`, `NoProcessLost`, `OneProcess` |
| `process_flow` | 61,731 | `RegistryIsReleased`, `CallsReturn` |
| `controller_all` | 166,490 | `EntryIsOnDisk`, `RoutesMatchEntries`, `SuccessIsInStep`, `NeverLost` |
| `restart_all` | 1,271,643 | `OriginalsKept`, `AllOrNothing`, `StagedUntilApplied`, `OnlyVerified`, `WayBack` |
| `host_all` | 65,730 | `QuietAtClose`, `ShutdownStopsAll`, `LoopGoesOn`, `HostExits` |
| `commands_all` | 582,256 | `OncePerMessage`, `Settled`, `Repairable`, `RevokedNeverRuns` |
| `captcha_all` | 1,625,177 | `EndsOnce`, `TimersCover`, `AccountKept` |
| `services_all` | 1,454,895 | `FilesAreKept`, `BackupsAreSound`, `WritesAreSafe`, `MigrationIsSound`, `AiIsSound`, `ToolsAreSafe`, `SpeedlinkIsSound`, `ChatToolsAreSound` |

The `TypeOK` of `PluginRpc`, `PluginController` and `HostRestart` is proved
(`TypeCorrect`) and part of the invariants the proofs use, as is that of `HostRun`;
that of `PluginProcess` documents the state and is in no run.

Bounds, and why they are enough for the cases of interest:

- **rpc_faults**: a command call, a nested call back, and a second call, over
  pipes of one message. Two calls of one end and one of the other are the least
  that can confuse answers or ids; one message is the least a pipe can hold, and
  the tightest. One call has a deadline. stdin closes, garbage comes and the
  process exits at any point.
- **rpc_returns**: the nested pair alone, without deadlines: a deadlock needs a
  cycle over the two pipes and their two write mutexes, which two calls make.
- **process_safety**: two workers and the registry, three processes. A late call
  beside Stop, and a third process after it, need all three. Workers are
  symmetric; the run has no liveness property. Garbage on stdout and roll-backs
  are in `process_flow` and in the proof, which hold for any faults; so is a removal,
  which stops the process as disabling does.
- **process_flow**: one worker, two processes, every function of the plugin may
  hang, the host may end at any time. After `MaxProcs` processes a spawn fails.
- **controller_all**: one plugin with two versions. Operations and reload treat
  plugins one at a time; the proofs cover any number.
- **restart_all**: a standard and a full backup, two attempts (an attempt on what
  a crashed one left needs two), two workers, three versions (two updates in one
  run of the host need three). A behaviour uses restores or updates: they share
  no file. The proofs have no such restriction.
- **host_all**: two workers, a queue of two, one plugin, two commands. The least
  with which every worker is stuck, the queue is full and a command waits for
  the mutex while shutdown does.

- **commands_all**: two workers, a queue of two, eleven worlds of at most three
  messages each: two edits of one setting and a command they decide about is what
  it takes to lose or revive a right. Two starts: the second reads what the first
  left. `-` is the configured prefix, and nobody but the account is an owner.
- **captcha_all**: two strangers, one worker and one goroutine, three messages or
  commands, two questions, two floods, one fault, six worlds. One flood needs two
  messages; in another world one is enough, so that a second begins while the first is
  undone. A question that is asked again needs two. That a
  question is brought back while it is sent (see 3.2) takes a second worker to be of
  interest; the proofs have any number of them.
- **services_all**, by part:
  - *bridge* (41,839 states): two calls, two faults; two calls are the least that
    could mix their files.
  - *backup* (249,461): pages of two, a limit of three, four messages, archives of one
    document, three backups, four commands, one fault. A page, the limit and the end
    of the chat come in every order.
  - *inkstone* (110,854): three commands, two faults; in the world of two workers both
    write one message.
  - *migration* (162,751): four runs, two faults; a run to fail, one to repeat it, a
    start of the host and a second conversion.
  - *ai* (299,278, seven worlds): two or three commands, two faults, histories of four.
    A read that fails is a fault too: one before a write, and one more beside it.
  - *yt-dlp* (193,086): three commands of two workers, two faults: a program that cannot
    be moved away, and a failure of the installation that follows.
  - *speedlink* (124,977): four commands, two faults, of which a failed read of the key,
    the list or the time at a start is one.
  - *trace* (56,312): two workers, three commands or messages, two faults.
  - *search* (60,732): two workers, three channels, three commands, one fault. One
    channel has an album, one short videos, one a discussion only.
  - *moderation* (155,605): two workers, pages of two messages, two commands in two
    chats or three in one, one fault or change in the chats.

What the passing runs show beyond their names:

- `SendsNeverBlock`, `NeverForgotten`, `NoStalePending`: whoever removes a waiter
  from the table is the only one to send on it, and it is always somebody.
- `AllOrNothing` is stated with what breaks it: a failure in an attempt that
  follows a crashed one (the second attempt takes what the first left for the
  originals), and a failed undo, which the code ignores. Crashes alone and failures
  alone do not break it. `OriginalsKept` has no exception.
- `SuccessIsInStep` is about success. What a failed operation may leave is
  described in 3.2, and: Disable whose Stop fails leaves the row enabled, and a
  crash between the two renames of an install leaves no package in place though
  its backup is there.
- `LoopGoesOn` needs that starting and stopping a plugin ends; 3.2 has what happens
  when it does not.
- `Settled` and `RevokedNeverRuns` hold although no mutex spans an edit: between two
  edits that do not overlap, the three copies agree, also after failed writes.
- `EndsOnce` and `TimersCover` hold through every restart: `Start` takes up the
  questions it finds and no timer fires for one that has been replaced. Their
  exceptions are the code's: `revived` has the questions `saveChallenge` brought back,
  each of which ends a second time and never a third; `untimed` those whose type has no
  limit; `crossed` those whose timer another question of the same person took; and a
  write that fails (`unsaved`) ends the promise for a run of the plugin.
- The properties of `services_all` are conjunctions, each conjunct a definition with
  a comment in its own module: `FilesAreKept` is `Faithful` and `Swept`, `AiIsSound`
  has six parts, `ChatToolsAreSound` `RulesAreKept`, `SearchIsSound` and
  `ModerationIsSound`. Each states its exceptions.

### 3.2 Where the program does not do what it says

Two runs each state what the repository says of itself and find it does not hold.

| Run | Statement | What happens |
|---|---|---|
| `backup_whole` | `BackupIsWhole` (telegrambackup.go:827) | a page that a service message has made shorter counts as the last one, and the backup is reported as done |
| `migration_torn` | `ImportIsWhole` (import.go:52) | the process ends in the middle of a file, and the repeated import takes the part for a file that exists |

The modules hold further statements that do not hold, without a run; each is a
definition to put into a cfg:

| Statement | What happens |
|---|---|
| `PluginProcess!RemovedDoesNotRun` (registry.go:106) | a worker that found the handler earlier starts the process of a removed plugin |
| `PluginProcess!LoopIsFree` (architecture.md:9) | a plugin that hangs in Stop while a command disables it keeps the registry's mutex, and with it the message loop, until the host ends |
| `PluginController!StaysSynchronized` (controller.go:19) | after a failed archive install the row says enabled and the plugin is not |
| `HostRestart!Startable` (architecture.md:124) | a crash between the two renames of `config.json`: `main` reads it before it would resume the restore |
| `HostRestart!NeverMixed` (user-guide.md:901) | after a crash the old database's log lies beside the restored database |
| `CommandPath!NeverTwice` (router.go:204) | a listener takes longer than the minute a suppression lasts, and the message runs again |
| `PMCaptcha!TrustedIsNotPunished` (commands.go:1261) | the owner answers a stranger, who is trusted and then punished by the timer of his question |
| `Inkstone!NewKeepsAliases` | `new` stores its binding over one that was made while the server was asked |

`NeverMixed` says which files meet; what SQLite does with a log that belongs to
another database depends on its checksums and is not modelled.

What a reader of the models should also know of the code, each visible in the
module named:

- `PluginProcess`: the process of a failed start is killed but not waited for; the
  next start may spawn another in the same work directory beside it.
- `CoreRestore`: a full disk or a read error while the staged archive is unpacked gives
  a good archive up as if it were damaged; it is kept as `.invalid-*`.
- `PMCaptcha`: with two workers, `saveChallenge` writes a question back that was
  ended while it was being sent. A flood that begins before the last one is undone
  reads the setting the last one made, and keeps it as the owner's. A flood may also
  be ended, by a timer another worker has armed, while its beginning still waits for
  Telegram: what that changes then is not put back.
- `TelegramBackup`: an export of everything has no limit of documents, but restore
  refuses archives of more than 1001 entries.
- `Inkstone`: `new` repeated under a new message makes a second note.
- `AiPlugin`: `context clear` brings the predecessor's history back; a memory that is
  switched off while an answer is awaited is written once more; the list of
  Telegraph posts is loaded and saved without a lock. A history, the prompts or the list
  of posts that cannot be read (config.go:202-208) counts as empty and is stored anew
  with the next answer, prompt or post (config.go:306-309, 347-351, telegraph.go:183), and
  what a command fills in because it seems to be missing replaces a setting it could not
  read.
- `YtDlp`: `yt update` replaces the program without its receipt, so that the next
  command that looks for it isolates it; a command without the mutex can isolate a
  program between its rename and its receipt; a cleared Gemini key comes back with
  the next start's import. A program of somebody else that cannot be looked at or moved away
  is taken for none (ytdlp.go:149-154, 387-389, setup.go:94-99), and the installation puts
  the release in its place (setup.go:177); `yt doctor`, without the mutex, may run a
  program whose receipt is still to be written; a configured program that cannot be
  executed is passed over without a word.
- `Speedlink`: a removal that cannot be stored is not taken back; a read of the list
  that fails at the start lets the import replace it; an emptied list is imported
  again; a torn key file stops every start. A key file that cannot be read is replaced by
  a new key (speedlink.go:1082-1099), after which no password stored before can be opened;
  a time that cannot be read at the start is the default of five minutes until it is set
  again or the next start (165-170); a list that was stored although the answer was lost
  differs from memory until the next change.
- `Search`: a list that cannot be read counts as the program's own and is stored as
  such by the next change; two changes at once lose one; a process that is killed
  leaves the directories of its files behind (search.go:275-279, 633-637); a forward whose answer is
  lost is followed by a copy; a discussion's first thread with nothing but
  advertisements hides the later ones; a failed read of a channel also drops what
  its discussion gave.
- `Moderation`: a switch of `bulk_delete` that cannot be read is on; of a range of
  more than one page only the newest is deleted; a page shortened by service
  messages ends the search for own messages; a cancelled `sb` counts calls in flight
  twice (nobody reads that answer).

### 3.3 Fairness

- A goroutine that can take a step takes it (weak fairness of the steps of
  calls begun, handlers, read loops, workers and `App.Run`).
- Steps that take a mutex have strong fairness: a `sync.Mutex` hands itself over
  in arrival order after a millisecond of waiting, and an `RWMutex` lets readers
  in after each writer.
- Timers fire, so contexts with a deadline end: Shutdown's ten seconds, the twenty
  of a start. The context of a command has no deadline, and nothing forces the
  host to end; `RegistryIsReleased` and `CallsReturn` name the one wait this leaves
  without a limit, for a plugin that hangs in its own Stop.
- The modules of the plugins state no liveness: their commands end when the calls
  to Telegram do, which nothing bounds.
- The plugin's own functions return unless `Hangs` names them; in `HostRun` no
  handler has to return.
- Nothing forces a message, a command, a signal, a fault or a deadline that only
  may be set.
- A plugin process whose peer is done exits (`Exit` in `PluginRpc`): `Run` returns
  when stdin ends, after a Stop that honours its ten seconds. A plugin that does not
  honour them is in `PluginProcess` (`"stop" \in Hangs`), where the host kills it once
  it ends itself.

### 3.4 Mutants

For each property of each passing run, `PROJECT.json` names a mutant of one
mapped definition: a dropped guard, a missing reset or removal, a swapped order.
TLC finds the property violated with each. A property of `services_all`, being a
conjunction, has one for nearly every conjunct: 37 in all.

## 4. What is proved

TLAPS checks the theorems for every value of the constants that satisfies the
modules' assumptions: any set of calls, plugins, versions, archives and workers,
any pipe capacity and number of attempts. Assumptions only say what kinds of
values constants are, and:

- `PluginRpc`: a nested call goes the other way than its parent.
- `CoreRestore`: every archive holds the database, which `Validate` requires.
- `CommandPath`: the rows of sudo, sure and aliases, when there are any, decode to what
  the program encodes there (`Stored`), whether or not the aliases are sound. Nothing else
  writes them; with one of sudo or sure that did not decode, the code would import the old
  database's again (delegation.go:52-62).
- `PluginBridge`: operations are made by methods of the proxy.
- `TelegramBackup`: no message of a chat has a number above its last one.
- `Migration`: `Absent` is no file, and each path of an archive has a kind.
- `Inkstone`: there is a worker, and bindings from before are to the first note.
- `Speedlink`: the receipts are the plugin's own; commands and files are what its
  parsers return.
- `Trace`: a source of old rules decodes to a value for each rule, or is none or broken;
  `NoTrace` is no worker.
- `Search`: the list to begin with is one the program stored (no channel twice, the
  default is one of them), an imported file is a list of channels, the program's own
  words are words, `NoList` is no list.
- `Moderation`: messages have different numbers up to the last one given; chats are
  finite in number, and so are messages.
- `Trace`, `Search`, `Moderation`: commands are what the parsers return.
- `AiPlugin`: commands are what the plugin's parsers return; stored histories decode to
  what the program encodes there; the predecessor had nothing the import does not read.
- `YtDlp`: neither the releases nor the receipts are among what others put in the
  program's place (`Strays`).

**`PluginRpcProofs`**. `TypeCorrect`; `Invariance` (`[]IInv`); `WaitersSafe`: the four
facts about waiters, which `NothingForgotten`, `PendingIsCurrent` and
`AnswersOwnCall` state one by one; `Refinement`: `Spec => AtMostOnce`. The safety properties
are not inductive: that a response finds the right waiter depends on
ids being unique among calls begun (`IdsUnique`), on which messages can be in a
pipe (`PipeInv`: a request in flight is its call's only one and not yet handled, a
response carries the id of a call whose handler is done), and on who may hold a
waiter (`PendingInv`, `HandInv`, `DoomedInv`, `WaiterInv`). Three lemmas take the
steps of calls, handlers and read loops through `IInv`; `AbstractStep` maps each
step to a step of `AtMostOnceCall` or to none.

**`PluginProcessProofs`**. `CommandsComeLater`, `ProcessesAreKept` and
`RestartsWait`, for any number of workers and processes. None of the three is
inductive. What a worker finds behind `mu` has started only because one thread at a
time starts a process and holds `mu` until `PluginStart` is answered (`OneStart`,
`CurrentHasStarted`), and because a process spawned next has a runtime that did
nothing yet (`UnspawnedAreNew`). That Stop may clear the fields without looking rests
on `StopHasCurrent`: while it is under way they hold nothing, the process it has in
its hands, or one that a late call started, and what it had in its hands has exited by
then. `RestartsWait` follows from this and from `NoProcessLost`, in which a process
whose start failed counts as killed and not as gone. `StartsStep` takes
each action through the first half of the invariant, `KeptStep` through the second.

**`PluginControllerProofs`**. `EntryStaysOnDisk` from `DiskInv`: while the
directory may change, the plugin has no entry, and what Register finds is a
package. `RoutesAgree` from `RoutesInv`: the plugin was stopped before its entry
is deleted, unless revived. `SuccessMeansInStep` from what an operation has made
sure of at each of its steps (`OperationInvariance`): each step of an installation,
update, removal or switch says what entry, row and directory are by then, and what
a reload that comes in between may have changed of it. `PackagesAreKept`: the backup of
a renamed package is there until the new one is in place, after a crash too. The steps
are those of operation, reload, crash and boot in any interleaving.

**`HostRestartProofs`**. `OriginalsStay` and `StagedStays` from `RestoreInv`; the
core of it: an attempt only writes into a rollback directory that is empty for
the item at hand (`FreshDirectory`), whatever is replaced and may be deleted by
the undo has been saved (`ReplacedIsSaved`), and what is applied so far is in
place (`ReplacedIsInPlace`). `NothingMissing` is needed for the case of an item
that did not exist. `RestoreIsWhole` (`AllOrNothing`) adds what an attempt may leave:
after crashes alone, whatever the staged archive does not replace is still the owner's
(`AfterCrashes`); after failures alone, each item replaced so far has its original in the
directory of the attempt at hand, and the others are untouched (`AfterFailures`); and
nothing is undone unless something failed (`UndoneAfterFailure`). `UpdatesAreSafe` from `UpdateInv`: the mutex is held from
check to end, what is unpacked has the release's version, and a program on disk
that differs from the one running was put there by a finished update, which also gives
`WayBackStays`. `HostInvariance` puts them together for the composed host.

**`HostRunProofs`**. `NothingLeftBehind` (`QuietAtClose`) and `AllPluginsStopped`
(`ShutdownStopsAll`), for any number of workers, plugins and commands and any length of
the queue. A plugin that runs is one the registry still has in its order, or one of
`strays`; for that each plugin must be in the order once and at the start be enabled
once (`LoadInv`), and only the holder of the mutex may be in the middle of an edit. That
the order is empty when the database is closed follows from the loop of Shutdown.

The module has a second part, on commands that run on that pool and share what they
store: `AiStaysSound` (`AiIsSound`) from `AiInv`, for any workers, chats, commands,
settings and predecessors. None of its six parts is inductive. That a history ends with
what was said needs to know that the holder of `configMu` alone is about to store one, and
that what it stores goes on from what is stored (`Working`, `Holding`), unless its read has
failed: then it writes a new one (`"replace"`), and what was promised begins with that;
the same for prompts (`"replacePrompts"`). That settings stay as made, and that the import is complete when it is marked so, need to know
what each write to come may still touch (`OwnKey`), and that what is left of the import is
all that was not dealt with, in an order with the mark last (`Importing`). An answer is on
its page or wholly shown because of what is left to show at each step (`Showing`).
Lemmas say what the end of a history keeps when it is cut (`LastKept`), what a write does
to what is remembered and promised, and that every command's writes are of keys of its own.

**`CommandPathProofs`**. `RunsOnce` (`OncePerMessage`), `EditsSettle` (`Settled`),
`StaysRepairable` (`Repairable`) and `RevocationHolds` (`RevokedNeverRuns`), for any
number of workers, messages, settings and commands, from any database. A message is in one place, in the inbox, on its
way to the queue, in it or with one worker (`InOnePlace`), and each place says how
often it can have run (`NotYet`). `KeyInv` says of each key what the row, the
memory, the router and the copies an edit carries are at each step of the only edit there
is, which is what `Rollback` and the end of the host rely on. `RepairInv` has
what is well-formed: every list of aliases an edit stores was found valid
(`ValidAliases`) against the commands, and then one rewriting ends at a command
(`Unchained`); the marks of the router are never empty, also after a failed write is
taken back.

**`ChatPluginsProofs`** is about the plugins for chats and strangers, each for any worlds,
workers, commands and faults.

- *Questions*: `AccountStays` (`AccountKept`), for any strangers, threads,
  questions, configurations, floods and faults. `CaptchaInv` says that one thread at most is in
  the long beginning of a flood and one in its undoing, and that neither overlaps the other
  but for `past.cut` (`OneBegins`, `OneRestores`); that what is to be put back is on
  disk before the account is changed (`SettingKept`, `NameKept`); and that the flood in
  memory and the one on disk differ at most in a name that was not given up
  (`FloodIsStored`). A flood that grows quiet while it begins is one of the cases of `past.cut`. `QuestionsEndOnce` (`EndsOnce`) and `QuestionsRunOut` (`TimersCover`)
  are from `QuestionInv`: a number is of one person and in the hands of one thread that is
  sending it (`OneOwner`); what has ended is neither in memory nor in the row, unless that
  thread has brought it back, after which nobody sends it any more (`EndedOnce`).
- *Trace*: `TraceSound` (`RulesAreKept`) from `TraceInv`. Who is between a change and its
  write holds the mutex, and what he writes is what memory has and what his command is to
  make of it; as long as there is no row, what the next start may make of it, the
  program's own rules or the predecessor's, is allowed.
- *Search*: `SearchSound` (`SearchIsSound`) from `SearchInv`. The copy a command works on is
  the list it read and the channels it has added, an import's what was found so far
  (`CopyKnown`), so that what it stores is what its answer says (`AnswerTells`), and a
  directory belongs to a command that is at work. A channel a search has no longer before it was read, and what was asked
  for is among what was found, or could not be read (`SearchKnown`). Lemmas say
  that what is left of a list after a removal, and a list with its default in front, is a
  list with the channels it should have.
- *Moderation*: `ModSound` (`ModerationIsSound`) from `ModInv`. Above the offset of the
  next page nothing of the owner's is left out (`RecentJob`), although messages go between
  the pages; that needs that a page of the newest messages leaves out only older ones. Of a
  batch, each chat is in one state (`BatchJob`); while a list is renewed there is none, or
  one that may be old (`RefreshJob`, `CacheInv`).
- `ChatToolsSound` puts the last three together: `ChatToolsAreSound`.

**`ServiceProofs`** is about the parts of `MC_Services` it extends, each for any
worlds, workers, commands and faults.

- *The bridge*: `FilesStayKept` (`FilesAreKept`) from `BridgeInv`, which says of each call,
  at each step of proxy and host, what its two files hold and what the host has
  answered.
- *Backups*: `BackupsStaySound` (`BackupsAreSound`) from `BackupInv`. Each row has no holes
  and is as much as restore accepts; the one at work has all that lasts down to the
  offset of its next page. The lemmas on pages say what a page of the newest messages
  leaves out. Numbers of messages are never used again.
- *Migration*: `MigrationStaysSound` (`MigrationIsSound`) from `MigrationInv`. A file is in
  the quarantine before it leaves the assets, under a name nothing else has (there is
  one: more names are tried than there are files). The parts a conversion has renamed
  are those it no longer has to rename, so the undo knows what to put back.
- *Inkstone*: `WritesStaySafe` (`WritesAreSafe`) from `InkInv`. The server knows the
  operation of each entry, and each operation has one entry; what is stored, in work
  or answered is about operations that exist. With one worker the request being sent
  is the stored one, and one that is not stored yet was never applied.
- *Speedlink*: `ServersStaySound` (`SpeedlinkIsSound`) from `SlInv`. Both lists hold
  passwords shut with the key on disk or with one that a start has written over, and host
  keys that were accepted; no list is stored
  before there is a key. Answers, disk and memory agree but where `lapsed` says that a
  read or a write has failed and nothing has mended it. What is run was found with its
  receipt a step before.
- *yt-dlp*: `ToolsStaySafe` (`ToolsAreSafe`) from `YtInv`. Once what others put in the
  program's place has left it, nothing of the kind comes back, and every command that
  relies on the program there comes after; who installs over one has failed to move it
  away. The plugin's own program is run with the mutex only when its receipt was seen or
  written. Also who holds the mutexes, and what the
  directories and settings are at each step.

Only model-checked:

- Liveness, for which the prover has no rule: `HostCallsReturn`, `AllCallsReturn`,
  `RegistryIsReleased`, `CallsReturn`, `LoopGoesOn`, `HostExits`.

Every safety property of a passing run is proved.

## 5. Not modelled

- Building and unpacking archives, downloads, checksums: one choice between
  success and failure each, in `pluginmarket`, `corebackup` and `selfupdate`. That
  a good package is told from a damaged one is taken from the code.
- The Telegram adapter, HTTP client, configuration files, error wording and
  formatting: no state of their own.
- Login, the builder, the release and SDK tools, the installer: sequential programs
  a person runs.
- `internal/scheduler`: no plugin registers a job.
- `plugins/eat`, `plugins/convert`, `plugins/rate`: one mutex or cache around work on
  pictures and files, and one setting written as a whole. The other plugins look
  something up and answer.
- Of the modelled plugins: texts and their formatting, lists that are only shown,
  notices that remove themselves, pictures, parsing of arguments and addresses, the
  rule expressions of pmcaptcha, FFmpeg and Deno, the bodies of HTTP requests. Each
  module's heading says what it leaves out.

## 6. Plan

The order was: calls, processes, operations on plugins, restarts, the running host,
the way of a command, questions to strangers, the bridge, and then the plugins with
state of their own, those that keep what cannot be replaced first. What would come
next:

1. Abstract specifications: a plugin as on or off for `PluginProcess`, with late
   calls as its one anomaly; a directory that is replaced whole for the renames of
   `pluginmarket`; a queue with at most one handling per job for the pool.
2. Pure algorithms against reference definitions over bounded inputs: version
   comparison, the rule expressions of pmcaptcha, the fuzzy match of search.
3. Composition of `PluginBridge` with `PluginRpc`, and of `PMCaptcha` with the pool.
