------------------------------- MODULE YtDlp -------------------------------
(***************************************************************************)
(* The yt-dlp plugin: it finds or installs the program yt-dlp, downloads a *)
(* song with it in a directory of its own, updates it, and keeps settings. *)
(*                                                                         *)
(* Commands run on several workers of the host.  A mutex is held by those  *)
(* that download, install, update and clear; those that only look (doctor, *)
(* binary) look for the program too, and looking may move it.  The titles  *)
(* of songs are left out, and so are ffmpeg and Deno.                      *)
(***************************************************************************)
EXTENDS Naturals, Sequences, ManagedTool

CONSTANTS
  MaxYt,     \* bound: commands
  YtFaults,  \* bound: failures, restarts, new releases
  NoSong,
  Releases,  \* upstream's releases, in their order
  YtWorlds   \* the instances, see YtInit

VARIABLES
  ytWorld,
  tool,       \* the program in the plugin's directory, and its receipt
  spare,      \* the program in the directory of all assets, or NoTool
  isolated,   \* what was put in quarantine
  unmoved,    \* what could not be moved away, or not be looked at
  unreceipted,\* nobody has seen or written a receipt that fits since the program came into its place
  latest,     \* the newest release: a number
  ytSettings, \* the stored settings: [key -> value]
  ytMutex,    \* the worker that holds the mutex, or 0
  songs,      \* [worker -> the command it runs]
  using,      \* the workers that have a slot of the runner
  workDirs,   \* the workers whose downloads have a directory
  ran,        \* the contents that were run
  chosen,     \* [key -> value]: the settings made by commands
  ytSpent
ytVars == <<ytWorld, tool, spare, isolated, unmoved, unreceipted, latest, ytSettings, ytMutex, songs, using, workDirs,
            ran, chosen, ytSpent>>
files == <<tool, spare, isolated, unmoved, unreceipted>>
configs == <<ytSettings, chosen>>

\* What does not come from upstream: damaged on the way, or put there by
\* someone else.  "unfinished" stands for a run of a program without receipt.
Strays == {"damaged", "stray", "other stray", "unfinished"}
\* Receipts are the plugin's own.
ASSUME YtAssumption ==
  /\ Len(Releases) \in Nat \ {0} /\ \A i \in 1 .. Len(Releases) : Releases[i] \notin Strays
  /\ NoTool \notin Strays
  /\ \A world \in YtWorlds :
       /\ world.workers \in Nat
       /\ world.tool = Managed(world.tool.bin, world.tool.receipt) /\ world.tool.receipt \notin Strays
       /\ \A c \in world.commands : c.kind \in {"download", "update", "setup", "doctor", "binary", "clear", "set"}

YtWorkers == 1 .. ytWorld.workers
Release == Releases[latest]
YtRead(key) == IF key \in DOMAIN ytSettings THEN ytSettings[key] ELSE ""
YtWith(map, key, value) == [k \in DOMAIN map \cup {key} |-> IF k = key THEN value ELSE map[k]]
YtWithout(map, key) == [k \in DOMAIN map \ {key} |-> map[k]]

\* A bug: the predecessor's settings replace those that are there.
ImportOver(stored, legacy) ==
  [k \in DOMAIN stored \cup DOMAIN legacy |-> IF k \in DOMAIN legacy THEN legacy[k] ELSE stored[k]]
MigrateLegacyConfig(stored, legacy) ==
  [k \in DOMAIN stored \cup DOMAIN legacy |-> IF k \in DOMAIN stored THEN stored[k] ELSE legacy[k]]
\* world: [workers, slots, tool, spare, system, legacy, commands]: the slots
\* of the runner, the files at first, a program in the PATH or none, the
\* predecessor's settings
YtInit(world) ==
  /\ ytWorld = world /\ tool = world.tool /\ spare = world.spare /\ isolated = {} /\ unmoved = {}
  /\ unreceipted = ~Verify(world.tool) /\ latest = 1
  /\ ytSettings = MigrateLegacyConfig(<<>>, world.legacy) /\ chosen = <<>>
  /\ ytMutex = 0 /\ songs = [w \in 1 .. world.workers |-> NoSong]
  /\ using = {} /\ workDirs = {} /\ ran = {} /\ ytSpent = [orders |-> 0, faults |-> 0]
-----------------------------------------------------------------------------
(* The frame of the commands.                                              *)

YtAt(w, at) == songs[w] # NoSong /\ songs[w].at = at
Kind(w) == songs[w].cmd.kind
YtFine == UNCHANGED ytSpent
YtFault == ytSpent.faults < YtFaults /\ ytSpent' = [ytSpent EXCEPT !.faults = @ + 1]
YtGo(w, at) == songs' = [songs EXCEPT ![w].at = at]
\* The end of a command: the mutex, the slot and the directory are released.
YtEnd(w) ==
  /\ songs' = [songs EXCEPT ![w] = NoSong] /\ ytMutex' = (IF ytMutex = w THEN 0 ELSE ytMutex)
  /\ using' = using \ {w} /\ workDirs' = workDirs \ {w}
YtStay == UNCHANGED <<ytMutex, using, workDirs>>
YtHandle(w) == \E c \in ytWorld.commands :
  /\ songs[w] = NoSong /\ ytSpent.orders < MaxYt
  /\ ytSpent' = [ytSpent EXCEPT !.orders = @ + 1]
  /\ songs' = [songs EXCEPT ![w] = [cmd |-> c, at |-> c.kind, path |-> "", again |-> FALSE,
                                    sums |-> "", binary |-> ""]]
  /\ YtStay /\ UNCHANGED <<ytWorld, files, latest, configs, ran>>
\* Telegram, the network, the disk or the tool fail, or the context is cancelled.
YtFails(w) ==
  /\ songs[w] # NoSong /\ YtFault /\ YtEnd(w)
  /\ UNCHANGED <<ytWorld, files, latest, configs, ran>>
\* The host ends between any two steps: the directories stay.
YtRestarts ==
  /\ YtFault /\ songs' = [w \in YtWorkers |-> NoSong] /\ ytMutex' = 0 /\ using' = {}
  /\ ytSettings' = MigrateLegacyConfig(ytSettings, ytWorld.legacy)
  /\ UNCHANGED <<ytWorld, files, latest, workDirs, ran, chosen>>
\* Upstream publishes a release.
Released ==
  /\ YtFault /\ latest < Len(Releases) /\ latest' = latest + 1 /\ YtStay
  /\ UNCHANGED <<ytWorld, files, configs, songs, ran>>
-----------------------------------------------------------------------------
(* The program is looked for: the one that was chosen, the plugin's own if *)
(* its receipt is right, and the one in the PATH; others are moved away.   *)

\* A bug: a file that is there is good enough.
AnyProgram(t) == Executable(t)
Trusted(t) == Verify(t)
TakeMutex(w) == ytMutex = 0 /\ ytMutex' = w
\* A bug: clear takes no mutex.
NoMutex(w) == UNCHANGED ytMutex
ClearMutex(w) == TakeMutex(w)
\* Who has no mutex to wait for looks at once.
Look(w) ==
  /\ YtAt(w, "doctor") \/ YtAt(w, "binary")
  /\ YtGo(w, "find") /\ YtFine /\ YtStay /\ UNCHANGED <<ytWorld, files, latest, configs, ran>>
Lock(w) ==
  /\ \E kind \in {"download", "update", "setup"} : YtAt(w, kind)
  /\ TakeMutex(w) /\ YtGo(w, IF Kind(w) = "setup" THEN "sums" ELSE "find")
  /\ YtFine /\ UNCHANGED <<ytWorld, files, latest, configs, using, workDirs, ran>>
FirstRun(w) == CASE Kind(w) = "download" -> "prepare" [] Kind(w) = "update" -> "self-update" [] OTHER -> "version"
Found(w, path) ==
  IF Kind(w) = "binary" THEN YtEnd(w)
  ELSE /\ songs' = [songs EXCEPT ![w] = [@ EXCEPT !.path = path, !.at = FirstRun(w)]]
       /\ YtStay
\* Nothing is found, whatever the reason: installing looks once more and
\* then begins, the others end.
NotFound(w) ==
  IF Kind(w) \in {"doctor", "binary"} THEN YtEnd(w)
  ELSE /\ songs' = [songs EXCEPT
            ![w] = [@ EXCEPT !.at = IF songs[w].again THEN "sums" ELSE "find", !.again = TRUE]]
       /\ YtStay
\* A program that cannot be read has no receipt, and one that cannot be
\* looked at is not there.
FindOwn(w) ==
  \/ YtFine /\ Trusted(tool) /\ Found(w, "own") /\ UNCHANGED unmoved
  \/ YtFine /\ ~Trusted(tool) /\ YtStay /\ YtGo(w, IF Executable(tool) THEN "isolate" ELSE "find spare")
     /\ UNCHANGED unmoved
  \/ YtFault /\ YtGo(w, "isolate") /\ YtStay /\ UNCHANGED unmoved
  \/ YtFault /\ YtGo(w, "find spare") /\ YtStay /\ unmoved' = unmoved \cup Quarantined(tool)
\* A chosen program that is not executable, or a choice that cannot be read, is passed over.
YtFind(w) ==
  /\ YtAt(w, "find")
  /\ \/ YtRead("binary") # "" /\ YtFine /\ Found(w, "chosen") /\ UNCHANGED <<unmoved, unreceipted>>
     \/ YtRead("binary") # "" /\ YtFault /\ YtGo(w, "find own") /\ YtStay /\ UNCHANGED <<unmoved, unreceipted>>
     \/ YtRead("binary") = "" /\ FindOwn(w) /\ unreceipted' = (unreceipted /\ ~Verify(tool))
  /\ UNCHANGED <<ytWorld, tool, spare, isolated, latest, configs, ran>>
PassedOver(w) ==
  /\ YtAt(w, "find own") /\ FindOwn(w) /\ unreceipted' = (unreceipted /\ ~Verify(tool))
  /\ UNCHANGED <<ytWorld, tool, spare, isolated, latest, configs, ran>>
\* A program that cannot be moved away stays, and nothing is found.
Isolate(w) ==
  /\ YtAt(w, "isolate")
  /\ \/ YtFine /\ tool' = Quarantine(tool) /\ isolated' = isolated \cup Quarantined(tool)
        /\ YtGo(w, "unreceipt") /\ YtStay /\ UNCHANGED unmoved
     \/ YtFault /\ NotFound(w) /\ unmoved' = unmoved \cup Quarantined(tool) /\ UNCHANGED <<tool, isolated>>
  /\ UNCHANGED <<ytWorld, spare, unreceipted, latest, configs, ran>>
FindSpare(w) ==
  /\ YtAt(w, "find spare")
  /\ \/ YtFine /\ YtGo(w, IF spare = NoTool THEN "look in PATH" ELSE "unreceipt") /\ YtStay
        /\ spare' = NoTool /\ isolated' = isolated \cup ({spare} \ {NoTool})
     \/ YtFault /\ (NotFound(w) \/ (YtGo(w, "look in PATH") /\ YtStay)) /\ UNCHANGED <<spare, isolated>>
  /\ UNCHANGED <<ytWorld, tool, unmoved, unreceipted, latest, configs, ran>>
Unreceipt(w) ==
  /\ YtAt(w, "unreceipt") /\ YtGo(w, "find spare") /\ tool' = RemoveReceipt(tool)
  /\ YtFine /\ YtStay /\ UNCHANGED <<ytWorld, spare, isolated, unmoved, unreceipted, latest, configs, ran>>
LookPath(w) ==
  /\ YtAt(w, "look in PATH")
  /\ IF ytWorld.system THEN Found(w, "system") ELSE NotFound(w)
  /\ YtFine /\ UNCHANGED <<ytWorld, files, latest, configs, ran>>
-----------------------------------------------------------------------------
(* The installation: checksums, program, and the two put in place.         *)

Sums(w) ==
  /\ YtAt(w, "sums") /\ songs' = [songs EXCEPT ![w] = [@ EXCEPT !.at = "get", !.sums = Release]]
  /\ YtFine /\ YtStay /\ UNCHANGED <<ytWorld, files, latest, configs, ran>>
\* A bug: the checksum is not compared.
Unchecked(sum, content) == TRUE
ChecksumIs(sum, content) == sum = content
\* What arrives is the newest release, or was damaged on the way.
YtDownload(w) == \E content \in {Release, "damaged"} :
  /\ YtAt(w, "get")
  /\ IF content = "damaged" THEN YtFault ELSE YtFine
  /\ IF ChecksumIs(songs[w].sums, content)
     THEN /\ songs' = [songs EXCEPT
               ![w] = [@ EXCEPT !.at = IF Kind(w) = "setup" THEN "replace" ELSE "place", !.binary = content]]
          /\ YtStay
     ELSE YtEnd(w)
  /\ UNCHANGED <<ytWorld, files, latest, configs, ran>>
\* A bug: whatever is there is removed.
RemovedOf(t) == {}
\* The plugin's own program is removed, another is moved away.
IsolatedOf(t) == IF Verify(t) THEN {} ELSE Quarantined(t)
Replace(w) ==
  /\ YtAt(w, "replace") /\ YtGo(w, "place")
  /\ tool' = RemoveReceipt(Quarantine(tool)) /\ isolated' = isolated \cup IsolatedOf(tool)
  /\ YtFine /\ YtStay /\ UNCHANGED <<ytWorld, spare, unmoved, unreceipted, latest, configs, ran>>
\* What is still in the program's place is written over.
Place(w) ==
  /\ YtAt(w, "place") /\ YtGo(w, "receipt") /\ tool' = [tool EXCEPT !.bin = songs[w].binary]
  /\ unreceipted' = TRUE
  /\ YtFine /\ YtStay /\ UNCHANGED <<ytWorld, spare, isolated, unmoved, latest, configs, ran>>
\* When the receipt cannot be written the program is removed again.
Receipt(w) ==
  /\ YtAt(w, "receipt")
  /\ \/ YtFine /\ tool' = WriteReceipt(tool, songs[w].sums) /\ Found(w, "own") /\ unreceipted' = FALSE
     \/ YtFault /\ tool' = Quarantine(tool) /\ YtEnd(w) /\ UNCHANGED unreceipted
  /\ UNCHANGED <<ytWorld, spare, isolated, unmoved, latest, configs, ran>>
-----------------------------------------------------------------------------
(* What is done with the program; each run takes a slot of the runner.     *)

Prepare(w) ==
  /\ YtAt(w, "prepare") /\ YtGo(w, "info") /\ workDirs' = workDirs \cup {w}
  /\ YtFine /\ UNCHANGED <<ytWorld, files, latest, configs, ytMutex, using, ran>>
Program(path) == IF path = "own" THEN tool.bin ELSE path
\* What is recorded of a run; doctor has no mutex, so a program may come into place under it.
RunOf(w) ==
  IF songs[w].path = "own" /\ Kind(w) \in {"download", "update", "setup"} /\ unreceipted THEN "unfinished"
  ELSE Program(songs[w].path)
Runs(w) == \E at \in {"info", "fetch", "self-update", "version"} : YtAt(w, at)
Run(w) ==
  /\ Runs(w) /\ w \notin using /\ FreeSlot(using, ytWorld.slots)
  /\ IF Program(songs[w].path) = NoTool THEN YtEnd(w) /\ UNCHANGED ran
     ELSE /\ using' = using \cup {w} /\ ran' = ran \cup {RunOf(w)}
          /\ UNCHANGED <<songs, ytMutex, workDirs>>
  /\ YtFine /\ UNCHANGED <<ytWorld, files, latest, configs>>
\* yt-dlp -U puts the newest release in its own place; the receipt stays as it was.
SelfUpdated(w) ==
  IF YtAt(w, "self-update") /\ songs[w].path = "own" /\ Executable(tool)
  THEN tool' = [tool EXCEPT !.bin = Release] ELSE UNCHANGED tool
RunDone(w) ==
  /\ Runs(w) /\ w \in using /\ SelfUpdated(w)
  /\ IF YtAt(w, "version") THEN YtEnd(w)
     ELSE /\ YtGo(w, CASE YtAt(w, "info") -> "fetch" [] YtAt(w, "fetch") -> "upload" [] OTHER -> "version")
          /\ using' = using \ {w} /\ UNCHANGED <<ytMutex, workDirs>>
  /\ YtFine /\ UNCHANGED <<ytWorld, spare, isolated, unmoved, unreceipted, latest, configs, ran>>
YtUpload(w) ==
  /\ YtAt(w, "upload") /\ YtEnd(w) /\ YtFine /\ UNCHANGED <<ytWorld, files, latest, configs, ran>>
\* Every directory of a download is removed.
Clear(w) ==
  /\ YtAt(w, "clear") /\ ClearMutex(w) /\ YtGo(w, "clearing")
  /\ YtFine /\ UNCHANGED <<ytWorld, files, latest, configs, using, workDirs, ran>>
Cleared(w) ==
  /\ YtAt(w, "clearing") /\ songs' = [songs EXCEPT ![w] = NoSong]
  /\ ytMutex' = (IF ytMutex = w THEN 0 ELSE ytMutex) /\ workDirs' = {}
  /\ YtFine /\ UNCHANGED <<ytWorld, files, latest, configs, using, ran>>
\* A setting is stored, or deleted when no value is given.
Assigned(settings, key, value) ==
  IF value = "" THEN YtWithout(settings, key) ELSE YtWith(settings, key, value)
Configure(w) ==
  /\ YtAt(w, "set") /\ YtEnd(w) /\ YtFine
  /\ LET c == songs[w].cmd IN
       /\ chosen' = YtWith(chosen, c.key, c.value)
       /\ ytSettings' = Assigned(ytSettings, c.key, c.value)
  /\ UNCHANGED <<ytWorld, files, latest, ran>>

YtNext ==
  \/ \E w \in YtWorkers :
       \/ YtHandle(w) \/ YtFails(w) \/ Look(w) \/ Lock(w) \/ YtFind(w) \/ PassedOver(w) \/ Isolate(w)
       \/ FindSpare(w) \/ Unreceipt(w) \/ LookPath(w) \/ Sums(w) \/ YtDownload(w) \/ Replace(w) \/ Place(w) \/ Receipt(w)
       \/ Prepare(w) \/ Run(w) \/ RunDone(w) \/ YtUpload(w) \/ Clear(w) \/ Cleared(w) \/ Configure(w)
  \/ YtRestarts \/ Released
YtSpec == (\E world \in YtWorlds : YtInit(world)) /\ [][YtNext]_ytVars
-----------------------------------------------------------------------------
(* Whatever arrives damaged or was put there by someone else is never run, *)
(* and neither is, except by doctor, a program left by a crash between its *)
(* coming into place and its receipt, until a receipt that fits was seen   *)
(* or written: what ran is a release whose installation was completed, or  *)
(* the program that the owner or the system has chosen.                    *)
TrustedRuns == ran \cap Strays = {}

(* The directory of a download is there until the download has ended, also *)
(* when the temporary files are cleared meanwhile.                         *)
DirIsKept == \A w \in YtWorkers :
  (\E at \in {"info", "fetch", "upload"} : YtAt(w, at)) => w \in workDirs

(* A program the plugin did not install is moved away and never deleted or *)
(* written over, however the commands that look for it and install it      *)
(* interleave, except one that could not be moved away or looked at: an    *)
(* installation goes on and puts the release in its place.                 *)
StraysAreKept ==
  {ytWorld.tool.bin, ytWorld.spare} \cap Strays \subseteq isolated \cup {tool.bin, spare} \cup unmoved

(* A setting made by a command is not replaced by the predecessor's, which *)
(* every start imports again.                                              *)
ChosenIsKept == \A k \in DOMAIN chosen : chosen[k] # "" => YtRead(k) = chosen[k]

(* The four together: what the services run checks of this plugin.         *)
ToolsAreSafe == TrustedRuns /\ DirIsKept /\ StraysAreKept /\ ChosenIsKept
=============================================================================
