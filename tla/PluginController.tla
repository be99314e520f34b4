--------------------------- MODULE PluginController ---------------------------
(***************************************************************************)
(* How the installed plugins are kept: the package directories on disk     *)
(* (internal/pluginmarket), the live registry with the command routes      *)
(* (internal/plugin) and the plugin_state rows in SQLite (internal/        *)
(* storage), which internal/pluginmanager changes together.                *)
(*                                                                         *)
(* One operation of the Controller runs at a time, under its mutex.  The   *)
(* core plugin's reload command calls the registry directly, without that  *)
(* mutex, so its steps fall between those of an operation.  The host may   *)
(* crash between any two steps; it then starts again from disk and rows.   *)
(*                                                                         *)
(* A package is its version.  Starting and stopping a plugin's process is  *)
(* abstracted to whether it succeeds (PluginProcess has the details).      *)
(***************************************************************************)
EXTENDS Naturals

CONSTANTS
  Plugins,      \* the names of the optional plugins
  MaxVersion,   \* the versions a package may have are 1..MaxVersion
  Operations,   \* the Controller's operations that are used
  Faults,       \* what may fail: "start", "stop", "market", "persist", "crash"
  Reload        \* whether the owner uses the reload command

Versions == 1..MaxVersion
None == 0
Broken == MaxVersion + 1   \* a directory whose manifest or executable is bad

ASSUME ControllerAssumption ==
  /\ MaxVersion \in Nat \ {0}
  /\ Operations \subseteq {"install", "archive", "update", "remove", "enable",
                           "disable"}
  /\ Faults \subseteq {"start", "stop", "market", "persist", "crash"}
  /\ Reload \in BOOLEAN

VARIABLES
  disk,     \* the package in each plugin's directory
  backup,   \* the package in the latest .backup directory, if it is still there
  row,      \* the plugin_state row: "none", "on" or "off"
  entry,    \* the package each registry entry was made from; None: no entry
  enabled,  \* the entries' enabled flags
  routed,   \* the package whose External the router's commands belong to
  life,     \* whether the host runs
  ctl,      \* the Controller operation in progress
  rl,       \* the reload command in progress
  revived   \* history: the plugins a reload enabled while Registry.Remove was
            \* about to delete their entries

persistent == <<disk, backup, row>>
live == <<entry, enabled, routed, revived>>
vars == <<persistent, live, life, ctl, rl>>

Idle == [pc |-> "idle", op |-> "none", on |-> "none", version |-> None,
         had |-> FALSE, ran |-> FALSE, met |-> FALSE]
\* ctl.met is a history too: a reload met the plugin since the operation began.
NoReload == [pc |-> "idle", todo |-> {}, on |-> "none"]

Init ==
  /\ disk = [n \in Plugins |-> None]
  /\ backup = [n \in Plugins |-> None]
  /\ row = [n \in Plugins |-> "none"]
  /\ entry = [n \in Plugins |-> None]
  /\ enabled = [n \in Plugins |-> FALSE]
  /\ routed = [n \in Plugins |-> None]
  /\ life = "up"
  /\ ctl = Idle
  /\ rl = NoReload
  /\ revived = {}

-----------------------------------------------------------------------------
(* Registry.Enable and Registry.Disable, each under the registry's mutex.  *)

CanEnable(n) == entry[n] # None /\ (enabled[n] \/ routed[n] = None)

\* The process starts and the router takes the commands (or both had happened).
EnableSucceeds(n) ==
  /\ CanEnable(n)
  /\ enabled' = [enabled EXCEPT ![n] = TRUE]
  /\ routed' = [routed EXCEPT ![n] = IF enabled[n] THEN @ ELSE entry[n]]

\* There is no entry, the process does not start, or a command name is taken.
EnableFails(n) ==
  /\ ~enabled[n]
  /\ "start" \in Faults \/ ~CanEnable(n)
  /\ UNCHANGED <<enabled, routed>>

\* The commands go and the entry is disabled, also when Stop then fails.
DisableStops(n) ==
  /\ entry[n] # None
  /\ enabled' = [enabled EXCEPT ![n] = FALSE]
  /\ routed' = [routed EXCEPT ![n] = IF enabled[n] THEN None ELSE @]

StopMayFail(n) == enabled[n] /\ "stop" \in Faults

-----------------------------------------------------------------------------
(* Steps of an operation.                                                  *)

At(pc) == life = "up" /\ ctl.pc = pc

Go(pc) == ctl' = [ctl EXCEPT !.pc = pc]
Succeed == ctl' = [ctl EXCEPT !.pc = "ok"]
Fail == ctl' = [ctl EXCEPT !.pc = "failed"]

Installs == ctl.op \in {"install", "archive", "update"}

\* activationAfterInstall: an update keeps a stopped plugin stopped.
ShouldEnable ==
  CASE ctl.op \in {"install", "archive"} -> TRUE
    [] ctl.op = "update" -> ctl.had /\ ctl.ran
    [] ctl.op = "enable" -> TRUE
    [] OTHER -> FALSE

Begin(op, n, v) ==
  /\ life = "up" /\ ctl.pc \in {"idle", "ok", "failed"}
  /\ op \in Operations
  /\ v # None <=> op \in {"install", "archive", "update"}
  /\ ctl' = [Idle EXCEPT !.pc = "look", !.op = op, !.on = n, !.version = v]
  /\ UNCHANGED <<persistent, live, life, rl>>

\* Mutant: the package is replaced while its plugin runs.
LookAndLeaveRunning ==
  /\ At("look")
  /\ LET n == ctl.on
         had == entry[n] # None IN
       ctl' = [ctl EXCEPT
         !.had = had,
         !.ran = had /\ enabled[n],
         !.pc = CASE ctl.op = "enable" -> "enable"
                  [] ctl.op = "disable" -> IF had THEN "stop" ELSE "failed"
                  [] ctl.op = "update" -> "market"
                  [] OTHER -> IF had THEN "stop" ELSE "market"]
  /\ UNCHANGED <<persistent, live, life, rl>>

\* Mutant: the entry is deleted without its plugin having been stopped.
LookWithoutStop ==
  /\ At("look")
  /\ LET n == ctl.on
         had == entry[n] # None IN
       ctl' = [ctl EXCEPT
         !.had = had,
         !.ran = had /\ enabled[n],
         !.pc = CASE ctl.op = "enable" -> "enable"
                  [] ctl.op = "disable" -> IF had THEN "stop" ELSE "failed"
                  [] OTHER -> IF had THEN "delete" ELSE "market"]
  /\ UNCHANGED <<persistent, live, life, rl>>

\* registry.Status: was the plugin registered, and enabled?
Look ==
  /\ At("look")
  /\ LET n == ctl.on
         had == entry[n] # None IN
       ctl' = [ctl EXCEPT
         !.had = had,
         !.ran = had /\ enabled[n],
         !.pc = CASE ctl.op = "enable" -> "enable"
                  [] ctl.op = "disable" -> IF had THEN "stop" ELSE "failed"
                  [] OTHER -> IF had THEN "stop" ELSE "market"]
  /\ UNCHANGED <<persistent, live, life, rl>>

\* registry.Disable, the first half of registry.Remove.
Stop ==
  /\ At("stop")
  /\ DisableStops(ctl.on)
  /\ \/ Go(IF ctl.op = "disable" THEN "persist" ELSE "delete")
     \/ StopMayFail(ctl.on) /\ Fail
  /\ UNCHANGED <<persistent, entry, revived, life, rl>>

\* The second half of registry.Remove locks the mutex again and deletes the
\* entry as it is by now.
Delete ==
  /\ At("delete")
  /\ entry' = [entry EXCEPT ![ctl.on] = None]
  /\ enabled' = [enabled EXCEPT ![ctl.on] = FALSE]
  /\ Go("market")
  /\ UNCHANGED <<persistent, routed, revived, life, rl>>

-----------------------------------------------------------------------------
(* market.Install, market.InstallArchive and market.Remove.                *)

\* Download, checks or unpacking fail, or a broken package is in the way.
FetchFails ==
  /\ At("market") /\ Installs
  /\ "market" \in Faults
  /\ Go("restore")
  /\ UNCHANGED <<persistent, live, life, rl>>

\* Rename the directory, if there is one, to .backup-...
MoveOld ==
  /\ At("market") /\ Installs
  /\ backup' = [backup EXCEPT ![ctl.on] = IF disk[ctl.on] = None THEN @
                                                              ELSE disk[ctl.on]]
  /\ disk' = [disk EXCEPT ![ctl.on] = None]
  /\ Go(IF disk[ctl.on] = None THEN "moveFirst" ELSE "moveNew")
  /\ UNCHANGED <<row, live, life, rl>>

\* Rename the staging directory to the plugin's ...
MoveNew ==
  /\ At("moveNew") \/ At("moveFirst")
  /\ disk' = [disk EXCEPT ![ctl.on] = ctl.version]
  /\ Go(IF ctl.pc = "moveNew" THEN "dropBackup" ELSE "register")
  /\ UNCHANGED <<backup, row, live, life, rl>>

\* Mutant: the old package is not put back.
MoveNewFailsForGood ==
  /\ At("moveNew") \/ At("moveFirst")
  /\ "market" \in Faults
  /\ backup' = [backup EXCEPT ![ctl.on] = None]
  /\ Go("restore")
  /\ UNCHANGED <<disk, row, live, life, rl>>

\* ... or fail to, and put the old one back (whose own failure is ignored).
MoveNewFails ==
  /\ At("moveNew") \/ At("moveFirst")
  /\ "market" \in Faults
  /\ \/ /\ ctl.pc = "moveNew"
        /\ disk' = [disk EXCEPT ![ctl.on] = backup[ctl.on]]
        /\ backup' = [backup EXCEPT ![ctl.on] = None]
     \/ UNCHANGED <<disk, backup>>
  /\ Go("restore")
  /\ UNCHANGED <<row, live, life, rl>>

DropBackup ==
  /\ At("dropBackup")
  /\ \/ /\ backup' = [backup EXCEPT ![ctl.on] = None]
        /\ Go("register")
     \* The new package is in place, yet Install fails.
     \/ /\ "market" \in Faults
        /\ Go("restore")
        /\ UNCHANGED backup
  /\ UNCHANGED <<disk, row, live, life, rl>>

\* Rename the directory to .removed-... and delete that.
Trash ==
  /\ At("market") /\ ctl.op = "remove"
  /\ disk[ctl.on] \in Versions
  /\ disk' = [disk EXCEPT ![ctl.on] = None]
  /\ Go("persist")
  /\ UNCHANGED <<backup, row, live, life, rl>>

\* There is no package that can be read, the rename fails, or the deletion
\* fails half-way and what is left is moved back.
TrashFails ==
  /\ At("market") /\ ctl.op = "remove"
  /\ \/ disk[ctl.on] \notin Versions /\ UNCHANGED disk
     \/ "market" \in Faults /\ UNCHANGED disk
     \/ "market" \in Faults /\ disk' = [disk EXCEPT ![ctl.on] = Broken]
  /\ Go("restore")
  /\ UNCHANGED <<backup, row, live, life, rl>>

-----------------------------------------------------------------------------
(* Activation, persistence and the way back.                               *)

\* A new External for the package that is on disk now.
Register ==
  /\ At("register")
  /\ entry' = [entry EXCEPT ![ctl.on] = disk[ctl.on]]
  /\ Go(IF ShouldEnable THEN "enable" ELSE "persist")
  /\ UNCHANGED <<persistent, enabled, routed, revived, life, rl>>

\* After a failed start a catalog install writes the plugin down as disabled;
\* an archive install and Enable leave the row as it is.
Activate ==
  /\ At("enable")
  /\ \/ EnableSucceeds(ctl.on) /\ Go("persist")
     \/ /\ EnableFails(ctl.on)
        /\ IF ctl.op \in {"install", "update"} THEN Go("persistOff") ELSE Fail
  /\ UNCHANGED <<persistent, entry, revived, life, rl>>

\* Mutant: every operation writes the plugin down as enabled.
PersistOn ==
  /\ At("persist")
  /\ row' = [row EXCEPT ![ctl.on] = "on"]
  /\ Succeed
  /\ UNCHANGED <<disk, backup, live, life, rl>>

Persist ==
  /\ At("persist")
  /\ row' = [row EXCEPT ![ctl.on] = IF ShouldEnable THEN "on" ELSE "off"]
  /\ Succeed
  /\ UNCHANGED <<disk, backup, live, life, rl>>

\* The row cannot be written: a catalog install and Enable disable the plugin
\* again, Disable enables it again, the others leave it at that.
PersistFails ==
  /\ At("persist") /\ "persist" \in Faults
  /\ Go(CASE ctl.op \in {"install", "update", "enable"} /\ ShouldEnable
               -> "rollbackDisable"
          [] ctl.op = "disable" /\ ctl.ran -> "rollbackEnable"
          [] OTHER -> "failed")
  /\ UNCHANGED <<persistent, live, life, rl>>

PersistOff ==
  /\ At("persistOff")
  /\ \/ row' = [row EXCEPT ![ctl.on] = "off"]
     \/ "persist" \in Faults /\ UNCHANGED row
  /\ Fail
  /\ UNCHANGED <<disk, backup, live, life, rl>>

RollbackDisable ==
  /\ At("rollbackDisable")
  /\ DisableStops(ctl.on)
  /\ Fail
  /\ UNCHANGED <<persistent, entry, revived, life, rl>>

RollbackEnable ==
  /\ At("rollbackEnable")
  /\ EnableSucceeds(ctl.on) \/ EnableFails(ctl.on)
  /\ Fail
  /\ UNCHANGED <<persistent, entry, revived, life, rl>>

\* Mutant: the package is registered without having been read.
RestoreUnread ==
  /\ At("restore")
  /\ IF ctl.had
       THEN /\ entry' = [entry EXCEPT ![ctl.on] = disk[ctl.on]]
            /\ Go(IF ctl.ran THEN "rollbackEnable" ELSE "failed")
       ELSE /\ Fail
            /\ UNCHANGED entry
  /\ UNCHANGED <<persistent, enabled, routed, revived, life, rl>>

\* restore: register the package that is on disk again if there was an entry,
\* and go on to enable it if it was enabled.
Restore ==
  /\ At("restore")
  /\ IF ctl.had /\ disk[ctl.on] \in Versions
       THEN /\ entry' = [entry EXCEPT ![ctl.on] = disk[ctl.on]]
            /\ Go(IF ctl.ran THEN "rollbackEnable" ELSE "failed")
       ELSE /\ Fail
            /\ UNCHANGED entry
  /\ UNCHANGED <<persistent, enabled, routed, revived, life, rl>>

-----------------------------------------------------------------------------
(* The reload command of the core plugin.                                  *)

BeginReload ==
  /\ Reload /\ life = "up" /\ rl.pc = "idle"
  /\ \E n \in Plugins : enabled[n]
  /\ rl' = [pc |-> "next", todo |-> {n \in Plugins : enabled[n]}, on |-> "none"]
  /\ UNCHANGED <<persistent, live, life, ctl>>

\* The plugins are taken from the list made at the start.
ReloadNext(n) ==
  /\ life = "up" /\ rl.pc = "next"
  /\ n \in rl.todo
  /\ rl' = [rl EXCEPT !.pc = "disable", !.todo = @ \ {n}, !.on = n]
  /\ UNCHANGED <<persistent, live, life, ctl>>

ReloadEnds ==
  /\ life = "up" /\ rl.pc = "next" /\ rl.todo = {}
  /\ rl' = NoReload
  /\ UNCHANGED <<persistent, live, life, ctl>>

\* The plugin of an operation in progress is met by the reload.
Meet(n) == ctl' = [ctl EXCEPT !.met = @ \/ ctl.on = n]

\* A plugin that does not stop, or is gone, is not started again.
ReloadDisables ==
  /\ life = "up" /\ rl.pc = "disable"
  /\ IF entry[rl.on] = None
       THEN /\ rl' = [rl EXCEPT !.pc = "next"]
            /\ UNCHANGED <<enabled, routed>>
       ELSE /\ DisableStops(rl.on)
            /\ \/ rl' = [rl EXCEPT !.pc = "enable"]
               \/ StopMayFail(rl.on) /\ rl' = [rl EXCEPT !.pc = "next"]
  /\ Meet(rl.on)
  /\ UNCHANGED <<persistent, entry, revived, life>>

ReloadEnables ==
  /\ life = "up" /\ rl.pc = "enable"
  /\ EnableSucceeds(rl.on) \/ EnableFails(rl.on)
  /\ rl' = [rl EXCEPT !.pc = "next"]
  /\ revived' = IF ctl.pc = "delete" /\ ctl.on = rl.on THEN revived \cup {rl.on}
                                                     ELSE revived
  /\ Meet(rl.on)
  /\ UNCHANGED <<persistent, entry, life>>

-----------------------------------------------------------------------------
(* The host.                                                               *)

Crash ==
  /\ "crash" \in Faults /\ life = "up"
  /\ life' = "down"
  /\ entry' = [n \in Plugins |-> None]
  /\ enabled' = [n \in Plugins |-> FALSE]
  /\ routed' = [n \in Plugins |-> None]
  /\ ctl' = Idle /\ rl' = NoReload /\ revived' = {}
  /\ UNCHANGED persistent

\* LoadInstalled registers every package that can be read, and Run enables
\* those whose row says so; one that does not start is left disabled.
Boot ==
  /\ life = "down"
  /\ life' = "up"
  /\ entry' = [n \in Plugins |-> IF disk[n] \in Versions THEN disk[n] ELSE None]
  /\ LET wanted == {n \in Plugins : disk[n] \in Versions /\ row[n] = "on"} IN
       \E started \in SUBSET wanted :
         /\ "start" \in Faults \/ started = wanted
         /\ enabled' = [n \in Plugins |-> n \in started]
         /\ routed' = [n \in Plugins |-> IF n \in started THEN disk[n] ELSE None]
  /\ UNCHANGED <<persistent, revived, ctl, rl>>

MarketStep == FetchFails \/ MoveOld \/ MoveNew \/ MoveNewFails \/ DropBackup
                \/ Trash \/ TrashFails

ControllerStep ==
  \/ \E op \in Operations, n \in Plugins, v \in Versions \cup {None} : Begin(op, n, v)
  \/ Look \/ Stop \/ Delete \/ MarketStep
  \/ Register \/ Activate \/ Persist \/ PersistFails \/ PersistOff
  \/ RollbackDisable \/ RollbackEnable \/ Restore

ReloadStep ==
  \/ BeginReload \/ ReloadEnds \/ ReloadDisables \/ ReloadEnables
  \/ \E n \in Plugins : ReloadNext(n)

Next == ControllerStep \/ ReloadStep \/ Crash \/ Boot

Spec == Init /\ [][Next]_vars

-----------------------------------------------------------------------------
(* Properties.                                                             *)

Progress ==
  [pc : {"idle", "look", "stop", "delete", "market", "moveFirst", "moveNew",
         "dropBackup", "register", "enable", "persist", "persistOff",
         "rollbackDisable", "rollbackEnable", "restore", "ok", "failed"},
   op : Operations \cup {"none"}, on : Plugins \cup {"none"},
   version : {None} \cup Versions, had : BOOLEAN, ran : BOOLEAN, met : BOOLEAN]

TypeOK ==
  /\ disk \in [Plugins -> {None, Broken} \cup Versions]
  /\ backup \in [Plugins -> {None, Broken} \cup Versions]
  /\ row \in [Plugins -> {"none", "on", "off"}]
  /\ entry \in [Plugins -> {None} \cup Versions]
  /\ enabled \in [Plugins -> BOOLEAN]
  /\ routed \in [Plugins -> {None} \cup Versions]
  /\ life \in {"up", "down"}
  /\ ctl \in Progress
  /\ rl \in [pc : {"idle", "next", "disable", "enable"}, todo : SUBSET Plugins,
             on : Plugins \cup {"none"}]
  /\ revived \subseteq Plugins

\* A registered plugin's package is on disk, in the version registered, at every
\* moment and with every interleaving of a reload: the registry never starts a
\* process from a directory that has been moved away or replaced
\* (controller.go:155-168, manager.go:309-325).
EntryIsOnDisk == \A n \in Plugins : entry[n] # None => disk[n] = entry[n]

\* The router's commands and the registry agree: what can be called is enabled,
\* and is the registered version.  The one exception is a plugin that a reload
\* enables between the two halves of Registry.Remove, which gives the mutex up
\* in between and does not look again (registry.go:58-126).
RoutesMatchEntries ==
  \A n \in Plugins \ revived :
    /\ enabled[n] <=> routed[n] # None
    /\ routed[n] # None => routed[n] = entry[n]

\* An operation that reports success leaves directory, registry and row in
\* step for its plugin, whatever failed before, unless a reload met the plugin
\* in the meantime (controller.go:19-20).
InStep(n) ==
  /\ entry[n] = disk[n]
  /\ enabled[n] <=> row[n] = "on"
SuccessIsInStep == ctl.pc = "ok" /\ ~ctl.met => InStep(ctl.on)

\* Whatever fails or crashes, a package that was installed is only lost when the
\* owner removes it: some copy stays on disk (manager.go:308-330, 385-410).
NeverLost ==
  [][\A n \in Plugins :
       disk[n] # None \/ backup[n] # None =>
         disk'[n] # None \/ backup'[n] # None
           \/ (ctl.op = "remove" /\ ctl.on = n)]_vars

\* "Controller keeps the package manager, live registry, and persisted plugin
\* state synchronized" (controller.go:19-20): also after an operation that
\* failed, a plugin is enabled exactly if its row says so.
StaysSynchronized ==
  life = "up" /\ ctl.pc \in {"ok", "failed"} /\ rl.pc = "idle" =>
    \A n \in Plugins : enabled[n] <=> row[n] = "on"

-----------------------------------------------------------------------------
(* The inductive invariants behind EntryIsOnDisk and RoutesMatchEntries.   *)

\* An operation and a reload in progress are about a plugin, and die with the
\* host.
AboutPlugin ==
  /\ life = "down" => ctl.pc = "idle" /\ rl.pc = "idle"
  /\ ctl.pc # "idle" => ctl.on \in Plugins
  /\ rl.pc \in {"disable", "enable"} => rl.on \in Plugins

\* While the directory may change, the plugin has no registry entry, and what
\* Register finds there is a package.
EntryIsGone ==
  /\ ctl.pc \in {"market", "moveFirst", "moveNew", "dropBackup", "register",
                 "restore"} => entry[ctl.on] = None
  /\ ctl.pc \in {"dropBackup", "register"} => disk[ctl.on] \in {None} \cup Versions

DiskInv == TypeOK /\ AboutPlugin /\ EntryIsGone /\ EntryIsOnDisk

\* A plugin is stopped when its entry is about to be deleted, unless a reload
\* enables it again, and nothing enables one without an entry.
StoppedFirst ==
  /\ ctl.pc = "delete" => ~enabled[ctl.on] \/ ctl.on \in revived
  /\ \A n \in Plugins : enabled[n] => entry[n] # None

RoutesInv == DiskInv /\ StoppedFirst /\ RoutesMatchEntries
===============================================================================
