------------------------ MODULE PluginControllerProofs ------------------------
(***************************************************************************)
(* Proofs about PluginController, for any plugins, versions, operations    *)
(* and faults.                                                             *)
(***************************************************************************)
EXTENDS PluginController, TLAPS

\* Enabling and disabling change the flags and routes of one plugin only.
LEMMA FlagTypes ==
  ASSUME TypeOK, NEW n \in Plugins,
         EnableSucceeds(n) \/ EnableFails(n) \/ DisableStops(n)
  PROVE  /\ enabled' \in [Plugins -> BOOLEAN]
         /\ routed' \in [Plugins -> {None} \cup Versions]
<1>1. CASE EnableSucceeds(n)
  BY <1>1 DEF EnableSucceeds, TypeOK
<1>2. CASE EnableFails(n)
  BY <1>2 DEF EnableFails, TypeOK
<1>3. CASE DisableStops(n)
  BY <1>3 DEF DisableStops, TypeOK
<1> QED
  BY <1>1, <1>2, <1>3

\* Look notes what the registry says of the plugin and chooses the way on; it
\* goes straight to the market only if there is no entry.
LEMMA LookEffect ==
  ASSUME ctl \in Progress, Look
  PROVE  /\ ctl' \in Progress
         /\ ctl'.pc \in {"enable", "stop", "failed", "market"}
         /\ ctl'.on = ctl.on
         /\ ctl'.pc = "market" => entry[ctl.on] = None
<1> DEFINE Seen(had, ran, pc) == ctl' = [ctl EXCEPT !.had = had, !.ran = ran, !.pc = pc]
           had == entry[ctl.on] # None
           ran == had /\ enabled[ctl.on]
<1>1. had \in BOOLEAN /\ ran \in BOOLEAN
  OBVIOUS
<1>2. PICK pc \in {"enable", "stop", "failed", "market"} :
        Seen(had, ran, pc) /\ (pc = "market" => entry[ctl.on] = None)
  <2>1. CASE ctl.op = "enable"
    BY <2>1 DEF Look
  <2>2. CASE ctl.op = "disable" /\ entry[ctl.on] # None
    BY <2>2 DEF Look
  <2>3. CASE ctl.op = "disable" /\ entry[ctl.on] = None
    BY <2>3 DEF Look
  <2>4. CASE ctl.op # "enable" /\ ctl.op # "disable" /\ entry[ctl.on] # None
    BY <2>4 DEF Look
  <2>5. CASE ctl.op # "enable" /\ ctl.op # "disable" /\ entry[ctl.on] = None
    BY <2>5 DEF Look
  <2> QED
    BY <2>1, <2>2, <2>3, <2>4, <2>5
<1>3. PICK h \in BOOLEAN, r \in BOOLEAN : Seen(h, r, pc)
  BY <1>1, <1>2
<1>4. ctl' \in Progress
  BY <1>3 DEF Progress
<1>5. ctl'.pc = pc /\ ctl'.on = ctl.on
  BY <1>3 DEF Progress
<1> QED
  BY <1>2, <1>4, <1>5

\* The steps that change neither a directory nor an entry keep the invariant if
\* the operation goes on to a step at which the directory is left alone.
LEMMA DiskStep == DiskInv /\ [Next]_vars => DiskInv'
<1> SUFFICES ASSUME DiskInv, [Next]_vars PROVE DiskInv'
  OBVIOUS
<1> USE ControllerAssumption
<1> USE DEF DiskInv, TypeOK, Progress, AboutPlugin, EntryIsGone, EntryIsOnDisk, persistent,
            live, At, Go, Fail, Succeed, Idle, NoReload
<1>1. ASSUME NEW op \in Operations, NEW n \in Plugins,
             NEW v \in Versions \cup {None}, Begin(op, n, v)
      PROVE  DiskInv'
  <2>1. /\ life = "up"
        /\ UNCHANGED <<disk, backup, row, entry, enabled, routed, revived, life, rl>>
        /\ ctl' = [pc |-> "look", op |-> op, on |-> n, version |-> v, had |-> FALSE,
                   ran |-> FALSE, met |-> FALSE]
    BY <1>1 DEF Begin
  <2>2. ctl' \in Progress /\ ctl'.pc = "look" /\ ctl'.on = n
    BY <1>1, <2>1
  <2> QED
    BY <1>1, <2>1, <2>2
<1>2. CASE Look
  <2>1. /\ ctl.pc = "look" /\ life = "up"
        /\ UNCHANGED <<disk, backup, row, entry, enabled, routed, revived, life, rl>>
    BY <1>2 DEF Look
  <2> QED
    BY <1>2, <2>1, LookEffect
<1>3. CASE Stop
  BY <1>3 DEF Stop, DisableStops
<1>4. CASE Delete
  BY <1>4 DEF Delete
<1>5. CASE MarketStep
  <2>1. CASE FetchFails
    BY <2>1 DEF FetchFails
  <2>2. CASE MoveOld
    BY <2>2 DEF MoveOld
  <2>3. CASE MoveNew
    BY <2>3 DEF MoveNew
  <2>4. CASE MoveNewFails
    BY <2>4 DEF MoveNewFails
  <2>5. CASE DropBackup
    BY <2>5 DEF DropBackup
  <2>6. CASE Trash
    BY <2>6 DEF Trash
  <2>7. CASE TrashFails
    BY <2>7 DEF TrashFails
  <2> QED
    BY <1>5, <2>1, <2>2, <2>3, <2>4, <2>5, <2>6, <2>7 DEF MarketStep
<1>6. CASE Register
  BY <1>6 DEF Register
<1>7. CASE Activate
  <2>1. EnableSucceeds(ctl.on) \/ EnableFails(ctl.on)
    BY <1>7 DEF Activate
  <2>2. /\ enabled' \in [Plugins -> BOOLEAN]
        /\ routed' \in [Plugins -> {None} \cup Versions]
    BY <1>7, <2>1, FlagTypes DEF Activate
  <2>3. /\ ctl.pc = "enable"
        /\ \E pc \in {"persist", "persistOff", "failed"} : ctl' = [ctl EXCEPT !.pc = pc]
        /\ UNCHANGED <<disk, backup, row, entry, revived, life, rl>>
    BY <1>7 DEF Activate
  <2> QED
    BY <2>2, <2>3
<1>8. CASE Persist \/ PersistFails \/ PersistOff
  BY <1>8 DEF Persist, PersistFails, PersistOff
<1>9. CASE RollbackDisable \/ RollbackEnable
  <2>1. /\ ctl.pc \in {"rollbackDisable", "rollbackEnable"}
        /\ ctl' = [ctl EXCEPT !.pc = "failed"]
        /\ UNCHANGED <<disk, backup, row, entry, revived, life, rl>>
    BY <1>9 DEF RollbackDisable, RollbackEnable
  <2>2. EnableSucceeds(ctl.on) \/ EnableFails(ctl.on) \/ DisableStops(ctl.on)
    BY <1>9 DEF RollbackDisable, RollbackEnable
  <2>3. /\ enabled' \in [Plugins -> BOOLEAN]
        /\ routed' \in [Plugins -> {None} \cup Versions]
    BY <2>1, <2>2, FlagTypes
  <2> QED
    BY <2>1, <2>3
<1>10. CASE Restore
  <2>1. CASE ctl.had /\ disk[ctl.on] \in Versions
    <3>1. /\ ctl.pc = "restore"
          /\ entry' = [entry EXCEPT ![ctl.on] = disk[ctl.on]]
          /\ \E pc \in {"rollbackEnable", "failed"} : ctl' = [ctl EXCEPT !.pc = pc]
          /\ UNCHANGED <<disk, backup, row, enabled, routed, revived, life, rl>>
      BY <1>10, <2>1 DEF Restore
    <3> QED
      BY <2>1, <3>1
  <2>2. CASE ~(ctl.had /\ disk[ctl.on] \in Versions)
    BY <1>10, <2>2 DEF Restore
  <2> QED
    BY <2>1, <2>2
<1>11. CASE ReloadStep
  <2>1. CASE BeginReload
    BY <2>1 DEF BeginReload
  <2>2. CASE ReloadEnds
    BY <2>2 DEF ReloadEnds
  <2>3. CASE ReloadDisables
    <3>1. /\ rl.pc = "disable" /\ life = "up"
          /\ \E pc \in {"next", "enable"} : rl' = [rl EXCEPT !.pc = pc]
          /\ UNCHANGED <<disk, backup, row, entry, revived, life>>
          /\ \E met \in BOOLEAN : ctl' = [ctl EXCEPT !.met = met]
          /\ UNCHANGED <<enabled, routed>> \/ DisableStops(rl.on)
      BY <2>3 DEF ReloadDisables, Meet
    <3>2. /\ enabled' \in [Plugins -> BOOLEAN]
          /\ routed' \in [Plugins -> {None} \cup Versions]
      BY <3>1, FlagTypes
    <3> QED
      BY <3>1, <3>2
  <2>4. CASE ReloadEnables
    <3>1. /\ rl.pc = "enable"
          /\ rl' = [rl EXCEPT !.pc = "next"]
          /\ life = "up" /\ UNCHANGED <<disk, backup, row, entry, life>>
          /\ \E met \in BOOLEAN : ctl' = [ctl EXCEPT !.met = met]
          /\ revived' \in {revived, revived \cup {rl.on}}
          /\ EnableSucceeds(rl.on) \/ EnableFails(rl.on)
      BY <2>4 DEF ReloadEnables, Meet
    <3>2. /\ enabled' \in [Plugins -> BOOLEAN]
          /\ routed' \in [Plugins -> {None} \cup Versions]
      BY <3>1, FlagTypes
    <3> QED
      BY <3>1, <3>2
  <2>5. ASSUME NEW n \in Plugins, ReloadNext(n) PROVE DiskInv'
    <3>1. rl.todo \ {n} \in SUBSET Plugins
      OBVIOUS
    <3>2. rl' \in [pc : {"idle", "next", "disable", "enable"}, todo : SUBSET Plugins,
                   on : Plugins \cup {"none"}]
      BY <2>5, <3>1 DEF ReloadNext
    <3>3. /\ rl'.on = n /\ life = "up"
          /\ UNCHANGED <<disk, backup, row, entry, enabled, routed, revived, life, ctl>>
      BY <2>5 DEF ReloadNext
    <3> QED
      BY <3>2, <3>3
  <2> QED
    BY <1>11, <2>1, <2>2, <2>3, <2>4, <2>5 DEF ReloadStep
<1>12. CASE Crash
  BY <1>12 DEF Crash
<1>13. CASE Boot
  <2>1. /\ entry' = [n \in Plugins |-> IF disk[n] \in Versions THEN disk[n] ELSE None]
        /\ life' = "up"
        /\ UNCHANGED <<disk, backup, row, revived, ctl, rl>>
    BY <1>13 DEF Boot
  <2>6. ctl.pc = "idle" /\ rl.pc = "idle"
    BY <1>13 DEF Boot
  <2>2. PICK started \in SUBSET {n \in Plugins : disk[n] \in Versions /\ row[n] = "on"} :
          /\ enabled' = [n \in Plugins |-> n \in started]
          /\ routed' = [n \in Plugins |-> IF n \in started THEN disk[n] ELSE None]
    BY <1>13 DEF Boot
  <2>3. /\ entry' \in [Plugins -> {None} \cup Versions]
        /\ enabled' \in [Plugins -> BOOLEAN]
        /\ routed' \in [Plugins -> {None} \cup Versions]
    BY <2>1, <2>2
  <2>4. \A n \in Plugins : entry'[n] = disk[n] \/ entry'[n] = None
    BY <2>1
  <2> QED
    BY <2>1, <2>3, <2>4, <2>6
<1>14. CASE UNCHANGED vars
  BY <1>14 DEF vars
<1> QED
  BY <1>1, <1>2, <1>3, <1>4, <1>5, <1>6, <1>7, <1>8, <1>9, <1>10, <1>11, <1>12,
     <1>13, <1>14 DEF Next, ControllerStep

\* The invariant holds in every reachable state, whatever fails and however the
\* reload command interleaves with the Controller's operations.
THEOREM DiskInvariance == Spec => []DiskInv
<1>1. Init => DiskInv
  BY DEF Init, Idle, NoReload, DiskInv, TypeOK, Progress, AboutPlugin, EntryIsGone,
         EntryIsOnDisk
<1> QED
  BY <1>1, DiskStep, PTL DEF Spec

\* PluginController keeps its types.
THEOREM TypeCorrect == Spec => []TypeOK
<1>1. DiskInv => TypeOK
  BY DEF DiskInv
<1> QED
  BY <1>1, DiskInvariance, PTL

\* A registered plugin's package is on disk, in the registered version, for any
\* number of plugins and versions and with the reload command in use.
THEOREM EntryStaysOnDisk == Spec => []EntryIsOnDisk
<1>1. DiskInv => EntryIsOnDisk
  BY DEF DiskInv
<1> QED
  BY <1>1, DiskInvariance, PTL

-----------------------------------------------------------------------------
(* Routes and entries.                                                     *)

\* What a registry operation on an entry does to the flags and routes.
LEMMA FlagEffect ==
  ASSUME RoutesInv, NEW n \in Plugins,
         EnableSucceeds(n) \/ EnableFails(n) \/ DisableStops(n)
  PROVE  /\ \A m \in Plugins : enabled'[m] => entry[m] # None
         /\ \A m \in Plugins \ revived :
              /\ enabled'[m] <=> routed'[m] # None
              /\ routed'[m] # None => routed'[m] = entry[m]
         /\ \A m \in Plugins : m # n => enabled'[m] = enabled[m]
<1> USE DEF RoutesInv, DiskInv, TypeOK, StoppedFirst, RoutesMatchEntries
<1>1. CASE EnableSucceeds(n)
  BY <1>1 DEF EnableSucceeds, CanEnable
<1>2. CASE EnableFails(n)
  BY <1>2 DEF EnableFails
<1>3. CASE DisableStops(n)
  BY <1>3 DEF DisableStops
<1> QED
  BY <1>1, <1>2, <1>3

\* A step of an operation that touches neither entries, flags nor routes, and
\* does not go on to delete an entry.
LEMMA Frame ==
  ASSUME RoutesInv, UNCHANGED <<entry, enabled, routed, revived>>,
         ctl'.pc # "delete" \/ UNCHANGED ctl
  PROVE  StoppedFirst' /\ RoutesMatchEntries'
BY DEF RoutesInv, StoppedFirst, RoutesMatchEntries

LEMMA RoutesStep == RoutesInv /\ [Next]_vars => RoutesInv'
<1> SUFFICES ASSUME RoutesInv, [Next]_vars PROVE StoppedFirst' /\ RoutesMatchEntries'
  BY DiskStep DEF RoutesInv
<1> USE DEF At, Go, Fail, Succeed, live
<1>0. /\ DiskInv /\ TypeOK
      /\ ctl.pc # "idle" => ctl.on \in Plugins
      /\ rl.pc \in {"disable", "enable"} => rl.on \in Plugins
  BY DEF RoutesInv, DiskInv, AboutPlugin
<1>1. ASSUME NEW op \in Operations, NEW n \in Plugins,
             NEW v \in Versions \cup {None}, Begin(op, n, v)
      PROVE  StoppedFirst' /\ RoutesMatchEntries'
  <2>1. ctl'.pc = "look"
    BY <1>1 DEF Begin, Idle
  <2> QED
    BY <1>1, <2>1, Frame DEF Begin
<1>2. CASE Look
  <2>1. ctl'.pc # "delete"
    BY <1>0, <1>2 DEF Look, TypeOK, Progress
  <2> QED
    BY <1>2, <2>1, Frame DEF Look
<1>3. CASE Stop
  <2>1. /\ ctl.pc = "stop" /\ DisableStops(ctl.on)
        /\ UNCHANGED <<entry, revived>>
        /\ \E pc \in {"persist", "delete", "failed"} : ctl' = [ctl EXCEPT !.pc = pc]
    BY <1>3 DEF Stop
  <2>2. ctl'.on = ctl.on
    BY <1>0, <2>1 DEF TypeOK, Progress
  <2>3. ~enabled'[ctl.on]
    BY <1>0, <2>1 DEF DisableStops, TypeOK
  <2>4. StoppedFirst'
    BY <1>0, <2>1, <2>2, <2>3, FlagEffect DEF StoppedFirst
  <2> QED
    BY <1>0, <2>1, <2>4, FlagEffect DEF RoutesMatchEntries
<1>4. CASE Delete
  <2>1. /\ ctl.pc = "delete"
        /\ entry' = [entry EXCEPT ![ctl.on] = None]
        /\ enabled' = [enabled EXCEPT ![ctl.on] = FALSE]
        /\ ctl' = [ctl EXCEPT !.pc = "market"]
        /\ UNCHANGED <<routed, revived>>
    BY <1>4 DEF Delete
  <2>2. ctl'.pc = "market"
    BY <1>0, <2>1 DEF TypeOK, Progress
  <2>3. ctl.on \notin revived => ~enabled[ctl.on] /\ routed[ctl.on] = None
    BY <1>0, <2>1 DEF RoutesInv, StoppedFirst, RoutesMatchEntries
  <2>4. \A n \in Plugins : n # ctl.on => entry'[n] = entry[n] /\ enabled'[n] = enabled[n]
    BY <1>0, <2>1 DEF TypeOK, Progress
  <2>5. entry'[ctl.on] = None /\ enabled'[ctl.on] = FALSE
    BY <1>0, <2>1 DEF TypeOK, Progress
  <2> QED
    BY <1>0, <2>1, <2>2, <2>3, <2>4, <2>5
    DEF RoutesInv, StoppedFirst, RoutesMatchEntries
<1>5. CASE MarketStep
  <2>1. UNCHANGED <<entry, enabled, routed, revived>>
    BY <1>5 DEF MarketStep, FetchFails, MoveOld, MoveNew, MoveNewFails, DropBackup,
                Trash, TrashFails
  <2>2. \E pc \in {"restore", "moveFirst", "moveNew", "dropBackup", "register", "persist"} :
          ctl' = [ctl EXCEPT !.pc = pc]
    BY <1>5 DEF MarketStep, FetchFails, MoveOld, MoveNew, MoveNewFails, DropBackup,
                Trash, TrashFails
  <2>3. ctl'.pc # "delete"
    BY <1>0, <2>2 DEF TypeOK, Progress
  <2> QED
    BY <2>1, <2>3, Frame
<1>6. CASE Register \/ Restore
  <2>1. /\ ctl.pc \in {"register", "restore"}
        /\ UNCHANGED <<enabled, routed, revived>>
        /\ \/ entry' = [entry EXCEPT ![ctl.on] = disk[ctl.on]]
           \/ UNCHANGED entry
        /\ \E pc \in {"enable", "persist", "rollbackEnable", "failed"} :
             ctl' = [ctl EXCEPT !.pc = pc]
    BY <1>6 DEF Register, Restore
  <2>2. ctl'.pc # "delete"
    BY <1>0, <2>1 DEF TypeOK, Progress
  <2>3. entry[ctl.on] = None
    BY <1>0, <2>1 DEF DiskInv, EntryIsGone
  <2>4. \A n \in Plugins : n # ctl.on => entry'[n] = entry[n]
    BY <1>0, <2>1 DEF TypeOK, Progress
  <2>5. /\ ~enabled[ctl.on]
        /\ ctl.on \notin revived => routed[ctl.on] = None
    BY <1>0, <2>1, <2>3 DEF RoutesInv, StoppedFirst, RoutesMatchEntries
  <2> QED
    BY <1>0, <2>1, <2>2, <2>4, <2>5 DEF RoutesInv, StoppedFirst, RoutesMatchEntries
<1>7. CASE Activate \/ RollbackDisable \/ RollbackEnable
  <2>1. /\ ctl.pc \in {"enable", "rollbackDisable", "rollbackEnable"}
        /\ UNCHANGED <<entry, revived>>
        /\ EnableSucceeds(ctl.on) \/ EnableFails(ctl.on) \/ DisableStops(ctl.on)
        /\ \E pc \in {"persist", "persistOff", "failed"} : ctl' = [ctl EXCEPT !.pc = pc]
    BY <1>7 DEF Activate, RollbackDisable, RollbackEnable
  <2>2. ctl'.pc # "delete"
    BY <1>0, <2>1 DEF TypeOK, Progress
  <2> QED
    BY <1>0, <2>1, <2>2, FlagEffect DEF StoppedFirst, RoutesMatchEntries
<1>8. CASE Persist \/ PersistFails \/ PersistOff
  <2>1. /\ UNCHANGED <<entry, enabled, routed, revived>>
        /\ \E pc \in {"ok", "failed", "rollbackDisable", "rollbackEnable"} :
             ctl' = [ctl EXCEPT !.pc = pc]
    BY <1>8 DEF Persist, PersistFails, PersistOff
  <2>2. ctl'.pc # "delete"
    BY <1>0, <2>1 DEF TypeOK, Progress
  <2> QED
    BY <2>1, <2>2, Frame
<1>9. CASE ReloadStep
  <2>1. CASE BeginReload \/ ReloadEnds \/ \E n \in Plugins : ReloadNext(n)
    BY <2>1, Frame DEF BeginReload, ReloadEnds, ReloadNext
  <2>2. CASE ReloadDisables
    <3>1. /\ rl.pc = "disable"
          /\ UNCHANGED <<entry, revived>>
          /\ \E met \in BOOLEAN : ctl' = [ctl EXCEPT !.met = met]
          /\ UNCHANGED <<enabled, routed>> \/ DisableStops(rl.on)
      BY <2>2 DEF ReloadDisables, Meet
    <3>2. ctl'.pc = ctl.pc /\ ctl'.on = ctl.on
      BY <1>0, <3>1 DEF TypeOK, Progress
    <3>3. CASE UNCHANGED <<enabled, routed>>
      BY <3>1, <3>2, <3>3 DEF RoutesInv, StoppedFirst, RoutesMatchEntries
    <3>4. CASE DisableStops(rl.on)
      <4>1. \A m \in Plugins : enabled'[m] => enabled[m]
        BY <1>0, <3>1, <3>4 DEF DisableStops, TypeOK
      <4> QED
        BY <1>0, <3>1, <3>2, <3>4, <4>1, FlagEffect
        DEF RoutesInv, StoppedFirst, RoutesMatchEntries
    <3> QED
      BY <3>1, <3>3, <3>4
  <2>3. CASE ReloadEnables
    <3>1. /\ rl.pc = "enable"
          /\ UNCHANGED entry
          /\ \E met \in BOOLEAN : ctl' = [ctl EXCEPT !.met = met]
          /\ EnableSucceeds(rl.on) \/ EnableFails(rl.on)
          /\ revived \subseteq revived'
          /\ ctl.pc = "delete" /\ ctl.on = rl.on => ctl.on \in revived'
      BY <2>3 DEF ReloadEnables, Meet
    <3>2. ctl'.pc = ctl.pc /\ ctl'.on = ctl.on
      BY <1>0, <3>1 DEF TypeOK, Progress
    <3>3. RoutesMatchEntries'
      BY <1>0, <3>1, FlagEffect DEF RoutesMatchEntries
    <3>4. ctl.pc = "delete" => ~enabled'[ctl.on] \/ ctl.on \in revived'
      BY <1>0, <3>1, FlagEffect DEF RoutesInv, StoppedFirst
    <3> QED
      BY <1>0, <3>1, <3>2, <3>3, <3>4, FlagEffect DEF StoppedFirst
  <2> QED
    BY <1>9, <2>1, <2>2, <2>3 DEF ReloadStep
<1>10. CASE Crash
  BY <1>10 DEF Crash, Idle, NoReload, StoppedFirst, RoutesMatchEntries
<1>11. CASE Boot
  <2>1. /\ entry' = [n \in Plugins |-> IF disk[n] \in Versions THEN disk[n] ELSE None]
        /\ ctl.pc = "idle" /\ UNCHANGED <<ctl, revived>>
    BY <1>0, <1>11 DEF Boot, DiskInv, AboutPlugin
  <2>2. PICK started \in SUBSET {n \in Plugins : disk[n] \in Versions /\ row[n] = "on"} :
          /\ enabled' = [n \in Plugins |-> n \in started]
          /\ routed' = [n \in Plugins |-> IF n \in started THEN disk[n] ELSE None]
    BY <1>11 DEF Boot
  <2>3. \A v \in Versions : v # None
    BY ControllerAssumption DEF Versions, None
  <2>4. \A n \in Plugins :
          /\ n \in started => disk[n] \in Versions
          /\ enabled'[n] = (n \in started)
          /\ n \in started => routed'[n] = disk[n] /\ entry'[n] = disk[n]
          /\ n \notin started => routed'[n] = None
    BY <2>1, <2>2
  <2>5. RoutesMatchEntries'
    BY <2>3, <2>4 DEF RoutesMatchEntries
  <2> QED
    BY <2>1, <2>3, <2>4, <2>5 DEF StoppedFirst
<1>12. CASE UNCHANGED vars
  BY <1>12 DEF vars, RoutesInv, StoppedFirst, RoutesMatchEntries
<1> QED
  BY <1>1, <1>2, <1>3, <1>4, <1>5, <1>6, <1>7, <1>8, <1>9, <1>10, <1>11, <1>12
  DEF Next, ControllerStep

LEMMA RoutesInit == Init => RoutesInv
BY DEF Init, Idle, NoReload, RoutesInv, DiskInv, TypeOK, Progress, AboutPlugin, EntryIsGone,
       EntryIsOnDisk, StoppedFirst, RoutesMatchEntries

\* What can be called is enabled and is the registered version, for any plugins
\* and any failures or crashes, and with the reload command in use; the plugins
\* it enables in the middle of a Remove are the only exception.
THEOREM RoutesAgree == Spec => []RoutesMatchEntries
<1>1. RoutesInv => RoutesMatchEntries
  BY DEF RoutesInv
<1> QED
  BY <1>1, RoutesInit, RoutesStep, PTL DEF Spec

-----------------------------------------------------------------------------
(* What an operation has made sure of at each of its steps.                *)

\* A package is in place once it has been moved there, and none is before; the
\* version that is installed is one.
KeepInv ==
  /\ ctl.pc # "idle" /\ Installs => ctl.version \in Versions
  /\ ctl.pc \in {"moveFirst", "moveNew", "dropBackup"} => Installs
  /\ ctl.pc \in {"moveFirst", "moveNew"} => disk[ctl.on] = None
  /\ ctl.pc = "dropBackup" => disk[ctl.on] \in Versions

\* What is about to be written down is so, unless a reload met the plugin.
SyncInv ==
  /\ ctl.pc = "enable" => ShouldEnable
  /\ ctl.pc = "persist" /\ ~ctl.met =>
       entry[ctl.on] = disk[ctl.on] /\ (enabled[ctl.on] <=> ShouldEnable)
  /\ SuccessIsInStep

\* An operation goes on to another step and remains what it is.
Proceeds(pc) ==
  /\ ctl'.pc = pc
  /\ ctl'.op = ctl.op /\ ctl'.on = ctl.on /\ ctl'.version = ctl.version
  /\ ctl'.had = ctl.had /\ ctl'.ran = ctl.ran /\ ctl'.met = ctl.met

LEMMA Proceeding ==
  ASSUME TypeOK, NEW pc, ctl' = [ctl EXCEPT !.pc = pc] PROVE Proceeds(pc)
BY DEF TypeOK, Progress, Proceeds

LEMMA MarketProceeds ==
  ASSUME TypeOK, MarketStep
  PROVE  /\ ctl.pc \in {"market", "moveFirst", "moveNew", "dropBackup"}
         /\ UNCHANGED <<row, entry, enabled, routed, rl>>
         /\ \E pc \in {"restore", "moveFirst", "moveNew", "dropBackup", "register", "persist"} :
              Proceeds(pc) /\ (pc = "persist" => Trash)
<1>1. CASE Trash BY <1>1, Proceeding DEF Trash, At, Go, live
<1>2. CASE MoveOld BY <1>2, Proceeding DEF MoveOld, At, Go, live
<1>3. CASE MoveNew BY <1>3, Proceeding DEF MoveNew, At, Go, live
<1>4. CASE DropBackup BY <1>4, Proceeding DEF DropBackup, At, Go, live
<1>5. CASE FetchFails \/ MoveNewFails \/ TrashFails
  BY <1>5, Proceeding DEF FetchFails, MoveNewFails, TrashFails, At, Go, live, persistent
<1> QED BY <1>1, <1>2, <1>3, <1>4, <1>5 DEF MarketStep

LEMMA LookProceeds ==
  ASSUME TypeOK, Look
  PROVE  /\ ctl'.pc \in {"enable", "stop", "failed", "market"}
         /\ ctl'.pc = "enable" => ctl.op = "enable"
         /\ ctl'.op = ctl.op /\ ctl'.on = ctl.on /\ ctl'.version = ctl.version
         /\ UNCHANGED <<disk, backup, row, entry, enabled>>
<1> DEFINE had == entry[ctl.on] # None
           ran == had /\ enabled[ctl.on]
<1>1. PICK pc \in {"enable", "stop", "failed", "market"} :
        /\ ctl' = [ctl EXCEPT !.had = had, !.ran = ran, !.pc = pc]
        /\ pc = "enable" => ctl.op = "enable"
  <2>1. CASE ctl.op = "enable" BY <2>1 DEF Look
  <2>2. CASE ctl.op = "disable" BY <2>2 DEF Look
  <2>3. CASE ctl.op # "enable" /\ ctl.op # "disable" BY <2>3 DEF Look
  <2> QED BY <2>1, <2>2, <2>3
<1> HIDE DEF had, ran
<1> QED BY <1>1 DEF TypeOK, Progress, Look, persistent, live

\* The steps of a reload are about the plugin it has come to.
LEMMA ReloadEffect ==
  ASSUME RoutesInv, ReloadStep
  PROVE  /\ UNCHANGED <<disk, backup, row, entry>>
         /\ ctl'.pc = ctl.pc /\ ctl'.op = ctl.op /\ ctl'.on = ctl.on
         /\ ctl'.version = ctl.version /\ ctl'.had = ctl.had /\ ctl'.ran = ctl.ran
         /\ \A n \in Plugins : enabled'[n] = enabled[n] \/ ctl'.met \/ n # ctl.on
         /\ ctl.met => ctl'.met
<1> USE DEF persistent, live
<1>1. TypeOK /\ (rl.pc \in {"disable", "enable"} => rl.on \in Plugins)
  BY DEF RoutesInv, DiskInv, AboutPlugin
<1>2. CASE BeginReload \/ ReloadEnds \/ \E n \in Plugins : ReloadNext(n)
  BY <1>2 DEF BeginReload, ReloadEnds, ReloadNext
<1>3. CASE ReloadDisables \/ ReloadEnables
  <2>1. /\ UNCHANGED <<disk, backup, row, entry>> /\ Meet(rl.on) /\ rl.on \in Plugins
        /\ \A m \in Plugins : m # rl.on => enabled'[m] = enabled[m]
    BY <1>1, <1>3, FlagEffect DEF ReloadDisables, ReloadEnables
  <2>2. /\ ctl'.pc = ctl.pc /\ ctl'.op = ctl.op /\ ctl'.on = ctl.on
        /\ ctl'.version = ctl.version /\ ctl'.had = ctl.had /\ ctl'.ran = ctl.ran
        /\ ctl'.met = (ctl.met \/ ctl.on = rl.on)
    BY <1>1, <2>1 DEF Meet, TypeOK, Progress
  <2> QED BY <2>1, <2>2
<1> QED BY <1>2, <1>3 DEF ReloadStep

\* The other steps of an operation.
Rest == Register \/ Activate \/ Persist \/ PersistFails \/ PersistOff
          \/ RollbackDisable \/ RollbackEnable \/ Restore

LEMMA RestProceeds ==
  ASSUME TypeOK, Rest
  PROVE  /\ UNCHANGED <<disk, backup>>
         /\ \E pc \in {"enable", "persist", "persistOff", "ok", "failed", "rollbackDisable",
                       "rollbackEnable"} :
              /\ Proceeds(pc)
              /\ pc = "enable" => Register /\ ShouldEnable
              /\ pc = "persist" => Activate \/ (Register /\ ~ShouldEnable)
              /\ pc = "ok" => Persist
<1> USE DEF Go, Fail, Succeed, persistent
<1>1. CASE Register BY <1>1, Proceeding DEF Register
<1>2. CASE Activate BY <1>2, Proceeding DEF Activate
<1>3. CASE Persist BY <1>3, Proceeding DEF Persist
<1>4. CASE PersistFails \/ PersistOff BY <1>4, Proceeding DEF PersistFails, PersistOff
<1>5. CASE RollbackDisable \/ RollbackEnable BY <1>5, Proceeding DEF RollbackDisable, RollbackEnable
<1>6. CASE Restore BY <1>6, Proceeding DEF Restore
<1> QED BY <1>1, <1>2, <1>3, <1>4, <1>5, <1>6 DEF Rest

LEMMA KeepStep == ASSUME RoutesInv, KeepInv, [Next]_vars PROVE KeepInv'
<1>1. TypeOK /\ (ctl.pc # "idle" => ctl.on \in Plugins)
  BY DEF RoutesInv, DiskInv, AboutPlugin
<1>2. ASSUME NEW op \in Operations, NEW n \in Plugins,
             NEW v \in Versions \cup {None}, Begin(op, n, v)
      PROVE  KeepInv'
  <2>1. ctl'.pc = "look" /\ ctl'.op = op /\ ctl'.version = v
    BY <1>2 DEF Begin, Idle
  <2>2. op \in {"install", "archive", "update"} => v \in Versions
    BY <1>2 DEF Begin
  <2> QED BY <2>1, <2>2 DEF KeepInv, Installs
<1>3. CASE Look
  BY <1>1, <1>3, LookProceeds DEF KeepInv, Installs, Look, At
<1>4. CASE Stop
  <2>1. ctl.pc = "stop" /\ \E pc \in {"persist", "delete", "failed"} : Proceeds(pc)
    BY <1>1, <1>4, Proceeding DEF Stop, At, Go, Fail
  <2> QED BY <2>1 DEF Proceeds, KeepInv, Installs
<1>5. CASE Delete
  <2>1. ctl.pc = "delete" /\ Proceeds("market")
    BY <1>1, <1>5, Proceeding DEF Delete, At, Go
  <2> QED BY <2>1 DEF Proceeds, KeepInv, Installs
<1>6. CASE MoveOld
  <2>1. /\ \E pc \in {"moveFirst", "moveNew"} : Proceeds(pc)
        /\ ctl.pc = "market" /\ Installs /\ disk'[ctl.on] = None
    BY <1>1, <1>6, Proceeding DEF MoveOld, At, Go, TypeOK
  <2> QED BY <2>1 DEF Proceeds, KeepInv, Installs
<1>7. CASE MoveNew
  <2>1. /\ \E pc \in {"dropBackup", "register"} : Proceeds(pc)
        /\ ctl.pc \in {"moveFirst", "moveNew"} /\ disk'[ctl.on] = ctl.version
    BY <1>1, <1>7, Proceeding DEF MoveNew, At, Go, TypeOK
  <2> QED BY <2>1 DEF Proceeds, KeepInv, Installs
<1>8. CASE FetchFails \/ MoveNewFails \/ DropBackup \/ Trash \/ TrashFails
  <2>1. /\ \E pc \in {"restore", "register", "persist"} : Proceeds(pc)
        /\ ctl.pc \in {"market", "moveFirst", "moveNew", "dropBackup"}
    BY <1>1, <1>8, Proceeding DEF FetchFails, MoveNewFails, DropBackup, Trash, TrashFails, At, Go
  <2> QED BY <2>1 DEF Proceeds, KeepInv, Installs
<1>9. CASE Rest
  <2>1. ctl.pc # "idle"
    BY <1>9 DEF Rest, Register, Activate, Persist, PersistFails, PersistOff, RollbackDisable,
                RollbackEnable, Restore, At
  <2> QED BY <1>1, <1>9, <2>1, RestProceeds DEF Proceeds, KeepInv, Installs
<1>10. CASE ReloadStep
  BY <1>10, ReloadEffect DEF KeepInv, Installs
<1>11. CASE Crash
  BY <1>11 DEF Crash, Idle, KeepInv
<1>12. CASE Boot \/ UNCHANGED vars
  BY <1>12 DEF Boot, vars, persistent, KeepInv, Installs
<1> QED
  BY <1>2, <1>3, <1>4, <1>5, <1>6, <1>7, <1>8, <1>9, <1>10, <1>11, <1>12
     DEF Next, ControllerStep, MarketStep, Rest

\* Steps that are not about to write and do not end well.
LEMMA SyncFrame ==
  ASSUME ctl'.pc \notin {"enable", "persist", "ok"} PROVE SyncInv'
BY DEF SyncInv, SuccessIsInStep

LEMMA SyncStep == ASSUME RoutesInv, SyncInv, [Next]_vars PROVE SyncInv'
<1>1. /\ TypeOK /\ (ctl.pc # "idle" => ctl.on \in Plugins)
      /\ \A n \in Plugins : entry[n] # None => disk[n] = entry[n]
      /\ \A n \in Plugins : enabled[n] => entry[n] # None
      /\ ctl.pc \in {"market", "moveFirst", "moveNew", "dropBackup", "register", "restore"}
           => entry[ctl.on] = None
  BY DEF RoutesInv, DiskInv, AboutPlugin, EntryIsOnDisk, EntryIsGone, StoppedFirst
<1> USE DEF At, Go, Fail, Succeed
<1>2. ASSUME NEW op \in Operations, NEW n \in Plugins,
             NEW v \in Versions \cup {None}, Begin(op, n, v)
      PROVE  SyncInv'
  BY <1>2, SyncFrame DEF Begin, Idle
<1>3. CASE Look
  <2>1. ctl'.pc = "enable" => ShouldEnable' BY <1>1, <1>3, LookProceeds DEF ShouldEnable
  <2> QED BY <1>1, <1>3, <2>1, LookProceeds DEF SyncInv, SuccessIsInStep
<1>4. CASE Stop
  <2>1. /\ ctl.pc = "stop" /\ UNCHANGED <<disk, entry>> /\ DisableStops(ctl.on)
        /\ \E pc \in {"persist", "delete", "failed"} :
             Proceeds(pc) /\ (pc = "persist" => ctl.op = "disable")
    BY <1>1, <1>4, Proceeding DEF Stop, persistent
  <2>2. entry[ctl.on] # None /\ ~enabled'[ctl.on]
    BY <1>1, <2>1 DEF DisableStops, TypeOK
  <2> QED
    BY <1>1, <2>1, <2>2, SyncFrame DEF Proceeds, SyncInv, SuccessIsInStep, ShouldEnable
<1>5. CASE Delete
  BY <1>1, <1>5, Proceeding, SyncFrame DEF Delete, Proceeds
<1>6. CASE Trash
  <2>1. /\ Proceeds("persist") /\ UNCHANGED <<entry, enabled>> /\ disk'[ctl.on] = None
        /\ ctl.op = "remove" /\ ctl.on \in Plugins /\ entry[ctl.on] = None
    BY <1>1, <1>6, Proceeding DEF Trash, TypeOK, live
  <2> QED BY <1>1, <2>1 DEF Proceeds, SyncInv, SuccessIsInStep, ShouldEnable
<1>7. CASE MarketStep /\ ~Trash
  BY <1>1, <1>7, MarketProceeds, SyncFrame DEF Proceeds
<1>8. CASE Register
  <2>1. /\ UNCHANGED <<disk, enabled>> /\ entry'[ctl.on] = disk[ctl.on] /\ ctl.on \in Plugins
        /\ entry[ctl.on] = None
        /\ Proceeds(IF ShouldEnable THEN "enable" ELSE "persist")
    BY <1>1, <1>8, Proceeding DEF Register, TypeOK, persistent
  <2>2. ShouldEnable' = ShouldEnable BY <2>1 DEF Proceeds, ShouldEnable
  <2>3. ~enabled[ctl.on] BY <1>1, <2>1
  <2> QED BY <2>1, <2>2, <2>3 DEF Proceeds, SyncInv, SuccessIsInStep
<1>9. CASE Activate
  <2>1. CASE EnableSucceeds(ctl.on) /\ Go("persist")
    <3>1. /\ UNCHANGED <<disk, entry>> /\ Proceeds("persist") /\ ctl.pc = "enable"
          /\ entry[ctl.on] # None /\ enabled'[ctl.on] = TRUE
      BY <1>1, <1>9, <2>1, Proceeding DEF Activate, EnableSucceeds, CanEnable, TypeOK, persistent
    <3>2. ShouldEnable' = ShouldEnable /\ ShouldEnable
      BY <3>1 DEF Proceeds, ShouldEnable, SyncInv
    <3> QED BY <1>1, <3>1, <3>2 DEF Proceeds, SyncInv, SuccessIsInStep
  <2>2. CASE ~(EnableSucceeds(ctl.on) /\ Go("persist"))
    BY <1>1, <1>9, <2>2, Proceeding, SyncFrame DEF Activate, Proceeds
  <2> QED BY <2>1, <2>2
<1>10. CASE Persist
  <2>1. /\ UNCHANGED <<disk, entry, enabled>> /\ Proceeds("ok") /\ ctl.pc = "persist"
        /\ row'[ctl.on] = IF ShouldEnable THEN "on" ELSE "off"
    BY <1>1, <1>10, Proceeding DEF Persist, TypeOK, live
  <2> QED BY <1>1, <2>1 DEF Proceeds, SyncInv, SuccessIsInStep, InStep
<1>11. CASE Rest /\ ~Register /\ ~Activate /\ ~Persist
  BY <1>1, <1>11, RestProceeds, SyncFrame DEF Proceeds
<1>12. CASE ReloadStep
  <2>1. ShouldEnable' = ShouldEnable BY <1>12, ReloadEffect DEF ShouldEnable
  <2>2. /\ UNCHANGED <<disk, row, entry>> /\ ctl'.pc = ctl.pc /\ ctl'.on = ctl.on
        /\ ctl.met => ctl'.met
        /\ ctl.pc # "idle" => enabled'[ctl.on] = enabled[ctl.on] \/ ctl'.met
    BY <1>1, <1>12, ReloadEffect
  <2> QED BY <2>1, <2>2 DEF SyncInv, SuccessIsInStep, InStep
<1>13. CASE Crash
  BY <1>13, SyncFrame DEF Crash, Idle
<1>14. CASE Boot
  BY <1>14, SyncFrame DEF Boot, RoutesInv, DiskInv, AboutPlugin
<1>15. CASE UNCHANGED vars
  BY <1>15 DEF vars, persistent, live, SyncInv, SuccessIsInStep, InStep, ShouldEnable
<1> QED
  BY <1>2, <1>3, <1>4, <1>5, <1>6, <1>7, <1>8, <1>9, <1>10, <1>11, <1>12, <1>13, <1>14, <1>15
     DEF Next, ControllerStep, MarketStep, Rest

\* The last copy of a package goes only with the operation that removes it.
LEMMA CopyKept ==
  ASSUME RoutesInv, KeepInv, [Next]_vars, NEW n \in Plugins, disk[n] # None \/ backup[n] # None
  PROVE  disk'[n] # None \/ backup'[n] # None \/ (ctl.op = "remove" /\ ctl.on = n)
<1>1. /\ TypeOK /\ (ctl.pc # "idle" => ctl.on \in Plugins) /\ None \notin Versions
  BY ControllerAssumption DEF RoutesInv, DiskInv, AboutPlugin, Versions, None
<1> USE DEF At
<1>2. CASE UNCHANGED <<disk, backup>> BY <1>2
<1>3. CASE MoveOld
  BY <1>1, <1>3 DEF MoveOld, TypeOK
<1>4. CASE MoveNew
  <2>1. ctl.version \in Versions /\ disk' = [disk EXCEPT ![ctl.on] = ctl.version] /\ backup' = backup
    BY <1>4 DEF MoveNew, KeepInv
  <2> QED BY <1>1, <2>1 DEF TypeOK
<1>5. CASE MoveNewFails
  <2>1. disk[ctl.on] = None BY <1>5 DEF MoveNewFails, KeepInv
  <2> QED BY <1>1, <1>5, <2>1 DEF MoveNewFails, TypeOK
<1>6. CASE DropBackup
  BY <1>1, <1>6 DEF DropBackup, KeepInv, TypeOK
<1>7. CASE Trash
  BY <1>1, <1>7 DEF Trash, TypeOK
<1>8. CASE TrashFails
  BY <1>1, <1>8, ControllerAssumption DEF TrashFails, TypeOK, Broken, None
<1>9. CASE Rest BY <1>1, <1>2, <1>9, RestProceeds
<1>10. CASE ReloadStep BY <1>2, <1>10, ReloadEffect
<1> QED
  BY <1>2, <1>3, <1>4, <1>5, <1>6, <1>7, <1>8, <1>9, <1>10
     DEF Next, ControllerStep, MarketStep, Rest, Begin, Look, Stop, Delete, FetchFails, Crash, Boot,
         vars, persistent

\* What an operation has made sure of at each step, with every failure, crashes
\* and the reload command.
THEOREM OperationInvariance == Spec => [](RoutesInv /\ KeepInv /\ SyncInv)
<1>1. Init => RoutesInv /\ KeepInv /\ SyncInv
  BY RoutesInit DEF Init, Idle, KeepInv, SyncInv, SuccessIsInStep
<1>2. RoutesInv /\ KeepInv /\ SyncInv /\ [Next]_vars => (RoutesInv /\ KeepInv /\ SyncInv)'
  BY RoutesStep, KeepStep, SyncStep
<1> QED BY <1>1, <1>2, PTL DEF Spec

\* An operation that reports success leaves directory, registry and row in step
\* for its plugin, for any plugins and versions and whatever failed before
\* (controller.go:84-244, 261-320), unless a reload met the plugin meanwhile.
THEOREM SuccessMeansInStep == Spec => []SuccessIsInStep
<1>1. SyncInv => SuccessIsInStep
  BY DEF SyncInv
<1> QED BY <1>1, OperationInvariance, PTL

\* The last copy of a package is never deleted but by the owner's removal, with
\* a crash or a failure at any step (manager.go:301-340, 385-410).
THEOREM PackagesAreKept == Spec => NeverLost
<1>1. RoutesInv /\ KeepInv /\ [Next]_vars =>
        [\A n \in Plugins :
           disk[n] # None \/ backup[n] # None =>
             disk'[n] # None \/ backup'[n] # None
               \/ (ctl.op = "remove" /\ ctl.on = n)]_vars
  BY CopyKept
<1> QED BY <1>1, OperationInvariance, PTL DEF Spec, NeverLost

===============================================================================
