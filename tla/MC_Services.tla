---------------------------- MODULE MC_Services ----------------------------
(***************************************************************************)
(* The services and plugins that share nothing but the host, side by side: *)
(* part is the one that runs, and the others keep their first state.       *)
(***************************************************************************)
EXTENDS MC_PluginBridge, MC_TelegramBackup, MC_Migration, MC_Inkstone, MC_Speedlink, MC_YtDlp, MC_AiPlugin,
  MC_ChatTools

VARIABLE part

smallVars == <<traceVars, searchVars, modVars>>
largeVars == <<bridgeVars, backupVars, inkVars, migrationVars, aiVars, ytVars, slVars>>

\* The part that runs begins in each of its worlds, another in one of its.
Begins(name, worlds) == IF part = name THEN worlds ELSE {CHOOSE world \in worlds : TRUE}
Init ==
  /\ part \in {"bridge", "backup", "inkstone", "migration", "ai", "yt-dlp", "speedlink", "trace", "search", "moderation"}
  /\ \E world \in Begins("bridge", BridgeWorlds) : BridgeInit(world)
  /\ \E world \in Begins("backup", BackupWorlds) : BackupInit(world)
  /\ \E world \in Begins("inkstone", InkWorlds) : InkInit(world)
  /\ \E world \in Begins("migration", MigrationWorlds) : MigrationInit(world)
  /\ \E world \in Begins("ai", AiWorlds) : AiInit(world)
  /\ \E world \in Begins("yt-dlp", YtWorlds) : YtInit(world)
  /\ \E world \in Begins("speedlink", SlWorlds) : SlInit(world)
  /\ \E world \in Begins("trace", TraceWorlds) : TraceInit(world)
  /\ \E world \in Begins("search", SearchWorlds) : SearchInit(world)
  /\ \E world \in Begins("moderation", ModWorlds) : ModInit(world)
Next ==
  /\ UNCHANGED part
  /\ \/ /\ part = "bridge" /\ BridgeNext
        /\ UNCHANGED <<backupVars, inkVars, migrationVars, aiVars, ytVars, slVars, smallVars>>
     \/ /\ part = "backup" /\ BackupNext
        /\ UNCHANGED <<bridgeVars, inkVars, migrationVars, aiVars, ytVars, slVars, smallVars>>
     \/ /\ part = "inkstone" /\ InkNext
        /\ UNCHANGED <<bridgeVars, backupVars, migrationVars, aiVars, ytVars, slVars, smallVars>>
     \/ /\ part = "migration" /\ MigrationNext
        /\ UNCHANGED <<bridgeVars, backupVars, inkVars, aiVars, ytVars, slVars, smallVars>>
     \/ /\ part = "ai" /\ AiNext
        /\ UNCHANGED <<bridgeVars, backupVars, inkVars, migrationVars, ytVars, slVars, smallVars>>
     \/ /\ part = "yt-dlp" /\ YtNext
        /\ UNCHANGED <<bridgeVars, backupVars, inkVars, migrationVars, aiVars, slVars, smallVars>>
     \/ /\ part = "speedlink" /\ SlNext
        /\ UNCHANGED <<bridgeVars, backupVars, inkVars, migrationVars, aiVars, ytVars, smallVars>>
     \/ /\ part = "trace" /\ TraceNext
        /\ UNCHANGED <<largeVars, searchVars, modVars>>
     \/ /\ part = "search" /\ SearchNext
        /\ UNCHANGED <<largeVars, traceVars, modVars>>
     \/ /\ part = "moderation" /\ ModNext
        /\ UNCHANGED <<largeVars, traceVars, searchVars>>
Spec == Init /\ [][Next]_<<part, largeVars, smallVars>>
-----------------------------------------------------------------------------
(* What each part promises, in its own module: FilesAreKept,               *)
(* BackupsAreSound, MigrationIsSound, WritesAreSafe, SpeedlinkIsSound,     *)
(* ToolsAreSafe, AiIsSound and ChatToolsAreSound are the promises of       *)
(* pluginbridge, telegram-backup, telebox-migrate, inkstone, speedlink,    *)
(* yt-dlp, ai, and of trace, search, aban and bulk_delete.                 *)
=============================================================================
