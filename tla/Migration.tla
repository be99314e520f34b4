------------------------------ MODULE Migration ------------------------------
(***************************************************************************)
(* telebox-migrate: a backup of the old TeleBox is converted into a        *)
(* directory, the directory is imported into an installation, and what     *)
(* could be run is kept out of the active assets, by the import and again  *)
(* by the host when it starts.                                             *)
(*                                                                         *)
(* One of the three runs at a time; the host and its plugins may create    *)
(* files while it does.  Every step may fail, and the process may end      *)
(* after any step.  An archive is its identifier, which stands for its     *)
(* checksum; a file is its path, and what a path holds is fixed: data, a   *)
(* program, or data of a plugin that there is no longer.  Names that leave *)
(* their root, links, duplicates and the limits of sizes are refused       *)
(* before anything is written, and left out.                               *)
(***************************************************************************)
EXTENDS Naturals, FiniteSets, FiniteSetsExt, Sequences

CONSTANTS
  MigrationRuns,   \* bound: commands and starts of the host
  MigrationFaults, \* bound: failures, ends of the process, files of the host
  MigrationWorlds, \* [archives, kind, old, own, oneDevice]: what there is at first
  Absent

VARIABLES
  migration, \* the world: archives is [archive -> paths], kind is [path -> "data",
             \* "program" or "alien"], old: conversions of older migrators
  output,    \* the conversion's directory: [part -> archive or Absent]
  installed, \* the installation: [item -> Absent or [from, whole]]
  quarantine,\* [<<path, number>> -> [from, whole]]
  owned,     \* the files that are not of a migration: [item, n]
  task,      \* the process that runs
  cut,       \* a process ended, or a removal failed, in the middle
  migrated   \* how much of the bounds is used
migrationVars == <<migration, output, installed, quarantine, owned, task, cut, migrated>>

Parts == {"config", "session", "assets", "legacy"}
AssetPaths == DOMAIN migration.kind
Archives == DOMAIN migration.archives
Items == {<<part, "">> : part \in {"config", "session"}} \cup {<<"receipt", a>> : a \in Archives}
           \cup ({"assets", "legacy"} \X AssetPaths)
File(from, whole) == [from |-> from, n |-> 0, whole |-> whole]
Own(n) == [from |-> "own", n |-> n, whole |-> TRUE]

ASSUME MigrationAssumption ==
  \A world \in MigrationWorlds :
    /\ {Absent, "own"} \cap DOMAIN world.archives = {}
    /\ Absent \notin [from : DOMAIN world.archives \cup {"own"}, n : Nat, whole : BOOLEAN]
    /\ Absent \notin [what : {"convert"}, from : DOMAIN world.archives, left : Seq(Parts)]
    /\ \A a \in DOMAIN world.archives : world.archives[a] \subseteq DOMAIN world.kind
    /\ world.own \subseteq {<<part, "">> : part \in {"config", "session"}} \cup ({"assets", "legacy"} \X DOMAIN world.kind)

MigrationInit(world) ==
  /\ migration = world /\ owned = {[item |-> i, n |-> 0] : i \in world.own} /\ task = Absent /\ cut = FALSE
  /\ output = [part \in Parts |-> Absent]
  /\ installed = [i \in Items |-> IF i \in world.own THEN Own(0) ELSE Absent]
  /\ quarantine = [q \in {} |-> Own(0)] /\ migrated = [runs |-> 0, faults |-> 0]

TaskFault == migrated.faults < MigrationFaults /\ migrated' = [migrated EXCEPT !.faults = @ + 1]
TaskFine == UNCHANGED migrated
BeginRun(new) ==
  /\ task = Absent /\ migrated.runs < MigrationRuns
  /\ migrated' = [migrated EXCEPT !.runs = @ + 1] /\ task' = new
Doing(what) == task # Absent /\ task.what = what
Frame == UNCHANGED <<migration, owned>>
Over == task' = Absent
-----------------------------------------------------------------------------
(* The environment.                                                        *)

\* The host or a plugin creates a file where there is none.
HostCreates == \E i \in Items :
  /\ i[1] # "receipt" /\ installed[i] = Absent /\ TaskFault
  /\ installed' = [installed EXCEPT ![i] = Own(migrated'.faults)]
  /\ owned' = owned \cup {[item |-> i, n |-> migrated'.faults]}
  /\ UNCHANGED <<migration, output, quarantine, task, cut>>
\* The process ends; its temporary files stay.
Killed ==
  /\ task # Absent /\ TaskFault /\ Over /\ cut' = TRUE
  /\ Frame /\ UNCHANGED <<output, installed, quarantine>>
\* A conversion that is there is refused, so somebody removes it.
OutputRemoved ==
  /\ task = Absent /\ TaskFault /\ \E part \in Parts : output[part] # Absent
  /\ output' = [part \in Parts |-> Absent] /\ cut' = FALSE
  /\ Frame /\ UNCHANGED <<installed, quarantine, task>>
-----------------------------------------------------------------------------
(* convert: each part is made aside and renamed.                           *)

Renames == <<"assets", "legacy", "session", "config">>
\* A bug: a failure leaves the session.
KeepsSession(done) == done \ {"session"}
RolledBack(done) == done

\* The archive is read and the temporary files are made before the renames.
Convert == \E a \in Archives :
  /\ \A part \in Parts : output[part] = Absent
  /\ BeginRun([what |-> "convert", from |-> a, left |-> Renames])
  /\ Frame /\ UNCHANGED <<output, installed, quarantine, cut>>
Put(part) ==
  /\ output' = [output EXCEPT ![part] = task.from] /\ TaskFine /\ UNCHANGED cut
  /\ task' = IF Len(task.left) = 1 THEN Absent ELSE [task EXCEPT !.left = Tail(@)]
Done == {part \in Parts : output[part] # Absent}
\* What was renamed is removed; the errors of that are ignored.
RollBack(done) ==
  /\ Over /\ TaskFault
  /\ \/ output' = [part \in Parts |-> IF part \in done THEN Absent ELSE output[part]] /\ UNCHANGED cut
     \/ \E kept \in done : output' = [part \in Parts |-> IF part \in done \ {kept} THEN Absent ELSE output[part]]
                           /\ cut' = TRUE
ConvertStep ==
  /\ Doing("convert") /\ Frame /\ UNCHANGED <<installed, quarantine>>
  /\ (Put(Head(task.left)) \/ RollBack(RolledBack(Done)))

\* What ExtractLegacyAssets takes of an archive, and PreserveLegacyAssets.
IsUnsafe(path) == migration.kind[path] = "program"
Selected(a) == {p \in migration.archives[a] : migration.kind[p] # "alien"}
Extracted(a) == {p \in Selected(a) : migration.old \/ ~IsUnsafe(p)}
Preserved(a) == migration.archives[a]
-----------------------------------------------------------------------------
(* import: what there is already is not touched.                           *)

\* validateConvertedRoot: all parts are there, and the manifests agree.
Converted == (\A part \in Parts : output[part] # Absent) /\ output["legacy"] = output["assets"]
\* A bug: the import takes what the conversion has.
TakesAll(path) == FALSE
Filtered(path) == IsUnsafe(path)
Group(n, a) ==
  CASE n = 1 -> {<<"config", "">>}
    [] n = 2 -> {<<"session", "">>}
    [] n = 3 -> {<<"assets", p>> : p \in {x \in Extracted(a) : ~Filtered(x)}}
    [] n = 4 -> {<<"legacy", p>> : p \in Preserved(a)}
    [] n = 5 -> {<<"receipt", a>>}
\* The session stays where it is when it is to be kept.
ImportGroup(n, a, skip) == IF n = 2 /\ skip THEN {} ELSE Group(n, a)
Import == \E skip \in BOOLEAN :
  /\ Converted
  /\ BeginRun([what |-> "import", from |-> output["assets"], skip |-> skip, group |-> 1,
            left |-> ImportGroup(1, output["assets"], skip), at |-> Absent])
  /\ Frame /\ UNCHANGED <<output, installed, quarantine, cut>>
NextGroup ==
  /\ Doing("import") /\ task.left = {} /\ task.at = Absent /\ TaskFine
  /\ Frame /\ UNCHANGED <<output, installed, quarantine, cut>>
  /\ IF task.group = 5 THEN Over
     ELSE task' = [task EXCEPT !.group = @ + 1, !.left = ImportGroup(task.group + 1, task.from, task.skip)]

\* importFile and importBytes: created only where there is nothing, then copied.
\* A bug: what is there is written over.
Everything(item) == FALSE
Exists(item) == installed[item] # Absent
ImportFile ==
  /\ Doing("import") /\ task.at = Absent /\ TaskFine /\ Frame /\ UNCHANGED <<output, quarantine, cut>>
  /\ \E item \in task.left :
     IF Exists(item) THEN task' = [task EXCEPT !.left = @ \ {item}] /\ UNCHANGED installed
     ELSE /\ task' = [task EXCEPT !.left = @ \ {item}, !.at = item]
          /\ installed' = [installed EXCEPT ![item] = File(task.from, FALSE)]
CopyFile ==
  /\ Doing("import") /\ task.at # Absent /\ Frame /\ UNCHANGED <<output, quarantine>>
  /\ \/ /\ installed' = [installed EXCEPT ![task.at].whole = TRUE] /\ TaskFine
        /\ task' = [task EXCEPT !.at = Absent] /\ UNCHANGED cut
     \/ /\ TaskFault /\ Over
        /\ \/ installed' = [installed EXCEPT ![task.at] = Absent] /\ UNCHANGED cut
           \/ UNCHANGED installed /\ cut' = TRUE
ImportFails ==
  /\ Doing("import") /\ task.at = Absent /\ TaskFault /\ Over
  /\ Frame /\ UNCHANGED <<output, installed, quarantine, cut>>
-----------------------------------------------------------------------------
(* The host starts: programs among the active assets are moved away.       *)

\* A path of kind "program" is one the walk looks at: what is below plugin-runtime
\* and quarantine, and a tool its receipt vouches for, it passes over.
Suspicious == {p \in AssetPaths : installed[<<"assets", p>>] # Absent /\ IsUnsafe(p)}
HostStarts ==
  /\ BeginRun([what |-> "quarantine", left |-> Suspicious, at |-> Absent, to |-> Absent])
  /\ Frame /\ UNCHANGED <<output, installed, quarantine, cut>>
\* A bug: the name of the file is taken whether or not there is one.
FirstName(path) == <<path, 0>>
Available(path) == <<path, Min({n \in 0 .. Cardinality(DOMAIN quarantine) : <<path, n>> \notin DOMAIN quarantine})>>
Stored(name, file) == [q \in DOMAIN quarantine \cup {name} |-> IF q = name THEN file ELSE quarantine[q]]
\* A rename where it can be one; else a copy, which may be cut, and a removal.
Move ==
  /\ Doing("quarantine") /\ task.at = Absent /\ TaskFine /\ Frame /\ UNCHANGED <<output, cut>>
  /\ \E p \in task.left : LET item == <<"assets", p>> IN
     IF migration.oneDevice
     THEN /\ quarantine' = Stored(Available(p), installed[item])
          /\ installed' = [installed EXCEPT ![item] = Absent]
          /\ task' = [task EXCEPT !.left = @ \ {p}]
     ELSE /\ quarantine' = Stored(Available(p), [installed[item] EXCEPT !.whole = FALSE])
          /\ task' = [what |-> "quarantine", left |-> task.left \ {p}, at |-> item, to |-> Available(p)]
          /\ UNCHANGED installed
MoveCopies ==
  /\ Doing("quarantine") /\ task.at # Absent /\ Frame /\ UNCHANGED <<output, cut>>
  /\ IF quarantine[task.to] = installed[task.at]
     THEN \/ TaskFine /\ installed' = [installed EXCEPT ![task.at] = Absent] /\ UNCHANGED quarantine
             /\ task' = [task EXCEPT !.at = Absent]
          \/ TaskFault /\ Over /\ UNCHANGED <<installed, quarantine>>
     ELSE /\ UNCHANGED installed
          /\ \/ TaskFine /\ quarantine' = Stored(task.to, installed[task.at]) /\ UNCHANGED task
             \/ TaskFault /\ Over /\ quarantine' = [q \in DOMAIN quarantine \ {task.to} |-> quarantine[q]]
\* The host does not start when a move fails, and starts when all are done.
Started ==
  /\ Doing("quarantine") /\ task.left = {} /\ task.at = Absent /\ Over /\ TaskFine
  /\ Frame /\ UNCHANGED <<output, installed, quarantine, cut>>

MigrationNext ==
  \/ HostCreates \/ Killed \/ OutputRemoved \/ Convert \/ ConvertStep
  \/ Import \/ NextGroup \/ ImportFile \/ CopyFile \/ ImportFails
  \/ HostStarts \/ Move \/ MoveCopies \/ Started
MigrationSpec == (\E world \in MigrationWorlds : MigrationInit(world)) /\ [][MigrationNext]_migrationVars
-----------------------------------------------------------------------------
(* Properties.                                                             *)

\* A conversion that fails leaves nothing behind.
NothingLeft == (task = Absent \/ task.what # "convert") /\ ~cut =>
  Done \in {{}, Parts}
\* A file that the migration did not bring is where it was, or, a program, in
\* quarantine; nothing replaces it, and no later file of its name its copy.
OwnIsKept == \A o \in owned :
  \/ installed[o.item] = Own(o.n)
  \/ o.item[1] = "assets" /\ \E q \in DOMAIN quarantine : q[1] = o.item[2] /\ quarantine[q] = Own(o.n)
\* A migration never puts a program among the active assets.
NothingToRun == \A p \in AssetPaths : IsUnsafe(p) /\ installed[<<"assets", p>>] # Absent => installed[<<"assets", p>>].from = "own"
MigrationIsSound == NothingLeft /\ OwnIsKept /\ NothingToRun

\* When the receipt says that a conversion was imported, its files are whole.
ImportIsWhole == \A a \in Archives : installed[<<"receipt", a>>] # Absent =>
  \A i \in Items : installed[i] # Absent /\ i[1] # "receipt" => installed[i].whole
=============================================================================
