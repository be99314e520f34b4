----------------------------- MODULE CoreRestore -----------------------------
(***************************************************************************)
(* How a backup is put back: the restore command stages an archive         *)
(* (internal/plugins/core, internal/corebackup), the host restarts, and    *)
(* main applies the staged archive before it opens the database            *)
(* (cmd/telebox, internal/app, internal/storage).                          *)
(*                                                                         *)
(* The data of the host are five items, each a file or a directory that is *)
(* renamed as a whole; what is in one is named by where it comes from.     *)
(* SQLite keeps committed rows in a write-ahead log beside the database    *)
(* until the database is closed; the log is not one of the items.          *)
(*                                                                         *)
(* The host may crash between any two steps.  The rollback directory is    *)
(* named by the second, and systemd waits 5 seconds before a restart       *)
(* (scripts/install.sh:605), so every attempt has a directory of its own.  *)
(***************************************************************************)
EXTENDS Naturals, Sequences

CONSTANTS
  Archives,     \* the backups the owner may reply to
  Parts,        \* the items in each archive
  MaxAttempts,  \* how often ApplyPending may begin to replace items
  Faults        \* what may go wrong: "crash", "damage", "fail", "send"

\* In the order of ApplyPending's replacements.
Order == <<"db", "assets", "legacy", "plugins", "config">>
Items == {"db", "assets", "legacy", "plugins", "config"}
None == "none"
Contents == {None, "own", "empty", "mixed"} \cup Archives

ASSUME RestoreAssumption ==
  /\ Archives \cap {None, "own", "empty", "mixed", "damaged"} = {}
  /\ Parts \in [Archives -> SUBSET Items]
  /\ \A a \in Archives : "db" \in Parts[a]
  /\ MaxAttempts \in Nat
  /\ Faults \subseteq {"crash", "damage", "fail", "send"}

VARIABLES
  life,     \* "up", "down" or "starting" (before the database is opened)
  live,     \* what is at each item's path
  wal,      \* the database whose write-ahead log lies beside live["db"]
  pending,  \* the staged archive
  aside,    \* the archives kept as .invalid-* because unpacking them failed
  cmd,      \* the restore command in progress
  boot,     \* ApplyPending in progress
  attempt,  \* the number of rollback directories
  rollback, \* what each rollback directory holds
  before,   \* history: the items when the host last ran
  hit       \* history: what went wrong since then

files == <<live, wal, pending, aside, attempt, rollback>>
history == <<before, hit>>
vars == <<life, files, cmd, boot, history>>

NoCommand == [pc |-> "idle", archive |-> None]
NoBoot == [pc |-> "idle", archive |-> None, at |-> 1,
           had |-> [i \in Items |-> FALSE]]

Init ==
  /\ life = "up"
  /\ live = [i \in Items |-> "own"]
  /\ wal = None /\ pending = None /\ aside = {}
  /\ cmd = NoCommand /\ boot = NoBoot
  /\ attempt = 0
  /\ rollback = [r \in 1..MaxAttempts |-> [i \in Items |-> None]]
  /\ before = live /\ hit = {}

-----------------------------------------------------------------------------
(* The host while it runs.                                                 *)

\* Rows are committed: they are in the log until the database is closed.
Commit ==
  /\ life = "up"
  /\ wal' = live["db"]
  /\ UNCHANGED <<life, live, pending, attempt, rollback, aside, cmd, boot, history>>

\* The restore command, under backupMu, after Validate and copyFile succeeded.
BeginStage(a) ==
  /\ life = "up" /\ cmd.pc = "idle"
  /\ cmd' = [pc |-> "remove", archive |-> a]
  /\ UNCHANGED <<life, files, boot, history>>

RemoveOldStage ==
  /\ life = "up" /\ cmd.pc = "remove"
  /\ pending' = None
  /\ cmd' = [cmd EXCEPT !.pc = "rename"]
  /\ UNCHANGED <<life, live, wal, attempt, rollback, aside, boot, history>>

\* The temporary copy becomes the pending archive.
FinishStage ==
  /\ life = "up" /\ cmd.pc = "rename"
  /\ pending' = cmd.archive
  /\ cmd' = [cmd EXCEPT !.pc = "respond"]
  /\ UNCHANGED <<life, live, wal, attempt, rollback, aside, boot, history>>

StageFails ==
  /\ life = "up" /\ cmd.pc \in {"remove", "rename"}
  /\ "fail" \in Faults
  /\ cmd' = NoCommand
  /\ UNCHANGED <<life, files, boot, history>>

\* The answer cannot be sent: the archive stays staged, the host runs on.
RespondFails ==
  /\ life = "up" /\ cmd.pc = "respond"
  /\ "send" \in Faults
  /\ cmd' = NoCommand
  /\ UNCHANGED <<life, files, boot, history>>

\* The data directories are created if they are missing, and the database is
\* opened, with whatever log lies beside it.
Opened ==
  [i \in Items |->
    IF live[i] = None /\ i # "config" THEN "empty"
    ELSE IF i = "db" /\ wal \notin {None, live[i]} THEN "mixed"
    ELSE live[i]]

\* The host goes down; what it was doing ends with it.
GoesDown ==
  /\ life' = "down"
  /\ cmd' = NoCommand /\ boot' = NoBoot
  /\ UNCHANGED <<live, attempt, rollback, aside>>

\* Asked to by the restore command, or by anyone, and after at most ten seconds
\* for the workers: app.Run closes the database, which empties its log.
Stops ==
  /\ life = "up"
  /\ wal' = None
  /\ GoesDown
  /\ before' = live /\ hit' = {}
  /\ UNCHANGED pending

\* Nothing is synced before the rename of FinishStage: after a power failure the
\* pending archive may be empty.
Crash ==
  /\ life # "down"
  /\ "crash" \in Faults
  /\ \/ pending' = pending
     \/ "damage" \in Faults /\ pending # None /\ pending' = "damaged"
  /\ before' = IF life = "up" THEN live ELSE before
  /\ hit' = IF life = "up" THEN {} ELSE hit \cup {"crash"}
  /\ GoesDown
  /\ UNCHANGED wal

-----------------------------------------------------------------------------
(* main and ApplyPending.                                                  *)

At(pc) == life = "starting" /\ boot.pc = pc
Goto(pc) == boot' = [boot EXCEPT !.pc = pc]
Item == Order[boot.at]
InArchive(i) == i \in Parts[boot.archive]

\* config.Load comes first, and ends main if there is no configuration.
Start ==
  /\ life = "down" /\ live["config"] # None
  /\ life' = "starting"
  /\ Goto(IF pending = None THEN "open" ELSE "check")
  /\ UNCHANGED <<files, cmd, history>>

\* Unpacking the archive fails: it is damaged, the disk is full, a read fails.
\* Whatever the reason, it is moved aside, unless that fails as well.
Quarantine ==
  /\ At("check")
  /\ pending = "damaged" \/ "fail" \in Faults
  /\ \/ pending' = None /\ aside' = aside \cup {pending}
     \/ "fail" \in Faults /\ UNCHANGED <<pending, aside>>
  /\ Goto("open")
  /\ hit' = hit \cup {"fail"}
  /\ UNCHANGED <<life, live, wal, attempt, rollback, cmd, before>>

\* The work directory, the rollback directory or a check of a target fails.
PrepareFails ==
  /\ At("check") /\ pending # "damaged"
  /\ "fail" \in Faults \/ attempt = MaxAttempts
  /\ Goto("open")
  /\ hit' = hit \cup {"fail"}
  /\ UNCHANGED <<life, files, cmd, before>>

\* Mutant: an attempt in the same second takes the directory that is there.
PrepareInPlace ==
  /\ At("check") /\ pending # "damaged"
  /\ attempt' = 1
  /\ boot' = [boot EXCEPT !.pc = "preserve", !.archive = pending]
  /\ UNCHANGED <<life, live, wal, pending, rollback, aside, cmd, history>>

\* Mutant: the pending archive is removed once it is unpacked.
PrepareAndRemove ==
  /\ At("check") /\ pending # "damaged"
  /\ attempt < MaxAttempts
  /\ attempt' = attempt + 1
  /\ pending' = None
  /\ boot' = [boot EXCEPT !.pc = "preserve", !.archive = pending]
  /\ UNCHANGED <<life, live, wal, rollback, aside, cmd, history>>

Prepare ==
  /\ At("check") /\ pending # "damaged"
  /\ attempt < MaxAttempts
  /\ attempt' = attempt + 1
  /\ boot' = [boot EXCEPT !.pc = "preserve", !.archive = pending]
  /\ UNCHANGED <<life, live, wal, pending, rollback, aside, cmd, history>>

\* An item that is not in the archive stays as it is.
Skip ==
  /\ At("preserve") /\ boot.at <= Len(Order) /\ ~InArchive(Item)
  /\ boot' = [boot EXCEPT !.at = @ + 1]
  /\ UNCHANGED <<life, files, cmd, history>>

\* What is at the target is renamed into the rollback directory.
Preserve ==
  /\ At("preserve") /\ boot.at <= Len(Order) /\ InArchive(Item)
  /\ IF live[Item] = None
       THEN UNCHANGED <<live, rollback>>
       ELSE /\ rollback' = [rollback EXCEPT ![attempt][Item] = live[Item]]
            /\ live' = [live EXCEPT ![Item] = None]
  /\ boot' = [boot EXCEPT !.pc = "activate", !.had[Item] = live[Item] # None]
  /\ UNCHANGED <<life, wal, pending, attempt, aside, cmd, history>>

\* The restored item is renamed to its target.
Activate ==
  /\ At("activate")
  /\ live' = [live EXCEPT ![Item] = boot.archive]
  /\ boot' = [boot EXCEPT !.pc = "preserve", !.at = @ + 1]
  /\ UNCHANGED <<life, wal, pending, attempt, rollback, aside, cmd, history>>

\* Mutant: the items applied so far are left in place.
PreserveFailsForGood ==
  /\ At("preserve") /\ boot.at <= Len(Order) /\ InArchive(Item)
  /\ "fail" \in Faults
  /\ Goto("open")
  /\ hit' = hit \cup {"fail"}
  /\ UNCHANGED <<life, files, cmd, before>>

PreserveFails ==
  /\ At("preserve") /\ boot.at <= Len(Order) /\ InArchive(Item)
  /\ "fail" \in Faults
  /\ Goto("undo")
  /\ hit' = hit \cup {"fail"}
  /\ UNCHANGED <<life, files, cmd, before>>

\* The item at hand is put back at once, unless that fails as well.
ActivateFails ==
  /\ At("activate") /\ "fail" \in Faults
  /\ \/ /\ boot.had[Item]
        /\ live' = [live EXCEPT ![Item] = rollback[attempt][Item]]
        /\ rollback' = [rollback EXCEPT ![attempt][Item] = None]
        /\ hit' = hit \cup {"fail"}
     \/ /\ boot.had[Item]
        /\ UNCHANGED <<live, rollback>>
        /\ hit' = hit \cup {"undo"}
     \/ /\ ~boot.had[Item]
        /\ UNCHANGED <<live, rollback>>
        /\ hit' = hit \cup {"fail"}
  /\ Goto("undo")
  /\ UNCHANGED <<life, wal, pending, attempt, aside, cmd, before>>

\* Everything is in place: the pending archive goes, unless its removal fails,
\* which leaves it to be applied again.
Finish ==
  /\ At("preserve") /\ boot.at > Len(Order)
  /\ \/ pending' = None
     \/ "fail" \in Faults /\ pending' = pending
  /\ Goto("open")
  /\ UNCHANGED <<life, live, wal, attempt, rollback, aside, cmd, history>>

-----------------------------------------------------------------------------
(* rollbackApplied, from the last item applied to the first; errors are    *)
(* ignored.                                                                *)

Last == Order[boot.at - 1]

UndoSkip ==
  /\ At("undo") /\ boot.at > 1 /\ ~InArchive(Last)
  /\ boot' = [boot EXCEPT !.at = @ - 1]
  /\ UNCHANGED <<life, files, cmd, history>>

UndoRemove ==
  /\ At("undo") /\ boot.at > 1 /\ InArchive(Last)
  /\ \/ live' = [live EXCEPT ![Last] = None] /\ UNCHANGED hit
     \/ "fail" \in Faults /\ UNCHANGED live /\ hit' = hit \cup {"undo"}
  /\ Goto("undoRename")
  /\ UNCHANGED <<life, wal, pending, attempt, rollback, aside, cmd, before>>

UndoRename ==
  /\ At("undoRename")
  /\ \/ /\ boot.had[Last]
        /\ live' = [live EXCEPT ![Last] = rollback[attempt][Last]]
        /\ rollback' = [rollback EXCEPT ![attempt][Last] = None]
        /\ UNCHANGED hit
     \/ /\ boot.had[Last] /\ "fail" \in Faults
        /\ hit' = hit \cup {"undo"}
        /\ UNCHANGED <<live, rollback>>
     \/ ~boot.had[Last] /\ UNCHANGED <<live, rollback, hit>>
  /\ boot' = [boot EXCEPT !.pc = "undo", !.at = @ - 1]
  /\ UNCHANGED <<life, wal, pending, attempt, aside, cmd, before>>

\* Mutant: a restore that failed is not tried again.
UndoEndsAndDrops ==
  /\ At("undo") /\ boot.at = 1
  /\ Goto("open")
  /\ pending' = None
  /\ UNCHANGED <<life, live, wal, attempt, rollback, aside, cmd, history>>

UndoEnds ==
  /\ At("undo") /\ boot.at = 1
  /\ Goto("open")
  /\ UNCHANGED <<life, files, cmd, history>>

\* main goes on, whether the restore was applied or not.
Open ==
  /\ At("open")
  /\ life' = "up" /\ boot' = NoBoot
  /\ live' = Opened /\ wal' = None
  /\ UNCHANGED <<pending, attempt, rollback, aside, cmd, history>>

-----------------------------------------------------------------------------
Running ==
  \/ Commit
  \/ \E a \in Archives : BeginStage(a)
  \/ RemoveOldStage \/ FinishStage \/ StageFails \/ RespondFails

Applying ==
  \/ Quarantine \/ PrepareFails \/ Prepare
  \/ Skip \/ Preserve \/ PreserveFails \/ Activate \/ ActivateFails \/ Finish
  \/ UndoSkip \/ UndoRemove \/ UndoRename \/ UndoEnds

Next == Running \/ Start \/ Applying \/ Open \/ Stops \/ Crash

Spec == Init /\ [][Next]_vars

-----------------------------------------------------------------------------
(* Properties.                                                             *)

Boots ==
  [pc : {"idle", "check", "preserve", "activate", "undo", "undoRename", "open"},
   archive : {None} \cup Archives, at : 1..(Len(Order) + 1),
   had : [Items -> BOOLEAN]]

\* Files, commands and the restore in progress are of their types; what is being
\* applied is the staged archive, which stays staged until the end.
TypeOK ==
  /\ life \in {"up", "down", "starting"}
  /\ live \in [Items -> Contents]
  /\ wal \in Contents
  /\ pending \in {None, "damaged"} \cup Archives
  /\ aside \subseteq {"damaged"} \cup Archives
  /\ cmd \in [pc : {"idle", "remove", "rename", "respond"},
              archive : {None} \cup Archives]
  /\ boot \in Boots
  /\ attempt \in 0..MaxAttempts
  /\ rollback \in [1..MaxAttempts -> [Items -> Contents]]
  /\ before \in [Items -> Contents]
  /\ hit \subseteq {"crash", "fail", "undo"}
  /\ cmd.pc # "idle" => life = "up" /\ cmd.archive # None
  /\ boot.pc # "idle" => life = "starting"
  /\ boot.pc \in {"preserve", "activate", "undo", "undoRename"} =>
       boot.archive = pending /\ pending \in Archives /\ attempt > 0

\* "The originals stay in the rollback directory" (user-guide.md:900-901): until
\* the host runs again, everything it had when it last ran is at its place or in
\* a rollback directory, whatever crashes and fails, however often the
\* restore is tried (backup.go:363-391, 419-427).
OriginalsKept ==
  life # "up" =>
    \A i \in Items :
      \/ before[i] = live[i]
      \/ \E r \in 1..attempt : rollback[r][i] = before[i]

\* The restore is applied wholly or not at all: the host goes on with the items
\* it had, or with every part of one archive.  Crashes alone do not break this,
\* failures alone do not; a failure in an attempt after a crashed one does,
\* because that attempt takes what the first one left for the originals, and
\* so does a failure to put an item back, which is ignored.
Whole(a) == \A i \in Items : live[i] = IF i \in Parts[a] THEN a ELSE before[i]
AllOrNothing ==
  At("open") /\ "undo" \notin hit /\ ~({"crash", "fail"} \subseteq hit) =>
    live = before \/ \E a \in Archives : Whole(a)

\* A staged archive is never lost: it stays staged until every part of it is in
\* place or the owner stages another.  Only if unpacking it fails, on a full disk
\* just as when it is damaged, it is given up (backup.go:319-323), and then it is
\* kept aside and has changed nothing in this attempt.
StagedUntilApplied ==
  [][\A a \in Archives : pending = a /\ pending' = None =>
       \/ \A i \in Parts[a] : live[i] = a
       \/ cmd.pc = "remove"
       \/ boot.pc = "check" /\ a \in aside' /\ UNCHANGED <<live, rollback>>]_vars

\* "... applied atomically before the database is opened" (architecture.md:
\* 123-124): the host can always start again.
Startable == life = "down" => live["config"] # None

\* "... the current files go to a rollback directory" (user-guide.md:900-901):
\* the database that is opened is the old or the restored one.
NeverMixed == live["db"] # "mixed"
-----------------------------------------------------------------------------
(* The inductive invariant behind OriginalsKept and StagedUntilApplied.    *)

\* Where the steps of ApplyPending leave the counter.
Position ==
  /\ boot.pc \in {"idle", "check"} => boot.at = 1
  /\ boot.pc = "check" => pending # None
  /\ boot.pc \in {"activate", "undo", "undoRename"} => boot.at <= Len(Order)
  /\ boot.pc = "activate" => InArchive(Item)
  /\ boot.pc = "undoRename" => boot.at > 1 /\ InArchive(Last)

\* The host does not start without a configuration and makes the other items it
\* misses, so nothing is missing when ApplyPending sets out.
NothingMissing ==
  \A i \in Items :
    /\ i # "config" /\ life = "up" => live[i] # None
    /\ i # "config" /\ life # "up" => before[i] # None
    /\ life = "starting" => before[i] # None
    /\ life = "down" => before[i] # None \/ live[i] = None

\* An attempt puts an item into a directory that does not have one yet.
FreshDirectory ==
  /\ \A r \in 1..MaxAttempts : \A i \in Items : r > attempt => rollback[r][i] = None
  /\ \A k \in 1..Len(Order) :
       \/ boot.pc = "preserve" /\ k >= boot.at
       \/ boot.pc = "activate" /\ k > boot.at
       => rollback[attempt][Order[k]] = None

\* What has been replaced, and may be deleted again, has been saved.
Saved(i) == \E r \in 1..attempt : rollback[r][i] = before[i]
ReplacedIsSaved ==
  boot.pc \in {"preserve", "activate", "undo", "undoRename"} =>
    \A k \in 1..Len(Order) :
      /\ k < boot.at \/ (k = boot.at /\ boot.pc = "activate")
      /\ InArchive(Order[k])
      => Saved(Order[k])

ReplacedIsInPlace ==
  boot.pc \in {"preserve", "activate"} =>
    \A k \in 1..Len(Order) :
      k < boot.at /\ InArchive(Order[k]) => live[Order[k]] = boot.archive

RestoreInv ==
  /\ TypeOK /\ Position /\ NothingMissing /\ FreshDirectory
  /\ ReplacedIsSaved /\ ReplacedIsInPlace /\ OriginalsKept

-----------------------------------------------------------------------------
(* The inductive invariant behind AllOrNothing: what is at the items' paths *)
(* when only crashes, or only failures, lie behind.                        *)

Applied == live = before \/ \E a \in Archives : Whole(a)

UndoneAfterFailure ==
  boot.pc \in {"undo", "undoRename"} => hit \cap {"fail", "undo"} # {}

\* A crashed attempt has disturbed no more than the next one replaces.
AfterCrashes ==
  life # "up" /\ hit \subseteq {"crash"} =>
    /\ pending \in Archives =>
         \A i \in Items \ Parts[pending] : live[i] = before[i]
    /\ pending = None \/ boot.pc = "open" => Applied

\* The one attempt there was has kept, in its own directory, what it has to put
\* back; the rest is untouched.
Replaced(k) ==
  /\ InArchive(Order[k])
  /\ k < boot.at \/ (k = boot.at /\ boot.pc = "activate")
AfterFailures ==
  life # "up" /\ hit \subseteq {"fail"} =>
    /\ boot.pc \in {"idle", "check"} => live = before
    /\ boot.pc = "open" => Applied
    /\ boot.pc \in {"preserve", "activate", "undo", "undoRename"} =>
         \A k \in 1..Len(Order) :
           IF Replaced(k)
             THEN /\ boot.had[Order[k]]
                  /\ rollback[attempt][Order[k]] = before[Order[k]]
             ELSE live[Order[k]] = before[Order[k]]

WholeInv == RestoreInv /\ UndoneAfterFailure /\ AfterCrashes /\ AfterFailures
=============================================================================
