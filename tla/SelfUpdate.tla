------------------------------ MODULE SelfUpdate ------------------------------
(***************************************************************************)
(* The update command (internal/plugins/core) and the updater behind it    *)
(* (internal/selfupdate): a release is downloaded, verified and put in     *)
(* place of the running executable, whose copy is kept as                  *)
(* telebox.previous, and the host restarts itself.                         *)
(*                                                                         *)
(* Executables are named by their versions, Damaged is one whose checksum  *)
(* is not that of the release.  These are the steps while the host runs;   *)
(* HostRestart adds how it ends and starts.                                *)
(***************************************************************************)
EXTENDS Naturals

CONSTANTS
  Workers,     \* the workers that may run the update command
  MaxVersion,  \* versions are 1..MaxVersion
  UpdateFaults \* what may go wrong: "download", "damaged", "copy", "replace"

Versions == 1..MaxVersion
Damaged == 0

ASSUME UpdateAssumption ==
  /\ "nobody" \notin Workers
  /\ MaxVersion \in Nat \ {0}
  /\ UpdateFaults \subseteq {"download", "damaged", "copy", "replace"}

VARIABLES
  running,     \* the version in memory
  executable,  \* the version of the file at the executable's path
  previous,    \* the version of telebox.previous; Damaged: there is none yet
  latest,      \* the latest release
  restarting,  \* Plugin.restarting, and the timer that restarts the host
  lock,        \* who holds updateMu
  job,         \* the update command of each worker
  late         \* history: a command got the mutex after an update had succeeded

programs == <<executable, previous>>
updateVars == <<running, programs, latest, restarting, lock, job,
                late>>

NoJob == [pc |-> "idle", force |-> FALSE, version |-> Damaged, got |-> Damaged]
Nobody == "nobody"

UpdateInit ==
  /\ running = 1 /\ executable = 1 /\ previous = Damaged
  /\ latest = 1
  /\ restarting = FALSE
  /\ lock = Nobody
  /\ job = [w \in Workers |-> NoJob]
  /\ late = FALSE

On(w, pc) == job[w].pc = pc
To(w, pc) == job' = [job EXCEPT ![w].pc = pc]

\* The command ends and gives the mutex up.
Ends(w) ==
  /\ job' = [job EXCEPT ![w] = NoJob]
  /\ lock' = Nobody

Publish ==
  /\ latest < MaxVersion
  /\ latest' = latest + 1
  /\ UNCHANGED <<running, programs, restarting, lock, job, late>>

\* The flag is read before the mutex is tried.
Command(w, force) ==
  /\ On(w, "idle") /\ ~restarting
  /\ job' = [job EXCEPT ![w].pc = "lock", ![w].force = force]
  /\ UNCHANGED <<running, programs, latest, restarting, lock, late>>

TryLock(w) ==
  /\ On(w, "lock")
  /\ IF lock = Nobody
       THEN To(w, "check") /\ lock' = w
       ELSE job' = [job EXCEPT ![w] = NoJob] /\ UNCHANGED lock
  /\ late' = (late \/ restarting)
  /\ UNCHANGED <<running, programs, latest, restarting>>

\* The running version decides whether there is anything to do.
Check(w) ==
  /\ On(w, "check")
  /\ IF latest > running \/ job[w].force
       THEN /\ job' = [job EXCEPT ![w].pc = "download", ![w].version = latest]
            /\ UNCHANGED lock
       ELSE Ends(w)
  /\ UNCHANGED <<running, programs, latest, restarting, late>>

\* The package of that version arrives, or something else in its place.
Download(w) ==
  /\ On(w, "download")
  /\ \E v \in {job[w].version} \cup (IF "damaged" \in UpdateFaults THEN {Damaged} ELSE {}) :
       job' = [job EXCEPT ![w].pc = "verify", ![w].got = v]
  /\ UNCHANGED <<running, programs, latest, restarting, lock, late>>

\* Mutant: the checksum is not compared.
Trust(w) ==
  /\ On(w, "verify")
  /\ To(w, "copy")
  /\ UNCHANGED <<running, programs, latest, restarting, lock, late>>

\* The checksum is compared and the executable unpacked beside the old one.
Verify(w) ==
  /\ On(w, "verify") /\ job[w].got = job[w].version
  /\ To(w, "copy")
  /\ UNCHANGED <<running, programs, latest, restarting, lock, late>>

\* Mutant: the copy is taken after the replacement.
ReplaceFirst(w) ==
  /\ On(w, "copy")
  /\ executable' = job[w].got
  /\ To(w, "replace")
  /\ UNCHANGED <<running, previous, latest, restarting, lock, late>>

\* telebox.previous is replaced by a copy of what is at the executable's path.
Copy(w) ==
  /\ On(w, "copy")
  /\ previous' = executable
  /\ To(w, "replace")
  /\ UNCHANGED <<running, executable, latest, restarting, lock, late>>

\* A rename replaces the executable; the command then marks the restart, and a
\* timer of two seconds asks for it.
Replace(w) ==
  /\ On(w, "replace")
  /\ executable' = job[w].got
  /\ restarting' = TRUE
  /\ Ends(w)
  /\ UNCHANGED <<running, previous, latest, late>>

UpdateFails(w) ==
  /\ \/ On(w, "check") /\ "download" \in UpdateFaults
     \/ On(w, "download") /\ "download" \in UpdateFaults
     \/ On(w, "verify") /\ job[w].got # job[w].version
     \/ On(w, "copy") /\ "copy" \in UpdateFaults
     \/ On(w, "replace") /\ "replace" \in UpdateFaults
  /\ Ends(w)
  /\ UNCHANGED <<running, programs, latest, restarting, late>>

\* The host goes down, whoever asked for it, and commands with it.
Halts ==
  /\ restarting' = FALSE /\ lock' = Nobody
  /\ job' = [w \in Workers |-> NoJob]
  /\ UNCHANGED <<running, programs, latest, late>>

\* The program at the executable's path is started.
Begins ==
  /\ running' = executable
  /\ late' = FALSE
  /\ UNCHANGED <<programs, latest, restarting, lock, job>>

UpdateStep ==
  \/ \E w \in Workers :
       \/ \E force \in BOOLEAN : Command(w, force)
       \/ TryLock(w) \/ Check(w) \/ Download(w) \/ Verify(w) \/ Copy(w)
       \/ Replace(w) \/ UpdateFails(w)

-----------------------------------------------------------------------------
(* Properties.                                                             *)

\* What will be started is a release whose checksum was verified, whatever was
\* downloaded and wherever the update stopped (updater.go:169-205).
OnlyVerified == executable # Damaged

\* "The old version was saved as telebox.previous" (core.go:322): as long as the
\* program on disk is not the one that runs, the one that runs can be put
\* back.  The exception is a command that read Plugin.restarting before another
\* worker's update and takes the mutex after it (core.go:261-267): it copies the
\* program that has never run over the one that did.
WayBack == executable # running /\ ~late => previous = running

-----------------------------------------------------------------------------
(* The parts of the inductive invariant behind the two that are about the  *)
(* update alone; HostRestart has the rest.                                 *)

UpdateTypeOK ==
  /\ running \in Versions /\ executable \in Versions /\ latest \in Versions
  /\ previous \in Versions \cup {Damaged}
  /\ restarting \in BOOLEAN /\ late \in BOOLEAN
  /\ lock \in Workers \cup {Nobody}
  /\ job \in [Workers ->
       [pc : {"idle", "lock", "check", "download", "verify", "copy", "replace"},
        force : BOOLEAN, version : Versions \cup {Damaged},
        got : Versions \cup {Damaged}]]

\* The mutex is held from the check to the end; what is unpacked has the
\* version of the release.
Locked(w) == job[w].pc \in {"check", "download", "verify", "copy", "replace"}
UpdateInProgress ==
  \A w \in Workers :
    /\ Locked(w) => lock = w
    /\ job[w].pc \in {"download", "verify", "copy", "replace"} =>
         job[w].version # Damaged
    /\ job[w].pc \in {"copy", "replace"} => job[w].got = job[w].version
    /\ Locked(w) /\ restarting => late
    /\ job[w].pc = "replace" /\ ~late => previous = running
===============================================================================
