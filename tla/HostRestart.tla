----------------------------- MODULE HostRestart -----------------------------
(***************************************************************************)
(* The life of the host process (cmd/telebox main, systemd): restores and  *)
(* updates of the program are prepared while it runs and take effect when   *)
(* it starts again, after a restart either of them asked for or a crash.   *)
(*                                                                         *)
(* The two touch no file in common, so a behaviour need not have both.     *)
(***************************************************************************)
EXTENDS CoreRestore, SelfUpdate

CONSTANT Uses   \* the sets of commands, of "restore" and "update", that are used

ASSUME UsesAssumption == Uses \subseteq SUBSET {"restore", "update"}

VARIABLE uses   \* the commands used in this behaviour

restoreVars == <<files, cmd, boot, history>>
hostVars == <<life, restoreVars, updateVars, uses>>

HostInit == Init /\ UpdateInit /\ uses \in Uses

\* The program at the executable's path is started (main, before ApplyPending).
StartProgram == Start /\ Begins

\* The host ends, and the update command with it.
EndProgram == (Stops \/ Crash) /\ Halts

HostStep ==
  \/ "restore" \in uses /\ Running /\ UNCHANGED updateVars
  \/ "update" \in uses /\ life = "up" /\ UpdateStep
       /\ UNCHANGED <<life, restoreVars>>
  \/ "update" \in uses /\ Publish /\ UNCHANGED <<life, restoreVars>>
  \/ StartProgram
  \/ (Applying \/ Open) /\ UNCHANGED updateVars
  \/ EndProgram

HostNext == HostStep /\ UNCHANGED uses

HostSpec == HostInit /\ [][HostNext]_hostVars

-----------------------------------------------------------------------------
(* The inductive invariant behind OnlyVerified and WayBack.                *)

\* Updates end with the host, and only an update that has succeeded sets the
\* program on disk apart from the one that runs.
UpdateInv ==
  /\ UpdateTypeOK /\ UpdateInProgress /\ WayBack
  /\ life \in {"up", "down", "starting"}
  /\ life # "up" => ~restarting /\ job = [w \in Workers |-> NoJob]
  /\ life = "starting" => running = executable
  /\ life = "up" /\ executable # running => restarting
=============================================================================
