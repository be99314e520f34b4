--------------------------- MODULE MC_HostRestart ---------------------------
(* Instances of HostRestart: a standard and a full backup, two workers.    *)
EXTENDS HostRestart

CONSTANTS w1, w2

TwoWorkers == {w1, w2}
OneWorker == {w1}

Backups == {"standard", "full"}
BackupParts ==
  [a \in Backups |-> IF a = "full" THEN {"db", "plugins", "config"} ELSE {"db", "plugins"}]
=============================================================================
