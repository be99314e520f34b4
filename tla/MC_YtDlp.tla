------------------------------ MODULE MC_YtDlp ------------------------------
(* Instances of YtDlp: two workers that install, look for and remove the  *)
(* program, with files of others in its places or none, and the settings. *)
EXTENDS YtDlp

Of(kinds) == {[kind |-> k] : k \in kinds}
YtSet(key, value) == [kind |-> "set", key |-> key, value |-> value]
YtWorldOf(workers, t, s, system, commands) ==
  [workers |-> workers, slots |-> 1, tool |-> t, spare |-> s, system |-> system,
   legacy |-> [api_key |-> "old", model |-> "m"], commands |-> commands]
YtReleases == <<"r1", "r2", "r3">>
AllYt == {
  YtWorldOf(2, Managed(NoTool, NoTool), NoTool, FALSE, Of({"setup", "doctor", "download"})),
  YtWorldOf(2, Managed("stray", "r1"), "other stray", FALSE, Of({"setup", "doctor", "binary"})),
  YtWorldOf(2, Managed("r1", "r1"), NoTool, FALSE, Of({"download", "clear", "update"})),
  YtWorldOf(2, Managed("stray", NoTool), "other stray", TRUE,
            Of({"download", "clear"}) \cup {YtSet("binary", "chosen"), YtSet("api_key", "new"), YtSet("api_key", ""),
             YtSet("cookies", "file")})}
=============================================================================
