---------------------------- MODULE MC_Speedlink ----------------------------
(* Instances of Speedlink: what lies in the plugin's directory, backups of *)
(* other installations, a predecessor, and all commands that change the    *)
(* list.                                                                   *)
EXTENDS Speedlink

Bare(kinds) == {[kind |-> k] : k \in kinds}
AddOf(name, host, method) == [kind |-> "add", name |-> name, host |-> host, method |-> method]
Names2(names) == {[kind |-> "rename", index |-> i, name |-> n] : i \in {1, 2}, n \in names}
Dels == {[kind |-> "del", index |-> i] : i \in {1, 2}}
Timeouts == {[kind |-> "timeout", seconds |-> n] : n \in {10, 600}}
Foreign == <<Server("x", "h1", "password", 7, 1)>>
Exported == <<Server("y", "h2", "key", 0, 1), Server("z", "h1", "key", 0, 2)>>
Old == <<[name |-> "o", host |-> "h1", method |-> "password"], [name |-> "p", host |-> "h2", method |-> "key"]>>
SlWorldOf(legacy, documents, t, system, commands) ==
  [legacy |-> legacy, documents |-> documents, tool |-> t, system |-> system, commands |-> commands]
Nothing == Managed(NoTool, NoTool)
AllSl == {
  SlWorldOf(<<>>, {}, Managed("stray", "speedtest"), FALSE, Bare({"local"}) \cup Timeouts),
  SlWorldOf(<<>>, {}, Managed("stray", NoTool), TRUE, Bare({"local"})),
  SlWorldOf(<<>>, {Foreign, Exported}, Nothing, FALSE, Bare({"restore", "all", "backup"}) \cup Dels),
  SlWorldOf(Old, {}, Nothing, FALSE, Bare({"all"}) \cup Dels \cup {AddOf("a", "h1", "password")}),
  SlWorldOf(<<>>, {}, Nothing, FALSE, Bare({"all", "backup", "restore"}) \cup Dels \cup Names2({"a", "b"})
                                        \cup {AddOf("a", "h1", "password"), AddOf("b", "h2", "key")})}
=============================================================================
