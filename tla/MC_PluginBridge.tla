-------------------------- MODULE MC_PluginBridge --------------------------
(* Instances of PluginBridge: a plugin with tools that overlap, one with   *)
(* files, and one that is granted all but one method.                      *)
EXTENDS PluginBridge

FileOps == {Op("send_file", TRUE, FALSE), Op("send_file", TRUE, TRUE), Op("download_media", TRUE, FALSE)}
ToolOps == {Op("tool.run", TRUE, FALSE), Op("tool.run", FALSE, FALSE), Op("storage.get", TRUE, FALSE)}
BridgeWorld(granted, tools, stored, may) ==
  [granted |-> granted, tools |-> tools, storage |-> stored, network |-> TRUE, may |-> may]
AllBridges == {
  BridgeWorld({"*"}, {"own"}, FALSE, <<ToolOps, {}>>),
  BridgeWorld({"*"}, {"own"}, TRUE, <<FileOps, FileOps>>),
  BridgeWorld(ProxyMethods \ {"send_text"}, {}, TRUE, <<{Op(m, TRUE, FALSE) : m \in ProxyMethods}, {}>>)}
=============================================================================
