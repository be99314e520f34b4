---------------------------- MODULE MC_PluginRpc ----------------------------
(* Instances of PluginRpc for TLC: a command call c1 whose handler in the   *)
(* plugin calls back into the host (n1), and a listener call c2 beside it.  *)
EXTENDS PluginRpc

CONSTANTS c1, c2, n1, none

MCCalls == {c1, c2, n1}
NestedCalls == {c1, n1}
HostCalls == {c1, c2}

\* The caller and the parent of the calls of set C.
MCCaller == [c \in Calls |-> IF c = n1 THEN "plugin" ELSE "host"]
MCParent == [c \in Calls |-> IF c = n1 THEN c1 ELSE none]
=============================================================================
