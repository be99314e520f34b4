--------------------------- MODULE MC_PluginProcess ---------------------------
(* Instances of PluginProcess: one or two workers and the registry.        *)
EXTENDS PluginProcess, TLC

CONSTANTS w1, w2

Workers == {w1, w2}
OneWorker == {w1}

\* Workers run the same code.
Symmetry == Permutations(Workers)
===============================================================================
