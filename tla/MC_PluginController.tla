------------------------- MODULE MC_PluginController -------------------------
(* Instances of PluginController.  One plugin shows everything: operations   *)
(* and reload treat plugins one at a time and alike.                         *)
EXTENDS PluginController

CONSTANT p1

OnePlugin == {p1}
===============================================================================
