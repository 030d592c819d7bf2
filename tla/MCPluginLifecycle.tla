------------------------- MODULE MCPluginLifecycle --------------------------
(***************************************************************************)
(* PluginLifecycle for TLC.  One plugin with a command of each kind and    *)
(* every thread is where load, unload and calls interleave most.           *)
(***************************************************************************)
EXTENDS PluginLifecycle

CONSTANTS p1, plain, guarded, interactive

OnePlugin == [p \in Plugins |-> Commands]
=============================================================================
