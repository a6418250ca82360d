------------------------- MODULE MCPluginCallbacks -------------------------
(* Instances of PluginCallbacks for TLC.                                   *)
EXTENDS PluginCallbacks

\* Two reconciliations at a time, for the pong of an older one; in node-sea one.
Barriers == [r \in Runtimes |-> IF r = "electron-utility" THEN 2 ELSE 1]
=============================================================================
