--------------------------- MODULE MCPluginBridge ---------------------------
(* PluginBridge instantiated for TLC. *)
EXTENDS PluginBridge

CONSTANTS h1, h2, h3, p1, p2

\* Two hovers share a plugin, the third has one of its own.
TwoPlugins == [h \in Hovers |-> IF h = h3 THEN p2 ELSE p1]
=============================================================================
