---------------------------- MODULE MCPluginProc ----------------------------
(* PluginProc instantiated for TLC; the cfg gives all its constants. *)
EXTENDS PluginProc
=============================================================================
