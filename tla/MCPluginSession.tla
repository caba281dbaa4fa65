-------------------------- MODULE MCPluginSession --------------------------
(* Small instances of PluginSession. *)
EXTENDS PluginSession

CONSTANTS r1, r2, h1, h2, b1, b2

=============================================================================
