---------------------------- MODULE MCToolServer ----------------------------
(* Two clients, one of which sends names to the hash server.                 *)
EXTENDS ToolServer, TLC

CONSTANTS c1, c2

MCNames == (c1 :> 2) @@ (c2 :> 0)
MCNoNames == c1 :> 0
=============================================================================
