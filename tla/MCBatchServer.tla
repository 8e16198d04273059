--------------------------- MODULE MCBatchServer ---------------------------
(* Two clients of either expression server, one of which sends lines.      *)
EXTENDS ExprServer, TLC

CONSTANTS c1, c2

MCMaxLines == (c1 :> 4) @@ (c2 :> 0)
MCMaxMessages == (c1 :> 3) @@ (c2 :> 0)
=============================================================================
