--------------------------- MODULE MCChatThreads ---------------------------
(* Small instances of ChatThreads for TLC, with two slots.  Clients come and  *)
(* go as they like: in pr_7 two that both leave and one of whom writes, in   *)
(* the game three, of whom one leaves.  Those of the calm instances do it    *)
(* while the server rests: the console of pr_7 writes, and for BoardShown    *)
(* three players move at any time.                                           *)
EXTENDS ChatThreads, TLC

CONSTANTS h1, h2, h3

All == {h1, h2, h3}
MCVisitors ==
    ("pr_7" :> (TRUE :> {h1, h2} @@ FALSE :> {h1, h2}))
    @@ ("pr_7_1" :> (TRUE :> All @@ FALSE :> All))
MCLeavers ==
    ("pr_7" :> (TRUE :> {h1, h2} @@ FALSE :> {h1, h2}))
    @@ ("pr_7_1" :> (TRUE :> All @@ FALSE :> {h1}))
Messages(of) == [t \in Threads |-> IF t \in DOMAIN of THEN of[t] ELSE 0]
MCMaxMessages ==
    ("pr_7" :> (TRUE :> Messages(Console :> 1) @@ FALSE :> Messages(h1 :> 1)))
    @@ ("pr_7_1" :> (TRUE :> Messages(h1 :> 2 @@ h2 :> 1) @@ FALSE :> Messages(<<>>)))

MCAddVisitors == "pr_7" :> (FALSE :> {h1, h2})
MCAddMaxMessages == "pr_7" :> (FALSE :> Messages(<<>>))
=============================================================================
