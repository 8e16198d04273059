---------------------------- MODULE MCFileWatch ----------------------------
(* Writers that only append and remove, at any moment of a round, and calm   *)
(* writers that do everything.                                               *)
EXTENDS FileWatch

MCHabits ==
    {[does |-> {"append", "remove"}, calm |-> FALSE],
     [does |-> Changes, calm |-> TRUE]}
=============================================================================
