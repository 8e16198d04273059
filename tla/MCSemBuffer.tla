---------------------------- MODULE MCSemBuffer ----------------------------
(* A small instance of both servers for TLC: program chooses whose steps the *)
(* clients meet, those of SemBuffer (pr_9) or of ThreadBuffer (pr_8).  No    *)
(* symmetry, since temporal properties are checked.                          *)
EXTENDS ThreadBuffer

CONSTANTS p1, c1, c2

VARIABLE program

MCBlank == {<<p1, 2>>}

MCInit == Init /\ program \in {"pr_8", "pr_9"}

Child(h) == program = "pr_9" /\ HandleClient(h) /\ UNCHANGED program
Thread(h) == program = "pr_8" /\ client_handler(h) /\ UNCHANGED program

MCNext ==
    \E h \in Handlers :
        \/ Child(h) \/ Thread(h)
        \/ ClientClose(h) /\ UNCHANGED program
        \/ program = "pr_9" /\ Kill(h) /\ UNCHANGED program

(* Every child, and every thread, that can take a step is scheduled. *)
MCSpec ==
    /\ MCInit /\ [][MCNext]_<<vars, program>>
    /\ \A h \in Handlers : WF_<<vars, program>>(Child(h) \/ Thread(h))
=============================================================================
