---------------------------- MODULE BoundedFIFO ----------------------------
(* What a bounded buffer promises to the processes that share it: one queue *)
(* of at most Capacity lines, from which lines leave in the order in which  *)
(* they entered, each of them once.  SemBuffer (pr_9) is shown to implement *)
(* it.                                                                      *)
EXTENDS Naturals, Sequences

CONSTANTS
    Handlers,   \* the processes or threads that use the buffer
    Line,       \* the lines that can be put in it
    NoLine,     \* "holds no line", not a member of Line
    Capacity    \* the number of slots

VARIABLES
    queue,      \* the lines in the buffer, oldest first
    hand        \* hand[h]: the line handler h is carrying, or NoLine

vars == <<queue, hand>>

Init == queue = <<>> /\ hand = [h \in Handlers |-> NoLine]

(* A handler comes by a line from outside (a client sent it). *)
PickUp(h) ==
    /\ hand[h] = NoLine
    /\ \E l \in Line : hand' = [hand EXCEPT ![h] = l]
    /\ UNCHANGED queue

(* The line it carries enters the buffer. *)
Put(h) ==
    /\ hand[h] # NoLine
    /\ Len(queue) < Capacity
    /\ queue' = Append(queue, hand[h])
    /\ hand' = [hand EXCEPT ![h] = NoLine]

(* It takes the oldest line. *)
Get(h) ==
    /\ hand[h] = NoLine
    /\ queue # <<>>
    /\ hand' = [hand EXCEPT ![h] = Head(queue)]
    /\ queue' = Tail(queue)

(* It parts with a line outside the buffer (a client received it). *)
PutDown(h) ==
    /\ hand[h] # NoLine
    /\ hand' = [hand EXCEPT ![h] = NoLine]
    /\ UNCHANGED queue

Next == \E h \in Handlers : PickUp(h) \/ Put(h) \/ Get(h) \/ PutDown(h)

Spec == Init /\ [][Next]_vars
=============================================================================
