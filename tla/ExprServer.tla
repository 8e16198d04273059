----------------------------- MODULE ExprServer -----------------------------
(* The expression server of pr_6/socetHost.cpp and its client                *)
(* socetClient.cpp: a parent that forks a child per client and leaves the    *)
(* zombies to a SIGCHLD handler, and children that put lines together from   *)
(* what recv returns and run one python3 per line.  Processes, connections   *)
(* and histories are those of BatchServer, from which it differs in how it   *)
(* reads, what it hands to python3 and how it reaps.                         *)
(*                                                                           *)
(* Three expressions of the user make one line, and a line may be longer     *)
(* than the buffer of recv: line k travels as two pieces, 2k-1, and 2k with  *)
(* the newline.                                                              *)
EXTENDS BatchServer

CONSTANT MaxMessages    \* bound: lines sent by each client, a function

ASSUME ExprServerAssumption == MaxMessages \in [Clients -> Nat]

VARIABLES
    program,       \* "batch" (pr_6/solution) or "line" (this one); never changes
    leftover,      \* pieces each child has received and not used
    taken,         \* history: pieces each child has handed to a python3
    python,        \* the python3 of each child
    waiting,       \* clients that wait for an answer
    answered,      \* clients with output of python3 to read
    sigchld,       \* SIGCHLD is pending in the parent
    handler        \* the parent is in reap_zombie

lines == <<leftover, taken>>
reply == <<waiting, answered>>
signals == <<sigchld, handler>>
only == <<lines, python, reply, signals>>   \* what BatchServer does not have
idle == <<parent, keys, expressions, pushed, given, peak>>   \* what it has not
allVars == <<vars, program, only>>

LineInit ==
    /\ Init /\ program \in {"batch", "line"}
    /\ leftover = [c \in Clients |-> <<>>] /\ taken = [c \in Clients |-> <<>>]
    /\ python = [c \in Clients |-> "none"]
    /\ waiting = {} /\ answered = {}
    /\ sigchld = FALSE /\ handler = FALSE

-----------------------------------------------------------------------------
(* The parent: run() and its signal handler, which interrupts it anywhere *)

AcceptLine ==
    /\ ~handler /\ backlog # <<>>
    /\ backlog' = Tail(backlog)
    /\ LET c == Head(backlog) IN
        \/ /\ child' = [child EXCEPT ![c] = "poll"]
           /\ UNCHANGED <<client, failures>>
        \/ /\ MayFail
           /\ child' = [child EXCEPT ![c] = "refused"]
           /\ client' = [client EXCEPT ![c] = "closed"]
    /\ UNCHANGED <<idle, wrote, wire, only>>

Deliver ==
    /\ sigchld /\ ~handler
    /\ sigchld' = FALSE /\ handler' = TRUE
    /\ UNCHANGED <<vars, lines, python, reply>>

(* Faulty variant: one waitpid for each signal, though signals merge. *)
ReapZombieOnce ==
    /\ handler /\ handler' = FALSE
    /\ \/ \E c \in Zombies : child' = [child EXCEPT ![c] = "reaped"]
       \/ Zombies = {} /\ UNCHANGED child
    /\ UNCHANGED <<idle, backlog, client, wrote, wire, failures, lines, python,
                   reply, sigchld>>

(* waitpid with WNOHANG until there is nothing to reap. *)
ReapZombie ==
    /\ handler
    /\ \/ /\ \E c \in Zombies : child' = [child EXCEPT ![c] = "reaped"]
          /\ UNCHANGED handler
       \/ Zombies = {} /\ handler' = FALSE /\ UNCHANGED child
    /\ UNCHANGED <<idle, backlog, client, wrote, wire, failures, lines, python,
                   reply, sigchld>>

Run == AcceptLine \/ Deliver \/ ReapZombie

-----------------------------------------------------------------------------
(* A child: handle_client *)

Whole(c) == {i \in DOMAIN leftover[c] : leftover[c][i] % 2 = 0}

(* Faulty variant: what is left of a line is not kept for the next recv. *)
RecvForgets(c) ==
    /\ child[c] = "poll"
    /\ \E k \in 1..Min({ReadRoom, Len(wire[c])}) :
         /\ wire' = [wire EXCEPT ![c] = SubSeq(@, k + 1, Len(@))]
         /\ leftover' = [leftover EXCEPT ![c] = SubSeq(wire[c], 1, k)]
    /\ child' = [child EXCEPT ![c] = "batch"]
    /\ UNCHANGED <<idle, backlog, client, wrote, failures, taken, python, reply,
                   signals>>

Recv(c) ==
    /\ child[c] = "poll"
    /\ \E k \in 1..Min({ReadRoom, Len(wire[c])}) :
         /\ wire' = [wire EXCEPT ![c] = SubSeq(@, k + 1, Len(@))]
         /\ leftover' = [leftover EXCEPT ![c] = @ \o SubSeq(wire[c], 1, k)]
    /\ child' = [child EXCEPT ![c] = "batch"]
    /\ UNCHANGED <<idle, backlog, client, wrote, failures, taken, python, reply,
                   signals>>

(* recv returns 0, or -1 after a client that left with answers unread.       *)
EndOfLines(c) ==
    /\ child[c] = "poll" /\ client[c] = "closed"
    /\ wire[c] = <<>> \/ taken[c] # <<>>
    /\ child' = [child EXCEPT ![c] = "close"]
    /\ UNCHANGED <<idle, backlog, client, wrote, wire, failures, only>>

NoLine(c) ==
    /\ child[c] = "batch" /\ Whole(c) = {}
    /\ child' = [child EXCEPT ![c] = "poll"]
    /\ UNCHANGED <<idle, backlog, client, wrote, wire, failures, only>>

(* _exit, or a signal; the parent gets SIGCHLD. *)
EndChild(c) ==
    /\ child' = [child EXCEPT ![c] = "exited"] /\ sigchld' = TRUE
    /\ UNCHANGED handler

(* The first line is taken out and given to a python3.  When fork fails, or  *)
(* python3 is gone before the line is written, the write to a pipe without a *)
(* reader kills the child, and leftover no longer matters.                   *)
RunPython(c) ==
    /\ child[c] = "batch" /\ Whole(c) # {}
    /\ LET end == Min(Whole(c)) IN
        \/ /\ leftover' = [leftover EXCEPT ![c] = SubSeq(@, end + 1, Len(@))]
           /\ taken' = [taken EXCEPT ![c] = @ \o SubSeq(leftover[c], 1, end)]
           /\ python' = [python EXCEPT ![c] = "runs"]
           /\ child' = [child EXCEPT ![c] = "wait"]
           /\ UNCHANGED <<failures, signals>>
        \/ MayFail /\ EndChild(c) /\ UNCHANGED <<lines, python>>
    /\ UNCHANGED <<idle, backlog, client, wrote, wire, reply>>

(* python3 prints to the socket, in one write or in several. *)
PythonPrints(c) ==
    /\ python[c] \in {"runs", "printed"}
    /\ python' = [python EXCEPT ![c] = "printed"]
    /\ answered' = answered \cup {c}
    /\ UNCHANGED <<vars, lines, waiting, signals>>

(* It ends when it has printed, or at once when exec failed.                 *)
PythonEnds(c) ==
    /\ \/ python[c] = "printed" /\ UNCHANGED failures
       \/ python[c] = "runs" /\ MayFail
    /\ python' = [python EXCEPT ![c] = "zombie"]
    /\ UNCHANGED <<idle, backlog, child, client, wrote, wire, lines, reply,
                   signals>>

(* The child has inherited reap_zombie, which may be faster than waitpid.    *)
HandlerReaps(c) ==
    /\ child[c] = "wait" /\ python[c] = "zombie"
    /\ python' = [python EXCEPT ![c] = "none"]
    /\ UNCHANGED <<vars, lines, reply, signals>>

(* Faulty variant: a waitpid that insists on a python3 to reap. *)
WaitPythonInsists(c) ==
    /\ child[c] = "wait" /\ python[c] = "zombie"
    /\ python' = [python EXCEPT ![c] = "none"]
    /\ child' = [child EXCEPT ![c] = "batch"]
    /\ UNCHANGED <<idle, backlog, client, wrote, wire, failures, lines, reply,
                   signals>>

(* waitpid reaps it, or fails with ECHILD: the child goes on either way.     *)
WaitPython(c) ==
    /\ child[c] = "wait" /\ python[c] \in {"zombie", "none"}
    /\ python' = [python EXCEPT ![c] = "none"]
    /\ child' = [child EXCEPT ![c] = "batch"]
    /\ UNCHANGED <<idle, backlog, client, wrote, wire, failures, lines, reply,
                   signals>>

CloseLine(c) ==
    /\ child[c] = "close" /\ EndChild(c)
    /\ UNCHANGED <<idle, backlog, client, wrote, wire, failures, lines, python,
                   reply>>

LineChild(c) ==
    \/ Recv(c) \/ EndOfLines(c) \/ NoLine(c) \/ RunPython(c) \/ PythonPrints(c)
    \/ PythonEnds(c) \/ HandlerReaps(c) \/ WaitPython(c) \/ CloseLine(c)

-----------------------------------------------------------------------------
(* The clients: socetClient.cpp *)

(* Three expressions are sent as one line; the next waits for an answer.     *)
SendMessage(c) ==
    /\ client[c] = "open" /\ c \notin waiting /\ wrote[c] < MaxMessages[c]
    /\ wrote' = [wrote EXCEPT ![c] = @ + 1]
    /\ wire' = [wire EXCEPT ![c] = @ \o <<2 * wrote[c] + 1, 2 * wrote[c] + 2>>]
    /\ waiting' = waiting \cup {c}
    /\ UNCHANGED <<idle, backlog, child, client, failures, lines, python,
                   answered, signals>>

(* One recv takes all that has arrived, be it half of an answer.             *)
ReceiveMessage(c) ==
    /\ client[c] = "open" /\ c \in waiting \cap answered
    /\ answered' = answered \ {c}
    /\ waiting' = waiting \ {c}
    /\ UNCHANGED <<vars, lines, python, signals>>

LineUser ==
    \E c \in Clients :
        \/ SendMessage(c) \/ ReceiveMessage(c)
        \/ (Connect(c) \/ Leave(c)) /\ UNCHANGED only

(* The steps of the program that is run. *)
Batch(A) == program = "batch" /\ A /\ UNCHANGED <<program, only>>
Line(A) == program = "line" /\ A /\ UNCHANGED program

LineNext ==
    \/ Batch(Next)
    \/ Line(Run) \/ (\E c \in Clients : Line(LineChild(c))) \/ Line(LineUser)

(* As in BatchServer: the servers run, their children run, python3 ends.     *)
LineSpec ==
    /\ LineInit /\ [][LineNext]_allVars
    /\ WF_allVars(Batch(Parent) \/ Line(Run))
    /\ \A c \in Clients : WF_allVars(Batch(Child(c)) \/ Line(LineChild(c)))

-----------------------------------------------------------------------------
(* Properties *)

(* Whatever recv makes of the stream, pieces of a line or several lines, and *)
(* however far the client is ahead of the answers: python3 is given whole    *)
(* lines, each once and in order, and what was not given is still there.     *)
(* (pr_6/solution skips lines; it collects none twice or out of order.)      *)
LinesInOrder ==
    IF program = "batch" THEN PushedInOrder
    ELSE \A c \in Clients :
           /\ taken[c] \o leftover[c] \o wire[c] = [i \in 1..(2 * wrote[c]) |-> i]
           /\ Len(taken[c]) % 2 = 0

(* SIGCHLD of several children may arrive as one signal: a zombie remains    *)
(* only while the handler is still to run.                                   *)
(* (pr_6/solution: one waitpid for each fork bounds them.)                   *)
NoZombieStays ==
    IF program = "batch" THEN ZombiesBounded
    ELSE Zombies # {} => sigchld \/ handler
=============================================================================
