---------------------------- MODULE BatchServer ----------------------------
(* The expression server of pr_6/solution: a parent that polls its keyboard  *)
(* and its listening socket and forks a child per client, children that      *)
(* collect expressions and hand them to a python3 in batches of three, and   *)
(* the client program.                                                       *)
(*                                                                           *)
(* The k-th line a client writes is the number k, the command "close" is 0.  *)
(* One read returns any number of waiting lines, TCP keeps no boundaries.    *)
EXTENDS Naturals, SequencesExt

CONSTANTS
    Clients,       \* clients, each connecting once
    MaxLines,      \* bound: lines written by each client, a function
    ReadRoom,      \* lines that fit in one read of 255 bytes
    MaxFailures,   \* bound: calls of fork and pipe that fail
    Keyboard       \* what is typed at the server, from {"quit", "other"}

ASSUME BatchServerAssumption ==
    /\ IsFiniteSet(Clients) /\ MaxLines \in [Clients -> Nat]
    /\ ReadRoom \in Nat \ {0}
    /\ MaxFailures \in Nat /\ Keyboard \subseteq {"quit", "other"}

CloseCommand == 0
BatchSize == 3

VARIABLES
    pc, revents,      \* the parent: where it is, what poll reported
    typed, unread,    \* what was typed at the server, and not read yet
    backlog,          \* connections not accepted yet, oldest first
    child,            \* where each child is
    expressions,      \* the lines each child has collected
    client, wrote,    \* the clients: state, lines written
    wire,             \* lines on their way to each child
    failures,         \* calls that failed so far
    pushed, given,    \* history: lines collected, lines given to a python3
    peak              \* history: most children that ever ran at once

parent == <<pc, revents>>
keys == <<typed, unread>>
users == <<client, wrote>>
vars == <<parent, keys, backlog, child, expressions, users, wire, failures,
          pushed, given, peak>>

Init ==
    /\ pc = "poll" /\ revents = {}
    /\ typed = {} /\ unread = {}
    /\ backlog = <<>>
    /\ child = [c \in Clients |-> "none"]
    /\ expressions = [c \in Clients |-> <<>>]
    /\ client = [c \in Clients |-> "start"]
    /\ wrote = [c \in Clients |-> 0]
    /\ wire = [c \in Clients |-> <<>>]
    /\ failures = 0
    /\ pushed = [c \in Clients |-> <<>>] /\ given = [c \in Clients |-> <<>>]
    /\ peak = 0

Alive == {c \in Clients : child[c] \in {"poll", "batch", "wait", "close"}}
Zombies == {c \in Clients : child[c] = "exited"}
MayFail == failures < MaxFailures /\ failures' = failures + 1

-----------------------------------------------------------------------------
(* The parent: the loop of main() *)

(* poll without a time limit. *)
Poll ==
    /\ pc = "poll"
    /\ revents' = {e \in {"stdin", "listen"} :
                     \/ e = "stdin" /\ unread # {}
                     \/ e = "listen" /\ backlog # <<>>}
    /\ revents' # {}
    /\ pc' = "stdin"
    /\ UNCHANGED <<keys, backlog, child, expressions, users, wire, failures,
                   pushed, given, peak>>

(* "quit" ends the parent.  With it go the listening socket, with every      *)
(* connection still in the backlog, and the zombies, which init reaps.       *)
Quit ==
    /\ pc = "stdin" /\ "stdin" \in revents /\ "quit" \in unread
    /\ unread' = unread \ {"quit"}
    /\ pc' = "done"
    /\ client' = [c \in Clients |->
                    IF c \in ToSet(backlog) THEN "closed" ELSE client[c]]
    /\ backlog' = <<>>
    /\ child' = [c \in Clients |-> IF c \in Zombies THEN "reaped" ELSE child[c]]
    /\ UNCHANGED <<revents, typed, expressions, wrote, wire, failures,
                   pushed, given, peak>>

ReadStdin ==
    /\ pc = "stdin"
    /\ \/ /\ "stdin" \in revents /\ "other" \in unread
          /\ unread' = unread \ {"other"}
       \/ "stdin" \notin revents /\ UNCHANGED unread
    /\ pc' = IF "listen" \in revents THEN "accept" ELSE "poll"
    /\ UNCHANGED <<revents, typed, backlog, child, expressions, users, wire,
                   failures, pushed, given, peak>>

(* accept and fork. *)
Accept ==
    /\ pc = "accept"
    /\ LET c == Head(backlog) IN
        \/ /\ child' = [child EXCEPT ![c] = "poll"]
           /\ peak' = Max({peak, Cardinality(Alive) + 1})
           /\ pc' = "waitpid"
           /\ UNCHANGED <<failures, client>>
        \/ /\ MayFail
           /\ child' = [child EXCEPT ![c] = "refused"]
           /\ client' = [client EXCEPT ![c] = "closed"]
           /\ pc' = "poll"
           /\ UNCHANGED peak
    /\ backlog' = Tail(backlog)
    /\ UNCHANGED <<revents, keys, expressions, wrote, wire, pushed, given>>

(* Faulty variant: the parent never calls waitpid. *)
WaitpidMissing ==
    /\ pc = "waitpid"
    /\ pc' = "poll"
    /\ UNCHANGED <<revents, keys, backlog, child, expressions, users, wire,
                   failures, pushed, given, peak>>

(* One waitpid(-1, NULL, WNOHANG) for each child that was forked. *)
Waitpid ==
    /\ pc = "waitpid"
    /\ \/ \E c \in Zombies : child' = [child EXCEPT ![c] = "reaped"]
       \/ Zombies = {} /\ UNCHANGED child
    /\ pc' = "poll"
    /\ UNCHANGED <<revents, keys, backlog, expressions, users, wire, failures,
                   pushed, given, peak>>

Parent == Poll \/ Quit \/ ReadStdin \/ Accept \/ Waitpid

-----------------------------------------------------------------------------
(* A child: handle_client and process_batch *)

(* Faulty variant: a read that takes the line but leaves it to be read       *)
(* again.                                                                    *)
ReadPeek(c) ==
    /\ child[c] = "poll" /\ wire[c] # <<>> /\ Head(wire[c]) # CloseCommand
    /\ expressions' = [expressions EXCEPT ![c] = Append(@, Head(wire[c]))]
    /\ pushed' = [pushed EXCEPT ![c] = Append(@, Head(wire[c]))]
    /\ child' = [child EXCEPT ![c] =
                    IF Len(expressions'[c]) >= BatchSize THEN "batch" ELSE @]
    /\ UNCHANGED <<parent, keys, backlog, users, wire, failures, given, peak>>

(* One read; only the text up to its first newline is looked at. *)
Read(c) ==
    /\ child[c] = "poll" /\ wire[c] # <<>>
    /\ \E k \in 1..Min({ReadRoom, Len(wire[c])}) :
          wire' = [wire EXCEPT ![c] = SubSeq(@, k + 1, Len(@))]
    /\ LET line == Head(wire[c])
           longer == Append(expressions[c], line)
       IN IF line = CloseCommand
          THEN /\ child' = [child EXCEPT ![c] = "close"]
               /\ UNCHANGED <<expressions, pushed>>
          ELSE /\ expressions' = [expressions EXCEPT ![c] = longer]
               /\ pushed' = [pushed EXCEPT ![c] = Append(@, line)]
               /\ child' = [child EXCEPT ![c] =
                              IF Len(longer) >= BatchSize THEN "batch" ELSE @]
    /\ UNCHANGED <<parent, keys, backlog, users, failures, given, peak>>

(* Faulty variant: the end of the stream is read and ignored. *)
EndOfStreamIgnored(c) ==
    /\ child[c] = "poll" /\ wire[c] = <<>> /\ client[c] = "closed"
    /\ UNCHANGED vars

(* read returns 0, or fails: a client that closed with answers unread resets *)
(* the connection, and lines under way are dropped.                          *)
EndOfStream(c) ==
    /\ child[c] = "poll" /\ client[c] = "closed"
    /\ wire[c] = <<>> \/ given[c] # <<>>
    /\ child' = [child EXCEPT ![c] = "close"]
    /\ UNCHANGED <<parent, keys, backlog, expressions, users, wire, failures,
                   pushed, given, peak>>

(* Faulty variant: the expressions are cleared when a call fails, too. *)
StartPythonClears(c) ==
    /\ child[c] = "batch"
    /\ \/ /\ given' = [given EXCEPT ![c] = @ \o expressions[c]]
          /\ child' = [child EXCEPT ![c] = "wait"]
          /\ UNCHANGED <<failures, expressions>>
       \/ /\ MayFail
          /\ child' = [child EXCEPT ![c] = "poll"]
          /\ expressions' = [expressions EXCEPT ![c] = <<>>]
          /\ UNCHANGED given
    /\ UNCHANGED <<parent, keys, backlog, users, wire, pushed, peak>>

(* The child ends; without a parent it is reaped by init at once.            *)
ExitChild(c) ==
    child' = [child EXCEPT ![c] = IF pc = "done" THEN "reaped" ELSE "exited"]

(* pipe, fork, and the script written to the pipe; when one of the calls     *)
(* fails the expressions stay for the next attempt.  When exec fails and the *)
(* script comes too late, the write to a pipe without a reader kills the     *)
(* child.                                                                    *)
StartPython(c) ==
    /\ child[c] = "batch"
    /\ \/ /\ given' = [given EXCEPT ![c] = @ \o expressions[c]]
          /\ child' = [child EXCEPT ![c] = "wait"]
          /\ UNCHANGED failures
       \/ /\ MayFail
          /\ child' = [child EXCEPT ![c] = "poll"]
          /\ UNCHANGED given
       \/ MayFail /\ ExitChild(c) /\ UNCHANGED given
    /\ UNCHANGED <<parent, keys, backlog, expressions, users, wire, pushed, peak>>

(* python3 has ended: waitpid returns and the expressions are cleared. *)
EndPython(c) ==
    /\ child[c] = "wait"
    /\ expressions' = [expressions EXCEPT ![c] = <<>>]
    /\ child' = [child EXCEPT ![c] = "poll"]
    /\ UNCHANGED <<parent, keys, backlog, users, wire, failures, pushed, given,
                   peak>>

(* close and exit. *)
Close(c) ==
    /\ child[c] = "close" /\ ExitChild(c)
    /\ UNCHANGED <<parent, keys, backlog, expressions, users, wire, failures,
                   pushed, given, peak>>

Child(c) ==
    Read(c) \/ EndOfStream(c) \/ StartPython(c) \/ EndPython(c) \/ Close(c)

-----------------------------------------------------------------------------
(* The clients (pr_6/solution/socket_cl.cpp) and the server's keyboard *)

Connect(c) ==
    /\ client[c] = "start" /\ pc # "done"
    /\ client' = [client EXCEPT ![c] = "open"]
    /\ backlog' = Append(backlog, c)
    /\ UNCHANGED <<parent, keys, child, expressions, wrote, wire, failures,
                   pushed, given, peak>>

(* A line typed by the user, or made up after five idle seconds. *)
WriteLine(c) ==
    /\ client[c] = "open" /\ wrote[c] < MaxLines[c]
    /\ wrote' = [wrote EXCEPT ![c] = @ + 1]
    /\ wire' = [wire EXCEPT ![c] = Append(@, wrote[c] + 1)]
    /\ UNCHANGED <<parent, keys, backlog, child, expressions, client, failures,
                   pushed, given, peak>>

(* The user typed "close": it is sent, then the client leaves. *)
WriteClose(c) ==
    /\ client[c] = "open"
    /\ wire' = [wire EXCEPT ![c] = Append(@, CloseCommand)]
    /\ client' = [client EXCEPT ![c] = "closed"]
    /\ UNCHANGED <<parent, keys, backlog, child, expressions, wrote, failures,
                   pushed, given, peak>>

(* The end of the user's input, or of the connection. *)
Leave(c) ==
    /\ client[c] = "open"
    /\ client' = [client EXCEPT ![c] = "closed"]
    /\ UNCHANGED <<parent, keys, backlog, child, expressions, wrote, wire,
                   failures, pushed, given, peak>>

TypeAtServer(what) ==
    /\ what \in Keyboard \ typed /\ unread = {} /\ pc # "done"
    /\ typed' = typed \cup {what} /\ unread' = unread \cup {what}
    /\ UNCHANGED <<parent, backlog, child, expressions, users, wire, failures,
                   pushed, given, peak>>

User ==
    \/ \E c \in Clients : Connect(c) \/ WriteLine(c) \/ WriteClose(c) \/ Leave(c)
    \/ \E what \in Keyboard : TypeAtServer(what)

Next == Parent \/ (\E c \in Clients : Child(c)) \/ User

Spec == Init /\ [][Next]_vars

(* The processes of the server run, and every python3 ends. *)
LiveSpec == Spec /\ WF_vars(Parent) /\ \A c \in Clients : WF_vars(Child(c))

-----------------------------------------------------------------------------
(* Properties *)

(* Every line a child collected is given to a python3 once, or still waits,  *)
(* in the order in which it was sent, however often pipe or fork failed in   *)
(* between.                                                                  *)
GivenOnce ==
    \A c \in Clients :
        pushed[c] = IF child[c] = "wait" THEN given[c]
                    ELSE given[c] \o expressions[c]

(* Reads that return several lines make the child skip some; they never make *)
(* it collect one twice or out of order.                                     *)
PushedInOrder ==
    \A c \in Clients :
        \A i, j \in DOMAIN pushed[c] : i < j => pushed[c][i] < pushed[c][j]

(* One waitpid for each fork is enough to keep the zombies from piling up:   *)
(* children that run and children that are not reaped never outnumber the    *)
(* most that ever ran at once, but for the one just forked.                  *)
ZombiesBounded ==
    Cardinality(Alive \cup Zombies) <=
        peak + (IF pc = "waitpid" /\ Zombies # {} THEN 1 ELSE 0)

(* The child of a client that has left comes to its end, with or without a   *)
(* parent.                                                                   *)
ChildEnds ==
    \A c \in Clients :
        (client[c] = "closed" /\ child[c] # "none")
            ~> (child[c] \in {"exited", "reaped", "refused"})
=============================================================================
