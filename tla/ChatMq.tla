------------------------------- MODULE ChatMq -------------------------------
(* The chat of pr_10: a parent that accepts, forks one child per client and  *)
(* broadcasts, children that turn what their client sends into messages of a *)
(* POSIX message queue, and clients that are two processes (one reads the    *)
(* keyboard, one reads the socket).                                          *)
(*                                                                           *)
(* What a client types is a stream of tokens: <<c, 0>> is its nick and       *)
(* <<c, i>> its i-th line.  Nothing separates them on the wire, so one recv  *)
(* may return several: a text is a sequence of tokens.  The child of client  *)
(* c is called c too; that is the pid under which the parent knows it.       *)
EXTENDS Naturals, Sequences, FiniteSets

CONSTANTS
    Clients,    \* the clients, each connecting once
    MaxLines,   \* bound: lines typed by each client
    MaxMsg,     \* attr.mq_maxmsg
    Killable    \* clients that may be killed (both processes)

ASSUME ChatMqAssumption ==
    /\ IsFiniteSet(Clients)
    /\ MaxLines \in Nat /\ MaxMsg \in Nat \ {0}

VARIABLES
    pc, revents,      \* the parent: where it is, what poll reported
    clients,          \* the map from pids to nicks (<<>>: none yet)
    backlog,          \* connections not accepted yet, oldest first
    mq,               \* the message queue
    child, buf,       \* the children: where each is, the text it holds
    client,           \* where the keyboard process of each client is
    ends,             \* client processes that hold the socket open
    typed,            \* tokens each client has written
    up,               \* tokens on their way to the child
    down,             \* broadcasts sent to each client, in order
    handled           \* history: tokens the parent took from the queue

parent == <<pc, revents, clients>>
users == <<client, ends, typed>>
vars == <<parent, backlog, mq, child, buf, users, up, down, handled>>

Init ==
    /\ pc = "reap" /\ revents = {} /\ clients = <<>>
    /\ backlog = <<>> /\ mq = <<>>
    /\ child = [c \in Clients |-> "none"]
    /\ buf = [c \in Clients |-> <<>>]
    /\ client = [c \in Clients |-> "start"]
    /\ ends = [c \in Clients |-> {}]
    /\ typed = [c \in Clients |-> 0]
    /\ up = [c \in Clients |-> <<>>]
    /\ down = [c \in Clients |-> <<>>]
    /\ handled = [c \in Clients |-> <<>>]

-----------------------------------------------------------------------------
(* The parent: the loop of main() in pr_10/server.cpp *)

(* One round of the waitpid loop; remove_client closes the socket and erases *)
(* the entry.                                                                *)
Reap(c) ==
    /\ pc = "reap" /\ child[c] = "exited"
    /\ child' = [child EXCEPT ![c] = "reaped"]
    /\ clients' = [d \in DOMAIN clients \ {c} |-> clients[d]]
    /\ UNCHANGED <<pc, revents, backlog, mq, buf, users, up, down, handled>>

(* No child left to reap: poll, for at most 500 ms.  revents is what holds   *)
(* at this moment, possibly nothing.                                         *)
Poll ==
    /\ pc = "reap" /\ \A c \in Clients : child[c] # "exited"
    /\ revents' = {e \in {"listen", "mq"} :
                     \/ e = "listen" /\ backlog # <<>>
                     \/ e = "mq" /\ mq # <<>>}
    /\ pc' = "accept"
    /\ UNCHANGED <<clients, backlog, mq, child, buf, users, up, down, handled>>

(* Faulty variant: a round that accepted nobody does not look at the queue. *)
AfterAcceptOnly ==
    IF {"mq", "listen"} \subseteq revents THEN "drain" ELSE "reap"
AfterAccept == IF "mq" \in revents THEN "drain" ELSE "reap"

(* accept and fork; the parent enters the child in the map before it looks   *)
(* at the queue.  When the connection is aborted or fork fails, it is closed *)
(* and the queue has to wait for the next round.                             *)
Accept ==
    /\ pc = "accept" /\ "listen" \in revents
    /\ LET c == Head(backlog) IN
        \/ /\ child' = [child EXCEPT ![c] = "prompt"]
           /\ clients' = [d \in DOMAIN clients \cup {c} |->
                            IF d = c THEN <<>> ELSE clients[d]]
           /\ pc' = AfterAccept
        \/ /\ child' = [child EXCEPT ![c] = "refused"]
           /\ pc' = "reap"
           /\ UNCHANGED clients
    /\ backlog' = Tail(backlog)
    /\ UNCHANGED <<revents, mq, buf, users, up, down, handled>>

NoConnection ==
    /\ pc = "accept" /\ "listen" \notin revents
    /\ pc' = AfterAccept
    /\ UNCHANGED <<revents, clients, backlog, mq, child, buf, users, up, down,
                   handled>>

(* broadcast_from_pid: to every client of the map but the sender; send fails *)
(* without a signal where the peer is gone.                                  *)
Nick(pid) == IF pid \in DOMAIN clients THEN clients[pid] ELSE <<>>
(* Faulty variant: the sender is not left out. *)
BroadcastAll(pid, text) ==
    down' = [c \in Clients |->
               IF c \in DOMAIN clients /\ ends[c] # {}
               THEN Append(down[c], [nick |-> Nick(pid), pid |-> pid,
                                     text |-> text])
               ELSE down[c]]
Broadcast(pid, text) ==
    down' = [c \in Clients |->
               IF c \in DOMAIN clients \ {pid} /\ ends[c] # {}
               THEN Append(down[c], [nick |-> Nick(pid), pid |-> pid,
                                     text |-> text])
               ELSE down[c]]

(* One round of the receive loop.  The queue was opened without O_NONBLOCK:  *)
(* mq_receive waits for the next message instead of failing with EAGAIN, so  *)
(* the loop is never left.                                                   *)
Receive ==
    /\ pc = "drain" /\ mq # <<>>
    /\ LET m == Head(mq) IN
        /\ \/ /\ m.type = 1
              /\ clients' = [d \in DOMAIN clients |->
                               IF d = m.pid THEN m.text ELSE clients[d]]
              /\ UNCHANGED down
           \/ /\ m.type = 0
              /\ Broadcast(m.pid, m.text)
              /\ UNCHANGED clients
        /\ handled' = [handled EXCEPT ![m.pid] = @ \o m.text]
    /\ mq' = Tail(mq)
    /\ UNCHANGED <<pc, revents, backlog, child, buf, users, up>>

Parent == (\E c \in Clients : Reap(c)) \/ Poll \/ Accept \/ NoConnection \/ Receive

-----------------------------------------------------------------------------
(* The children *)

(* mq_open and the prompt; a child that cannot open the queue exits.         *)
Prompt(c) ==
    /\ child[c] = "prompt"
    /\ \E place \in {"nick", "exited"} : child' = [child EXCEPT ![c] = place]
    /\ UNCHANGED <<parent, backlog, mq, buf, users, up, down, handled>>

(* Faulty variant: only the first write of the client is kept. *)
RecvFirst(c, from, to) ==
    /\ child[c] = from /\ up[c] # <<>>
    /\ buf' = [buf EXCEPT ![c] = <<Head(up[c])>>]
    /\ up' = [up EXCEPT ![c] = <<>>]
    /\ child' = [child EXCEPT ![c] = to]
    /\ UNCHANGED <<parent, backlog, mq, users, down, handled>>

(* recv returns what has arrived, however many writes it took. *)
Recv(c, from, to) ==
    /\ child[c] = from /\ up[c] # <<>>
    /\ buf' = [buf EXCEPT ![c] = up[c]]
    /\ up' = [up EXCEPT ![c] = <<>>]
    /\ child' = [child EXCEPT ![c] = to]
    /\ UNCHANGED <<parent, backlog, mq, users, down, handled>>

(* Faulty variant: a client that leaves before it sent a nick is not noticed. *)
RecvEndLate(c) ==
    /\ child[c] = "recv" /\ up[c] = <<>> /\ ends[c] = {}
    /\ child' = [child EXCEPT ![c] = "exited"]
    /\ UNCHANGED <<parent, backlog, mq, buf, users, up, down, handled>>

(* End of the stream: no process of the client holds the socket any more.    *)
RecvEnd(c) ==
    /\ child[c] \in {"nick", "recv"} /\ up[c] = <<>> /\ ends[c] = {}
    /\ child' = [child EXCEPT ![c] = "exited"]
    /\ UNCHANGED <<parent, backlog, mq, buf, users, up, down, handled>>

(* mq_send waits while the queue is full. *)
Send(c, from, type) ==
    /\ child[c] = from /\ Len(mq) < MaxMsg
    /\ mq' = Append(mq, [pid |-> c, type |-> type, text |-> buf[c]])
    /\ child' = [child EXCEPT ![c] = "recv"]
    /\ UNCHANGED <<parent, backlog, buf, users, up, down, handled>>

(* Faulty variant: the nick is read and never registered. *)
RecvNickOnly(c) == Recv(c, "nick", "recv")
RecvNick(c) == Recv(c, "nick", "register")
Register(c) == Send(c, "register", 1)
RecvText(c) == Recv(c, "recv", "send")
SendText(c) == Send(c, "send", 0)

Child(c) ==
    \/ Prompt(c) \/ RecvNick(c) \/ Register(c) \/ RecvText(c) \/ SendText(c)
    \/ RecvEnd(c)

-----------------------------------------------------------------------------
(* The clients: pr_10/client.cpp *)

Connect(c) ==
    /\ client[c] = "start"
    /\ client' = [client EXCEPT ![c] = "connected"]
    /\ ends' = [ends EXCEPT ![c] = {"keyboard"}]
    /\ backlog' = Append(backlog, c)
    /\ UNCHANGED <<parent, mq, child, buf, typed, up, down, handled>>

Type(c, n) ==
    /\ typed' = [typed EXCEPT ![c] = n]
    /\ up' = [up EXCEPT ![c] = Append(@, <<c, n>>)]

(* Whatever arrives first counts as the prompt: a broadcast may overtake it. *)
(* A client whose connection ends without a prompt sends nothing.            *)
SendNick(c) ==
    /\ client[c] = "connected"
    /\ child[c] = "nick" \/ down[c] # <<>>
    /\ client' = [client EXCEPT ![c] = "typing"]
    /\ Type(c, 0)
    /\ ends' = [ends EXCEPT ![c] = {"keyboard", "reader"}]
    /\ UNCHANGED <<parent, backlog, mq, child, buf, down, handled>>

TypeLine(c) ==
    /\ client[c] = "typing" /\ typed[c] < MaxLines
    /\ Type(c, typed[c] + 1)
    /\ UNCHANGED <<parent, backlog, mq, child, buf, client, ends, down, handled>>

(* The end of the input: the keyboard process closes its copy of the socket  *)
(* and waits for the reader, which still holds the other copy open.          *)
EndInput(c) ==
    /\ client[c] = "typing"
    /\ client' = [client EXCEPT ![c] = "waiting"]
    /\ ends' = [ends EXCEPT ![c] = @ \ {"keyboard"}]
    /\ UNCHANGED <<parent, backlog, mq, child, buf, typed, up, down, handled>>

(* Both processes are killed; what the child has not read yet may be lost    *)
(* with the connection.                                                      *)
KillClient(c) ==
    /\ c \in Killable /\ client[c] \notin {"start", "killed"}
    /\ client' = [client EXCEPT ![c] = "killed"]
    /\ ends' = [ends EXCEPT ![c] = {}]
    /\ \/ UNCHANGED up
       \/ up' = [up EXCEPT ![c] = <<>>]
    /\ UNCHANGED <<parent, backlog, mq, child, buf, typed, down, handled>>

Client(c) ==
    Connect(c) \/ SendNick(c) \/ TypeLine(c) \/ EndInput(c) \/ KillClient(c)

Next == Parent \/ \E c \in Clients : Child(c) \/ Client(c)

Spec == Init /\ [][Next]_vars

(* The server's processes are scheduled; nobody has to type or to connect.   *)
LiveSpec == Spec /\ WF_vars(Parent) /\ \A c \in Clients : WF_vars(Child(c))

-----------------------------------------------------------------------------
(* Properties *)

(* Tokens a to b - 1 of c, and how many c has written.                       *)
Run(c, a, b) == [k \in 1..(b - a) |-> <<c, a + k - 1>>]
Sent(c) == IF client[c] \in {"start", "connected"} THEN 0 ELSE typed[c] + 1

(* Where the tokens of c are, in the order in which the parent handled, is   *)
(* about to handle or will handle them: the queue holds others' texts, too.  *)
Piece(c, i) ==
    IF i = 0 THEN handled[c]
    ELSE IF i <= Len(mq) THEN (IF mq[i].pid = c THEN mq[i].text ELSE <<>>)
    ELSE IF i = Len(mq) + 1 THEN (IF child[c] \in {"register", "send"} THEN buf[c] ELSE <<>>)
    ELSE up[c]

(* Between the keyboard and the parent no token is lost, doubled or          *)
(* reordered: what was typed can be cut into what the parent handled, the    *)
(* texts in the queue, and what the child and the socket hold; only the last *)
(* tokens of a client that was killed may be missing.                        *)
StreamPreserved ==
    \A c \in Clients :
        \E cut \in [0..(Len(mq) + 3) -> 0..Sent(c)] :
            /\ cut[0] = 0
            /\ \A i \in 0..(Len(mq) + 2) :
                  cut[i] <= cut[i + 1] /\ Piece(c, i) = Run(c, cut[i], cut[i + 1])
            /\ client[c] # "killed" => cut[Len(mq) + 3] = Sent(c)

(* A broadcast carries the nick of its sender unless the sender was reaped   *)
(* before the parent got to its messages: the registration cannot be         *)
(* overtaken by a message, nor arrive before the parent knows the pid.       *)
SenderIsNamed ==
    pc = "drain" /\ mq # <<>> /\ Head(mq).type = 0
        => (Nick(Head(mq).pid) # <<>> \/ child[Head(mq).pid] = "reaped")

(* All clients see the broadcasts they share in the same order, nobody sees  *)
(* one twice, and nobody sees its own.                                       *)
Before(c, m, n) ==
    \E i, j \in DOMAIN down[c] : i < j /\ down[c][i] = m /\ down[c][j] = n
SameOrder ==
    \A c, d \in Clients : \A i, j \in DOMAIN down[c] :
        i < j => /\ ~Before(d, down[c][j], down[c][i])
                 /\ down[c][i] # down[c][j] /\ down[c][i].pid # c

(* Whatever a child has read is eventually handled, with a queue of one slot *)
(* and a parent that went into its receive loop.                             *)
EveryTextHandled ==
    \A c \in Clients :
        (child[c] \in {"register", "send"})
            ~> (child[c] \notin {"register", "send"} /\ \A i \in DOMAIN mq : mq[i].pid # c)

(* The child of a killed client leaves.                                      *)
KilledLeaves ==
    \A c \in Clients :
        (client[c] = "killed" /\ child[c] # "none")
            ~> (child[c] \in {"exited", "reaped", "refused"})

(* "Новое соединение" (pr_10/server.cpp:130): the loop, which polls for at   *)
(* most 500 ms, takes every new connection in turn.                          *)
ConnectionsAccepted ==
    \A c \in Clients : (client[c] = "connected") ~> (child[c] # "none")
=============================================================================
