---------------------------- MODULE ChatThreads ----------------------------
(* The chat server of pr_7: one thread per client and one for the console,   *)
(* all of them reading and writing clients[] and num_clients without a lock; *)
(* and the game server of pr_7_1 made from it, which has no nicks and no     *)
(* console and sends its board, also without a lock, to everybody.           *)
(* Every load and store of the two that matters is a step: the check of      *)
(* num_clients, the store into the slot, the load and the store of ++ and    *)
(* --, each round of a loop.  memmove is one step.                           *)
(*                                                                           *)
(* A socket is a small number; a closed one is given out again.  The board   *)
(* is known by the number of symbols stored in it so far.                    *)
EXTENDS Integers, FiniteSets, FiniteSetsExt

CONSTANTS
    Programs,      \* the programs to check, from {"pr_7", "pr_7_1"}
    Handlers,      \* client threads, one per client that ever connects
    MAX_CLIENTS,   \* slots of clients[]
    Calm,          \* the values of calm to check
    Visitors,      \* bound: Visitors[program][calm] are the handlers needed
    Leavers,       \* bound: the clients of Leavers[program][calm] disconnect
    MaxMessages    \* bound: MaxMessages[program][calm][t] messages of the
                   \* client of thread t, or lines of the console

Console == "console"
Threads == Handlers \cup {Console}

ASSUME ChatThreadsAssumption ==
    /\ Programs \subseteq {"pr_7", "pr_7_1"}
    /\ IsFiniteSet(Handlers) /\ Console \notin Handlers
    /\ MAX_CLIENTS \in Nat \ {0}
    /\ Calm \subseteq BOOLEAN
    /\ Visitors \in [Programs -> [Calm -> SUBSET Handlers]]
    /\ Leavers \in [Programs -> [Calm -> SUBSET Handlers]]
    /\ MaxMessages \in [Programs -> [Calm -> [Threads -> Nat]]]

Socket == 1..Cardinality(Handlers)
Nobody == -1

VARIABLES
    program,              \* which of the two is run; never changes
    calm,                 \* TRUE: clients and console act only while every
                          \* thread of the server waits, except that moves of
                          \* the game may be sent while nobody is leaving;
                          \* never changes
    board,                \* pr_7_1: playingField
    shown,                \* shown[h]: the last board sent to client h
    slots, num_clients,   \* clients[].socket and its length
    pc, i, n,             \* each thread: place, loop index, loaded num_clients
    sock,                 \* sock[h]: the socket of handler h, 0 before accept
    peer,                 \* peer[h]: what the client's end of it is
    sent,                 \* messages typed by each client, lines of the console
    owed,                 \* history: owed[t] are the clients a broadcast of t
                          \* has still to reach, each with its place
    met,                  \* history: which changes of the list have met
    beyond,               \* something was stored behind the end of clients[]
    killed                \* the process died (SIGPIPE, or memmove of a size < 0)

mode == <<program, calm>>
game == <<board, shown>>
list == <<slots, num_clients>>
locals == <<pc, i, n>>
history == <<owed, met>>
vars == <<mode, game, list, locals, sock, peer, sent, history, beyond, killed>>

Init ==
    /\ program \in Programs /\ calm \in Calm
    /\ board = 0 /\ shown = [h \in Handlers |-> 0]
    /\ slots = [k \in 0..(MAX_CLIENTS - 1) |-> 0]
    /\ num_clients = 0
    /\ pc = [t \in Threads |-> IF t = Console THEN "fgets" ELSE "none"]
    /\ i = [t \in Threads |-> 0] /\ n = [t \in Threads |-> 0]
    /\ sock = [h \in Handlers |-> 0]
    /\ peer = [h \in Handlers |-> "none"]
    /\ sent = [t \in Threads |-> 0]
    /\ owed = [t \in Threads |-> {}] /\ met = {}
    /\ beyond = FALSE /\ killed = FALSE

-----------------------------------------------------------------------------
At(t, label) == ~killed /\ pc[t] = label
Goto(t, label) == pc' = [pc EXCEPT ![t] = label]
Waiting(t) ==
    \/ pc[t] \in {"none", "fgets", "done"}
    \/ pc[t] \in {"nick", "recv"} /\ peer[t] = "open"
NobodyLeaves == \A h \in Handlers : peer[h] \in {"none", "open"} \/ pc[h] = "done"
InputAllowed == ~calm \/ \A t \in Threads : Waiting(t)

InUse == {sock[h] : h \in {g \in Handlers : pc[g] \notin {"none", "done"}}}

(* The handlers that count as clients: added, not yet removed.               *)
Listed == {h \in Handlers : pc[h] \in {"join", "joinSend", "welcome", "recv", "move",
                                       "send", "sendSend", "scan", "memmove"}}

(* Who is in the list, and where. *)
Owner(s) == {h \in Handlers : sock[h] = s /\ pc[h] \notin {"none", "done"}}
Placed ==
    {e \in Handlers \X DOMAIN slots : e[2] < num_clients /\ e[1] \in Owner(slots[e[2]])}

(* A client that loses its place need not be reached by a broadcast that has *)
(* begun.                                                                    *)
KeepOwed == owed' = [t \in Threads |-> owed[t] \cap Placed']

(* Start of a broadcast; label is the place of its loop condition.  It is    *)
(* for all clients in the list, in pr_7 without the one that has spoken.     *)
StartBroadcast(t, label) ==
    /\ Goto(t, label)
    /\ i' = [i EXCEPT ![t] = 0]
    /\ owed' = [u \in Threads |->
                  IF u # t THEN owed[u] \cap Placed'
                  ELSE {e \in Placed' : program = "pr_7" /\ label # "leave" => e[1] # t}]

(* The places where the list changes: from the test of num_clients to the    *)
(* store of ++, from the search to the store of --, and without the search.  *)
Inserting == {"store", "loadInc", "storeInc"}
Moving == {"memmove", "loadDec", "storeDec"}
Deleting == Moving \cup {"scan"}
Meets(h, places) == \E g \in Handlers \ {h} : pc[g] \in places

-----------------------------------------------------------------------------
(* main: accept, thread creation; the kernel gives out the lowest number.    *)
Accept(h) ==
    /\ At(h, "none") /\ h \in Visitors[program][calm] /\ InputAllowed
    /\ Goto(h, IF program = "pr_7" THEN "nick" ELSE "check")
    /\ sock' = [sock EXCEPT ![h] = Min(Socket \ InUse)]
    /\ peer' = [peer EXCEPT ![h] = "open"]
    /\ UNCHANGED <<mode, game, list, i, n, sent, history, beyond, killed>>

(* The client closes its end, at any time. *)
Disconnect(h) ==
    /\ ~killed /\ h \in Leavers[program][calm] /\ InputAllowed
    /\ peer[h] = "open" /\ pc[h] # "done"
    /\ peer' = [peer EXCEPT ![h] = "closed"]
    /\ UNCHANGED <<mode, game, list, locals, sock, sent, history, beyond, killed>>

RecvNick(h) ==
    /\ At(h, "nick")
    /\ \/ peer[h] = "open" /\ InputAllowed /\ Goto(h, "check")
       \/ peer[h] # "open" /\ Goto(h, "close")
    /\ UNCHANGED <<mode, game, list, i, n, sock, peer, sent, history, beyond, killed>>

(* Faulty variant: one client too many passes the check. *)
CheckOffByOne(h) ==
    /\ At(h, "check")
    /\ \/ /\ num_clients <= MAX_CLIENTS
          /\ Goto(h, "store")
          /\ met' = met \cup (IF Meets(h, Inserting) THEN {"adds"} ELSE {})
                        \cup (IF Meets(h, Inserting \cup Moving) THEN {"changes"} ELSE {})
       \/ num_clients > MAX_CLIENTS /\ Goto(h, "close") /\ UNCHANGED met
    /\ UNCHANGED <<mode, game, list, i, n, sock, peer, sent, owed, beyond, killed>>

(* if (num_clients < MAX_CLIENTS) *)
Check(h) ==
    /\ At(h, "check")
    /\ \/ /\ num_clients < MAX_CLIENTS
          /\ Goto(h, "store")
          /\ met' = met \cup (IF Meets(h, Inserting) THEN {"adds"} ELSE {})
                        \cup (IF Meets(h, Inserting \cup Moving) THEN {"changes"} ELSE {})
       \/ num_clients >= MAX_CLIENTS /\ Goto(h, "close") /\ UNCHANGED met
    /\ UNCHANGED <<mode, game, list, i, n, sock, peer, sent, owed, beyond, killed>>

(* clients[num_clients].socket = sock; the nick goes the same way.  (What a  *)
(* negative num_clients, left by removals that met, overwrites is not told.) *)
Store(h) ==
    /\ At(h, "store")
    /\ slots' = [k \in DOMAIN slots |-> IF k = num_clients THEN sock[h] ELSE slots[k]]
    /\ beyond' = (beyond \/ num_clients >= MAX_CLIENTS)
    /\ Goto(h, "loadInc")
    /\ UNCHANGED <<mode, game, num_clients, i, n, sock, peer, sent, met, killed>>
    /\ KeepOwed

(* num_clients++ and num_clients--: a load, then a store. *)
Load(h, from, to) ==
    /\ At(h, from)
    /\ n' = [n EXCEPT ![h] = num_clients]
    /\ Goto(h, to)
    /\ UNCHANGED <<mode, game, list, i, sock, peer, sent, history, beyond, killed>>

StoreInc(h) ==
    /\ At(h, "storeInc")
    /\ num_clients' = n[h] + 1
    /\ UNCHANGED <<mode, game, slots, n, sock, peer, sent, met, beyond, killed>>
    /\ \/ program = "pr_7" /\ StartBroadcast(h, "join")
       \/ program = "pr_7_1" /\ Goto(h, "welcome") /\ UNCHANGED i /\ KeepOwed

(* send without MSG_NOSIGNAL: the first one to a client that is gone draws a *)
(* reset, the next one kills the process.                                    *)
Send(to) ==
    /\ peer' = [h \in Handlers |->
                   IF h \in to /\ peer[h] = "closed" THEN "reset" ELSE peer[h]]
    /\ killed' = \E h \in to : peer[h] = "reset"
    /\ shown' = [h \in Handlers |-> IF h \in to THEN board ELSE shown[h]]

(* pr_7_1: a client that was added is sent the board. *)
SendBoard(h) ==
    /\ At(h, "welcome")
    /\ Send({h})
    /\ Goto(h, "recv")
    /\ UNCHANGED <<mode, board, list, i, n, sock, sent, history, beyond>>

(* recv: a message, or the end of the connection, which is a reset at once   *)
(* if the client has left something unread.                                  *)
Recv(h) ==
    /\ At(h, "recv")
    /\ UNCHANGED <<mode, game, list, n, sock, beyond, killed>>
    /\ \/ /\ program = "pr_7" /\ InputAllowed
          /\ peer[h] = "open" /\ sent[h] < MaxMessages[program][calm][h]
          /\ sent' = [sent EXCEPT ![h] = @ + 1]
          /\ StartBroadcast(h, "send")
          /\ UNCHANGED <<peer, met>>
       \/ /\ peer[h] # "open"
          /\ peer' \in {peer, [peer EXCEPT ![h] = "reset"]}
          /\ Goto(h, "scan")
          /\ i' = [i EXCEPT ![h] = 0]
          /\ met' = met \cup (IF Meets(h, Deleting) THEN {"changes"} ELSE {})
          /\ UNCHANGED <<sent, owed>>

(* pr_7_1: recv and the parsing of a move i-j-symbol.  One that is out of    *)
(* range is dropped; strchr returns NULL for one without two separators.     *)
RecvMove(h) ==
    /\ At(h, "recv") /\ program = "pr_7_1" /\ (calm => NobodyLeaves)
    /\ peer[h] = "open" /\ sent[h] < MaxMessages[program][calm][h]
    /\ sent' = [sent EXCEPT ![h] = @ + 1]
    /\ \/ Goto(h, "move") /\ UNCHANGED killed
       \/ UNCHANGED <<pc, killed>>
       \/ killed' = TRUE /\ UNCHANGED pc
    /\ UNCHANGED <<mode, game, list, i, n, sock, peer, history, beyond>>

(* playingField[i][j] = symbol *)
StoreSymbol(h) ==
    /\ At(h, "move")
    /\ board' = board + 1
    /\ UNCHANGED <<mode, shown, list, n, sock, peer, sent, met, beyond, killed>>
    /\ StartBroadcast(h, "send")

(* The game server closes without a broadcast. *)
AfterRemoval(h) ==
    \/ program = "pr_7" /\ StartBroadcast(h, "leave")
    \/ program = "pr_7_1" /\ Goto(h, "close") /\ UNCHANGED i /\ KeepOwed

(* Faulty variant: the search goes on until the socket is found. *)
ScanForever(h) ==
    /\ At(h, "scan")
    /\ \/ /\ i[h] < num_clients /\ i[h] \in DOMAIN slots
          /\ slots[i[h]] = sock[h]
          /\ Goto(h, "memmove")
          /\ UNCHANGED i
       \/ /\ i[h] < num_clients
          /\ i[h] \in DOMAIN slots => slots[i[h]] # sock[h]
          /\ i' = [i EXCEPT ![h] = @ + 1]
          /\ UNCHANGED pc
    /\ UNCHANGED <<mode, game, list, n, sock, peer, sent, history, beyond, killed>>

(* The search for the own socket. *)
Scan(h) ==
    /\ At(h, "scan")
    /\ UNCHANGED <<mode, game, list, n, sock, peer, sent, beyond, killed>>
    /\ \/ /\ i[h] < num_clients /\ i[h] \in DOMAIN slots
          /\ slots[i[h]] = sock[h]
          /\ Goto(h, "memmove")
          /\ met' = met \cup (IF Meets(h, Inserting) THEN {"changes"} ELSE {})
          /\ UNCHANGED <<i, owed>>
       \/ /\ i[h] < num_clients
          /\ i[h] \in DOMAIN slots => slots[i[h]] # sock[h]
          /\ i' = [i EXCEPT ![h] = @ + 1]
          /\ UNCHANGED <<pc, history>>
       \/ /\ i[h] >= num_clients
          /\ AfterRemoval(h)
          /\ UNCHANGED met

(* memmove(&clients[i], &clients[i + 1], (num_clients - i - 1) * ...): a     *)
(* negative count becomes a huge size_t.                                     *)
Memmove(h) ==
    /\ At(h, "memmove")
    /\ UNCHANGED <<mode, game, num_clients, i, n, sock, peer, sent, met, beyond>>
    /\ LET count == num_clients - i[h] - 1 IN
        IF count < 0
        THEN killed' = TRUE /\ UNCHANGED <<slots, pc, owed>>
        ELSE /\ slots' = [k \in DOMAIN slots |->
                            IF k \in i[h]..(i[h] + count - 1)
                            THEN IF k + 1 \in DOMAIN slots THEN slots[k + 1] ELSE 0
                            ELSE slots[k]]
             /\ Goto(h, "loadDec")
             /\ KeepOwed /\ UNCHANGED killed

(* Faulty variant: num_clients is not decremented. *)
StoreDecMissing(h) ==
    /\ At(h, "storeDec")
    /\ UNCHANGED <<mode, game, list, n, sock, peer, sent, met, beyond, killed>>
    /\ AfterRemoval(h)

StoreDec(h) ==
    /\ At(h, "storeDec")
    /\ num_clients' = n[h] - 1
    /\ UNCHANGED <<mode, game, slots, n, sock, peer, sent, met, beyond, killed>>
    /\ AfterRemoval(h)

Close(h) ==
    /\ At(h, "close")
    /\ Goto(h, "done")
    /\ UNCHANGED <<mode, game, list, i, n, sock, peer, sent, met, beyond, killed>>
    /\ KeepOwed

ConsoleLine ==
    /\ At(Console, "fgets") /\ program = "pr_7" /\ InputAllowed
    /\ sent[Console] < MaxMessages[program][calm][Console]
    /\ sent' = [sent EXCEPT ![Console] = @ + 1]
    /\ UNCHANGED <<mode, game, list, n, sock, peer, met, beyond, killed>>
    /\ StartBroadcast(Console, "send")

-----------------------------------------------------------------------------
(* broadcast(msg, exclude_sock), called from four places.                    *)
(* Faulty variant: a player is left out of the broadcast of its own move.    *)
ExcludeMover(t) ==
    IF t = Console \/ pc[t] \in {"leave", "leaveSend"} THEN Nobody ELSE sock[t]

Exclude(t) ==
    IF t = Console \/ pc[t] \in {"leave", "leaveSend"} \/ program = "pr_7_1"
    THEN Nobody ELSE sock[t]
SendPlace == [join |-> "joinSend", send |-> "sendSend", leave |-> "leaveSend"]
LoopPlace == [joinSend |-> "join", sendSend |-> "send", leaveSend |-> "leave"]
AfterBroadcast(t, label) ==
    IF t = Console THEN "fgets"
    ELSE IF label = "leave" THEN "close" ELSE "recv"

(* Faulty variant: the last client is left out. *)
LoopTestShort(t) ==
    /\ ~killed /\ pc[t] \in DOMAIN SendPlace
    /\ Goto(t, IF i[t] + 1 < num_clients THEN SendPlace[pc[t]]
               ELSE AfterBroadcast(t, pc[t]))
    /\ UNCHANGED <<mode, game, list, i, n, sock, peer, sent, history, beyond, killed>>

(* i < num_clients *)
LoopTest(t) ==
    /\ ~killed /\ pc[t] \in DOMAIN SendPlace
    /\ Goto(t, IF i[t] < num_clients THEN SendPlace[pc[t]]
               ELSE AfterBroadcast(t, pc[t]))
    /\ UNCHANGED <<mode, game, list, i, n, sock, peer, sent, history, beyond, killed>>

(* A number that was closed meanwhile only fails. *)
SendOne(t) ==
    /\ ~killed /\ pc[t] \in DOMAIN LoopPlace
    /\ LET s == IF i[t] \in DOMAIN slots THEN slots[i[t]] ELSE 0
           to == IF s = Exclude(t) THEN {} ELSE Owner(s)
       IN Send(to) /\ owed' = [owed EXCEPT ![t] = {e \in @ : e[1] \notin to}]
    /\ i' = [i EXCEPT ![t] = @ + 1]
    /\ Goto(t, LoopPlace[pc[t]])
    /\ UNCHANGED <<mode, board, list, n, sock, sent, met, beyond>>

HandlerStep(h) ==
    \/ RecvNick(h) \/ Check(h) \/ Store(h) \/ Load(h, "loadInc", "storeInc")
    \/ StoreInc(h) \/ SendBoard(h) \/ Recv(h) \/ RecvMove(h) \/ StoreSymbol(h)
    \/ Scan(h) \/ Memmove(h) \/ Load(h, "loadDec", "storeDec") \/ StoreDec(h) \/ Close(h)

Next ==
    \/ \E h \in Handlers : Accept(h) \/ Disconnect(h) \/ HandlerStep(h)
    \/ ConsoleLine
    \/ \E t \in Threads : LoopTest(t) \/ SendOne(t)

Spec == Init /\ [][Next]_vars

(* Every thread of the process is scheduled; nobody has to type.             *)
LiveSpec ==
    /\ Spec
    /\ \A h \in Handlers :
         WF_vars((peer[h] # "open" /\ HandlerStep(h)) \/ LoopTest(h) \/ SendOne(h))

-----------------------------------------------------------------------------
(* Properties *)

InList(h) == \E k \in DOMAIN slots : k < num_clients /\ slots[k] = sock[h]

(* "Přidat klienta do seznamu" (pr_7/server.cpp:52): from its num_clients++  *)
(* until it removes itself, a client is in the list.                         *)
AddedIsListed == \A h \in Listed : ~killed => InList(h)

(* What threads that register and remove themselves without a lock do to the *)
(* list they do to each other: as long as no two of them were between the    *)
(* first read and the last write of their changes at a time, AddedIsListed   *)
(* holds and ("Odstranit klienta ze seznamu", pr_7/server.cpp:89) a client   *)
(* that removed itself is no longer in the list when its socket is closed    *)
(* and may be given out again.  Broadcasts, moves and searches at the same   *)
(* time do no harm, and a search none beside a registration.                 *)
ListIsRight ==
    "changes" \notin met =>
        /\ AddedIsListed
        /\ \A h \in Handlers : pc[h] \in {"leave", "leaveSend", "close"} => ~InList(h)

(* "Pokud je seznam plný, uzavřít spojení" (pr_7/server.cpp:61): a client    *)
(* that finds the list full is never stored, so nothing is written behind    *)
(* the end of clients[].  Two registrations at a time are the only way there *)
(* is to it: removals that meet each other or a registration, and the        *)
(* updates of num_clients that are lost then, are not.                       *)
FullListCloses == "adds" \notin met => ~beyond /\ num_clients <= MAX_CLIENTS

(* "Broadcast ostatním klientům" (pr_7/server.cpp:85): a broadcast that has  *)
(* ended reached every client that kept its place in the list from the       *)
(* beginning on, whoever else registered, left or sent at the same time, and *)
(* whatever that did to the list.                                            *)
BroadcastReachesAll ==
    \A t \in Threads : pc[t] \notin DOMAIN SendPlace \cup DOMAIN LoopPlace => owed[t] = {}

(* pr_7_1: when all threads wait, every client in the list was sent the      *)
(* board as it is, however the moves of several players and a registration   *)
(* interleave: who stored last still sends after all others did.             *)
BoardShown ==
    program = "pr_7_1" /\ calm /\ NobodyLeaves /\ (\A t \in Threads : Waiting(t)) =>
        \A h \in Listed : shown[h] = board

(* However the threads interleave, the thread of a client that disconnects   *)
(* comes to its end, unless the process died.                                *)
HandlersEnd ==
    \A h \in Handlers :
        (peer[h] = "closed") ~> (pc[h] = "done" \/ killed)
=============================================================================
