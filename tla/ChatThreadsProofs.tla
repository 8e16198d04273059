------------------------- MODULE ChatThreadsProofs -------------------------
(* Proofs about ChatThreads, for any number of clients, slots and messages:  *)
(* whatever meets, a broadcast reaches every client that keeps its place;    *)
(* only registrations that meet overrun clients[], only changes that meet    *)
(* leave a wrong list; and in the game the last board reaches all players.   *)
EXTENDS ChatThreads, FiniteSetTheorems, FunctionTheorems, WellFoundedInduction,
        TLAPS

-----------------------------------------------------------------------------
(* The invariant *)

Loops == {"join", "joinSend", "send", "sendSend", "leave", "leaveSend"}
Adding == {"check", "store", "loadInc", "storeInc", "join", "joinSend", "welcome"}
Removing == {"scan", "memmove", "loadDec", "storeDec", "leave", "leaveSend"}
Changing == Adding \cup Removing \cup {"close"}
Messaging == {"move", "send", "sendSend"}
Places == Changing \cup Messaging \cup {"none", "nick", "recv", "done"}

Types ==
    /\ program \in {"pr_7", "pr_7_1"} /\ calm \in BOOLEAN
    /\ pc \in [Threads -> Places \cup {"fgets"}]
    /\ pc[Console] \in {"fgets", "send", "sendSend"}
    /\ \A h \in Handlers : pc[h] # "fgets"
    /\ i \in [Threads -> Nat] /\ n \in [Threads -> Int]
    /\ slots \in [0..(MAX_CLIENTS - 1) -> Nat] /\ num_clients \in Int
    /\ sock \in [Handlers -> Nat]
    /\ peer \in [Handlers -> {"none", "open", "closed", "reset"}]
    /\ owed \in [Threads -> SUBSET (Handlers \X (0..(MAX_CLIENTS - 1)))]
    /\ met \in SUBSET {"adds", "changes"}

(* A handler before accept has no client, one that removes itself has lost   *)
(* it.                                                                       *)
Peers ==
    \A h \in Handlers :
        /\ pc[h] = "none" <=> peer[h] = "none"
        /\ pc[h] \in Removing => peer[h] \in {"closed", "reset"}

Owns(h) == pc[h] \notin {"none", "done"}
SocketsDiffer ==
    \A g, h \in Handlers : Owns(g) /\ Owns(h) /\ sock[g] = sock[h] => g = h

(* Whom a broadcast has still to reach is in the list, at a place that its   *)
(* loop has not passed, and is not the client it leaves out.                 *)
Owed(t) ==
    /\ owed[t] \subseteq Placed
    /\ pc[t] \notin Loops => owed[t] = {}
    /\ \A e \in owed[t] : i[t] <= e[2]
    /\ program = "pr_7" /\ pc[t] \in Loops \ {"leave", "leaveSend"} =>
          \A e \in owed[t] : e[1] # t

(* While registrations do not meet: one at a time knows that there is room.  *)
Bounded ==
    /\ ~ beyond /\ num_clients <= MAX_CLIENTS
    /\ \A g, h \in Handlers : pc[g] \in Inserting /\ pc[h] \in Inserting => g = h
    /\ \A h \in Handlers :
          /\ pc[h] \in Inserting => num_clients < MAX_CLIENTS
          /\ pc[h] = "storeInc" => n[h] < MAX_CLIENTS
          /\ pc[h] = "storeDec" => n[h] <= MAX_CLIENTS

(* While changes do not meet: who is between the first read and the last     *)
(* write of one.                                                             *)
Apart ==
    \A g, h \in Handlers :
        \/ pc[g] \in Inserting /\ pc[h] \in Inserting \cup Moving
        \/ pc[g] \in Deleting /\ pc[h] \in Deleting
        => g = h

(* Between memmove and num_clients-- the last entry is there twice.          *)
Entries ==
    IF \E h \in Handlers : pc[h] \in {"loadDec", "storeDec"}
    THEN num_clients - 1 ELSE num_clients

ListMatches ==
    /\ Entries >= 0 /\ num_clients <= MAX_CLIENTS
    /\ \A k \in 0..(Entries - 1) : \E h \in Listed : slots[k] = sock[h]
    /\ \A h \in Listed : \E k \in 0..(Entries - 1) : slots[k] = sock[h]
    /\ \A j, k \in 0..(Entries - 1) : slots[j] = slots[k] => j = k

(* What a handler knows in the middle of a change. *)
Knows(h) ==
    /\ pc[h] \in {"store", "loadInc", "storeInc"} => num_clients < MAX_CLIENTS
    /\ pc[h] \in {"loadInc", "storeInc"} => slots[num_clients] = sock[h]
    /\ pc[h] \in {"storeInc", "storeDec"} => n[h] = num_clients
    /\ pc[h] = "scan" =>
          \A k \in 0..(i[h] - 1) : k < MAX_CLIENTS => slots[k] # sock[h]
    /\ pc[h] = "memmove" => i[h] < num_clients /\ slots[i[h]] = sock[h]
    /\ pc[h] \in {"loadDec", "storeDec"} =>
          \E g \in Listed \cup {h} : slots[num_clients - 1] = sock[g]

(* Of the handlers of a server at rest between two inputs one at a time      *)
(* changes the list, and messages are sent while nobody leaves it.           *)
Busy(h) == pc[h] \in Changing \/ (pc[h] \in {"nick", "recv"} /\ peer[h] # "open")
OneBusy == \A g, h \in Handlers : Busy(g) /\ Busy(h) => g = h
NobodyLeft == (\E t \in Threads : pc[t] \in Messaging) => NobodyLeaves

(* The game: who has not seen the board is still to be sent it. *)
Ahead(t, h) ==
    /\ pc[t] \in {"send", "sendSend"}
    /\ \E k \in 0..(Entries - 1) : i[t] <= k /\ slots[k] = sock[h]
BoardComes ==
    program = "pr_7_1" =>
        \A h \in Listed : pc[h] = "welcome" \/ shown[h] = board
                          \/ \E t \in Handlers : Ahead(t, h)

Orderly == Apart /\ ListMatches /\ \A h \in Handlers : Knows(h)
CalmInv == met = {} /\ OneBusy /\ NobodyLeft /\ BoardComes

ChatInv ==
    /\ Types /\ Peers /\ SocketsDiffer /\ (\A t \in Threads : Owed(t))
    /\ "adds" \notin met => Bounded
    /\ "changes" \notin met => Orderly
    /\ calm => CalmInv

-----------------------------------------------------------------------------
(* Sockets *)

(* The least element is one of them. *)
LEMMA LeastIsOne ==
    ASSUME NEW T, T \subseteq Nat, T # {}
    PROVE  Min(T) \in T
<1> DEFINE R == {ss \in Nat \X Nat : ss[1] < ss[2]}
<1>1. IsWellFoundedOn(R, Nat)
  BY NatLessThanWellFounded, Zenon DEF OpToRel
<1>2. \A x, y \in Nat : x < y => <<x, y>> \in R
  OBVIOUS
<1> HIDE DEF R
<1>3. PICK x \in T : \A y \in T : <<y, x>> \notin R
  BY <1>1, WFMin
<1>4. x \in Nat /\ \A y \in T : y \in Nat /\ ~ (y < x)
  BY <1>2, <1>3
<1>5. \A y \in T : x <= y
  BY <1>4
<1> QED
  BY <1>5 DEF Min

(* There are as many sockets as clients, so one is left for the next.        *)
LEMMA SocketLeft ==
    ASSUME Types, NEW h \in Handlers, pc[h] = "none"
    PROVE  Min(Socket \ InUse) \in Socket \ InUse
<1> DEFINE G == {g \in Handlers : Owns(g)}
           s == [g \in G |-> sock[g]]
<1>1. IsFiniteSet(Handlers) /\ Cardinality(Handlers) \in Nat
  BY ChatThreadsAssumption, FS_CardinalityType
<1>2. /\ IsFiniteSet(Socket) /\ Cardinality(Socket) = Cardinality(Handlers)
      /\ Socket \subseteq Nat
  <2>1. Cardinality(1..Cardinality(Handlers))
          = IF 1 > Cardinality(Handlers) THEN 0 ELSE Cardinality(Handlers) - 1 + 1
    BY <1>1, FS_Interval
  <2>2. IsFiniteSet(1..Cardinality(Handlers))
    BY <1>1, FS_Interval
  <2> QED
    BY <1>1, <2>1, <2>2 DEF Socket
<1>3. /\ IsFiniteSet(G) /\ Cardinality(G) \in Nat
      /\ Cardinality(G) < Cardinality(Handlers)
  <2>1. G \subseteq Handlers /\ G # Handlers
    BY DEF Owns
  <2>2. IsFiniteSet(G) /\ Cardinality(G) <= Cardinality(Handlers)
    BY <1>1, <2>1, FS_Subset
  <2>3. Cardinality(G) = Cardinality(Handlers) => G = Handlers
    BY <1>1, <2>1, FS_Subset
  <2>4. Cardinality(G) \in Nat
    BY <2>2, FS_CardinalityType
  <2> QED
    BY <1>1, <2>1, <2>2, <2>3, <2>4
<1>4. InUse = {s[g] : g \in G}
  BY DEF InUse, Owns
<1>5. s \in Surjection(G, InUse)
  BY <1>4 DEF Surjection
<1>6. IsFiniteSet(InUse) /\ Cardinality(InUse) <= Cardinality(G)
  BY <1>3, <1>5, FS_Surjection
<1>7. Socket \ InUse # {}
  <2>1. SUFFICES ASSUME Socket \subseteq InUse PROVE FALSE
    OBVIOUS
  <2>2. Cardinality(Socket) <= Cardinality(InUse)
    BY <1>6, <2>1, FS_Subset
  <2>3. Cardinality(InUse) \in Nat
    BY <1>6, FS_CardinalityType
  <2> QED
    BY <1>1, <1>2, <1>3, <1>6, <2>2, <2>3
<1> QED
  BY <1>2, <1>7, LeastIsOne

-----------------------------------------------------------------------------
(* Types *)

(* Which loop belongs to which place. *)
LEMMA Tables ==
    /\ DOMAIN SendPlace = {"join", "send", "leave"}
    /\ SendPlace["join"] = "joinSend" /\ SendPlace["send"] = "sendSend"
    /\ SendPlace["leave"] = "leaveSend"
    /\ DOMAIN LoopPlace = {"joinSend", "sendSend", "leaveSend"}
    /\ LoopPlace["joinSend"] = "join" /\ LoopPlace["sendSend"] = "send"
    /\ LoopPlace["leaveSend"] = "leave"
BY DEF SendPlace, LoopPlace

(* The types hold at the start. *)
LEMMA InitTypes == Init => Types
BY ChatThreadsAssumption
   DEF Init, Types, Places, Changing, Messaging, Adding, Removing, Threads

(* A step moves one thread. *)
LEMMA OneMoves ==
    ASSUME Types, Next
    PROVE  \/ UNCHANGED pc
           \/ \E h \in Handlers : \E to \in Places : pc' = [pc EXCEPT ![h] = to]
           \/ \E to \in {"fgets", "send", "sendSend"} :
                 pc' = [pc EXCEPT ![Console] = to]
<1> USE DEF Goto, StartBroadcast, Places, Changing, Messaging, Adding, Removing
<1>1. CASE \E h \in Handlers : Accept(h) \/ Disconnect(h)
  BY <1>1 DEF Accept, Disconnect, locals
<1>2. CASE \E h \in Handlers : HandlerStep(h)
  <2>1. PICK h \in Handlers : HandlerStep(h)
    BY <1>2
  <2>2. UNCHANGED pc \/ \E to \in Places : pc' = [pc EXCEPT ![h] = to]
    <3>1. CASE \/ RecvNick(h) \/ Check(h) \/ Store(h) \/ Load(h, "loadInc", "storeInc")
               \/ StoreInc(h) \/ SendBoard(h) \/ Recv(h)
      BY <3>1 DEF RecvNick, Check, Store, Load, StoreInc, SendBoard, Recv
    <3>2. CASE ~ (\/ RecvNick(h) \/ Check(h) \/ Store(h) \/ Load(h, "loadInc", "storeInc")
                  \/ StoreInc(h) \/ SendBoard(h) \/ Recv(h))
      BY <2>1, <3>2 DEF HandlerStep, RecvMove, StoreSymbol, Scan, AfterRemoval, Memmove,
                        Load, StoreDec, Close
    <3> QED
      BY <3>1, <3>2
  <2> QED
    BY <2>2
<1>3. CASE ConsoleLine
  BY <1>3 DEF ConsoleLine
<1>4. ASSUME NEW t \in Threads, LoopTest(t) \/ SendOne(t)
      PROVE  \/ t \in Handlers /\ \E to \in Places : pc' = [pc EXCEPT ![t] = to]
             \/ t = Console /\ \E to \in {"fgets", "send", "sendSend"} :
                                     pc' = [pc EXCEPT ![t] = to]
  <2>1. \E to : pc' = [pc EXCEPT ![t] = to] /\
           \/ pc[t] \in DOMAIN SendPlace /\ to \in {SendPlace[pc[t]], AfterBroadcast(t, pc[t])}
           \/ pc[t] \in DOMAIN LoopPlace /\ to = LoopPlace[pc[t]]
    BY <1>4 DEF LoopTest, SendOne
  <2>2. CASE t \in Handlers
    <3>1. t # Console
      BY <2>2, ChatThreadsAssumption
    <3> QED
      BY <2>1, <2>2, <3>1, Tables DEF AfterBroadcast
  <2>3. CASE t = Console
    <3>1. AfterBroadcast(t, pc[t]) = "fgets" /\ pc[t] \in {"fgets", "send", "sendSend"}
      BY <2>3 DEF AfterBroadcast, Types
    <3>2. /\ pc[t] \in DOMAIN SendPlace => SendPlace[pc[t]] = "sendSend"
          /\ pc[t] \in DOMAIN LoopPlace => LoopPlace[pc[t]] = "send"
      BY <3>1, Tables
    <3>3. \E to \in {"fgets", "send", "sendSend"} : pc' = [pc EXCEPT ![t] = to]
      BY <2>1, <3>1, <3>2
    <3> QED
      BY <2>3, <3>3
  <2> QED
    BY <2>2, <2>3 DEF Threads
<1> QED
  BY <1>1, <1>2, <1>3, <1>4 DEF Next

(* What a step does to the clients a broadcast has still to reach: they lose  *)
(* those that lost their place, or the list and its clients stay.            *)
LEMMA OwedMoves ==
    ASSUME Types, Next
    PROVE  \/ KeepOwed
           \/ \E t \in Threads : \E label \in Loops : StartBroadcast(t, label)
           \/ UNCHANGED owed
           \/ \E t \in Threads : SendOne(t)
<1>1. CASE \E h \in Handlers : Accept(h) \/ Disconnect(h)
  BY <1>1 DEF Accept, Disconnect, history
<1>2. ASSUME NEW h \in Handlers, HandlerStep(h)
      PROVE  \/ KeepOwed
             \/ \E label \in Loops : StartBroadcast(h, label)
             \/ UNCHANGED owed
  <2> USE DEF history, Loops
  <2>1. CASE \/ RecvNick(h) \/ Check(h) \/ Store(h) \/ Load(h, "loadInc", "storeInc")
             \/ SendBoard(h) \/ RecvMove(h) \/ Load(h, "loadDec", "storeDec") \/ Close(h)
             \/ Memmove(h)
    BY <2>1 DEF RecvNick, Check, Store, Load, SendBoard, RecvMove, Close, Memmove
  <2>2. CASE StoreInc(h) \/ Recv(h) \/ StoreSymbol(h)
    BY <2>2 DEF StoreInc, Recv, StoreSymbol
  <2>3. CASE Scan(h) \/ StoreDec(h)
    BY <2>3 DEF Scan, StoreDec, AfterRemoval
  <2> QED
    BY <1>2, <2>1, <2>2, <2>3 DEF HandlerStep
<1>3. CASE ConsoleLine
  <2>1. Console \in Threads /\ "send" \in Loops
    BY DEF Threads, Loops
  <2> QED
    BY <1>3, <2>1 DEF ConsoleLine
<1>4. CASE \E t \in Threads : LoopTest(t) \/ SendOne(t)
  BY <1>4 DEF LoopTest, history
<1>5. \A h \in Handlers : h \in Threads
  BY DEF Threads
<1> QED
  BY <1>1, <1>2, <1>3, <1>4, <1>5 DEF Next

(* Every step keeps the types. *)
LEMMA TypesStep ==
    ASSUME Types, Next
    PROVE  Types'
<1>0. /\ Console \notin Handlers /\ Console \in Threads
      /\ \A h \in Handlers : h \in Threads
  BY ChatThreadsAssumption DEF Threads
<1>1. /\ pc' \in [Threads -> Places \cup {"fgets"}]
      /\ pc'[Console] \in {"fgets", "send", "sendSend"}
      /\ \A h \in Handlers : pc'[h] # "fgets"
  <2>1. "fgets" \notin Places /\ {"send", "sendSend"} \subseteq Places
    BY DEF Places, Changing, Messaging, Adding, Removing
  <2>2. CASE UNCHANGED pc
    BY <2>2 DEF Types
  <2>3. CASE \E h \in Handlers : \E to \in Places : pc' = [pc EXCEPT ![h] = to]
    BY <1>0, <2>1, <2>3 DEF Types
  <2>4. CASE \E to \in {"fgets", "send", "sendSend"} : pc' = [pc EXCEPT ![Console] = to]
    BY <1>0, <2>1, <2>4 DEF Types
  <2> QED
    BY <2>2, <2>3, <2>4, OneMoves
<1>2. /\ program' \in {"pr_7", "pr_7_1"} /\ calm' \in BOOLEAN
  <2>1. UNCHANGED mode
    BY DEF Next, Accept, Disconnect, HandlerStep, RecvNick, Check, Store, Load, StoreInc,
           SendBoard, Recv, RecvMove, StoreSymbol, Scan, Memmove, StoreDec, Close,
           ConsoleLine, LoopTest, SendOne
  <2> QED
    BY <2>1 DEF mode, Types
<1>3. i' \in [Threads -> Nat]
  <2>1. \/ UNCHANGED i
        \/ \E t \in Threads : i' = [i EXCEPT ![t] = 0] \/ i' = [i EXCEPT ![t] = @ + 1]
    BY ZenonT(60), <1>0 DEF Next, Accept, Disconnect, HandlerStep, RecvNick, Check, Store, Load,
           StoreInc, SendBoard, Recv, RecvMove, StoreSymbol, Scan, AfterRemoval, Memmove,
           StoreDec, Close, ConsoleLine, LoopTest, SendOne, StartBroadcast, locals
  <2>2. i \in [Threads -> Nat]
    BY DEF Types
  <2> QED
    BY <2>1, <2>2
<1>4. n' \in [Threads -> Int] /\ num_clients' \in Int
  <2>1. \/ UNCHANGED <<n, num_clients>>
        \/ \E h \in Handlers : n' = [n EXCEPT ![h] = num_clients] /\ UNCHANGED num_clients
        \/ \E h \in Handlers : num_clients' \in {n[h] + 1, n[h] - 1} /\ UNCHANGED n
    BY ZenonT(60) DEF Next, Accept, Disconnect, HandlerStep, RecvNick, Check, Store, Load,
           StoreInc, SendBoard, Recv, RecvMove, StoreSymbol, Scan, AfterRemoval, Memmove,
           StoreDec, Close, ConsoleLine, LoopTest, SendOne, StartBroadcast, locals, list
  <2> QED
    BY <1>0, <2>1 DEF Types
<1>5. slots' \in [0..(MAX_CLIENTS - 1) -> Nat]
  <2>1. \/ UNCHANGED slots
        \/ \E h \in Handlers : Store(h) \/ Memmove(h)
    BY DEF Next, Accept, Disconnect, HandlerStep, RecvNick, Check, Load,
           StoreInc, SendBoard, Recv, RecvMove, StoreSymbol, Scan, AfterRemoval,
           StoreDec, Close, ConsoleLine, LoopTest, SendOne, locals, list
  <2>2. CASE UNCHANGED slots
    BY <2>2 DEF Types
  <2>3. CASE \E h \in Handlers : Store(h)
    BY <2>3 DEF Types, Store
  <2>4. ASSUME NEW h \in Handlers, Memmove(h), ~ UNCHANGED slots
        PROVE  slots' \in [0..(MAX_CLIENTS - 1) -> Nat]
    <3>1. PICK K : slots' = [k \in DOMAIN slots |->
                              IF k \in K
                              THEN IF k + 1 \in DOMAIN slots THEN slots[k + 1] ELSE 0
                              ELSE slots[k]]
      BY <2>4 DEF Memmove
    <3> QED
      BY <3>1 DEF Types
  <2> QED
    BY <2>1, <2>2, <2>3, <2>4
<1>6. sock' \in [Handlers -> Nat]
  <2>1. CASE \E h \in Handlers : Accept(h)
    <3>1. PICK h \in Handlers : Accept(h)
      BY <2>1
    <3>2. Min(Socket \ InUse) \in Nat
      BY <3>1, SocketLeft DEF Accept, At, Socket
    <3> QED
      BY <3>1, <3>2 DEF Accept, Types
  <2>2. CASE ~ \E h \in Handlers : Accept(h)
    <3>1. UNCHANGED sock
      BY <2>2 DEF Next, Disconnect, HandlerStep, RecvNick, Check, Store, Load, StoreInc,
           SendBoard, Recv, RecvMove, StoreSymbol, Scan, Memmove, StoreDec, Close,
           ConsoleLine, LoopTest, SendOne
    <3> QED
      BY <3>1 DEF Types
  <2> QED
    BY <2>1, <2>2
<1>7. peer' \in [Handlers -> {"none", "open", "closed", "reset"}]
  <2>1. \/ UNCHANGED peer
        \/ \E h \in Handlers : \E s \in {"open", "closed", "reset"} :
              peer' = [peer EXCEPT ![h] = s]
        \/ \E to : Send(to)
    BY DEF Next, Accept, Disconnect, HandlerStep, RecvNick, Check, Store, Load, StoreInc,
           SendBoard, Recv, RecvMove, StoreSymbol, Scan, Memmove, StoreDec, Close,
           ConsoleLine, LoopTest, SendOne
  <2> QED
    BY <2>1 DEF Types, Send
<1>8. owed' \in [Threads -> SUBSET (Handlers \X (0..(MAX_CLIENTS - 1)))]
  <2>1. Placed' \subseteq Handlers \X (0..(MAX_CLIENTS - 1))
    <3>1. DOMAIN slots' = 0..(MAX_CLIENTS - 1)
      BY <1>5
    <3> QED
      BY <3>1 DEF Placed
  <2>2. CASE KeepOwed
    BY <2>1, <2>2 DEF KeepOwed
  <2>3. CASE \E t \in Threads : \E label \in Loops : StartBroadcast(t, label)
    BY <2>1, <2>3 DEF StartBroadcast
  <2>4. CASE UNCHANGED owed
    BY <2>4 DEF Types
  <2>5. CASE \E t \in Threads : SendOne(t)
    <3>1. PICK t \in Threads : SendOne(t)
      BY <2>5
    <3>2. PICK to : owed' = [owed EXCEPT ![t] = {e \in @ : e[1] \notin to}]
      BY <3>1 DEF SendOne
    <3>3. owed \in [Threads -> SUBSET (Handlers \X (0..(MAX_CLIENTS - 1)))]
      BY DEF Types
    <3>4. {e \in owed[t] : e[1] \notin to} \in SUBSET (Handlers \X (0..(MAX_CLIENTS - 1)))
      BY <3>3
    <3> QED
      BY <3>2, <3>3, <3>4
  <2> QED
    BY <2>2, <2>3, <2>4, <2>5, OwedMoves
<1>9. met' \in SUBSET {"adds", "changes"}
  <2>1. UNCHANGED met \/ \E h \in Handlers : Check(h) \/ Recv(h) \/ Scan(h)
    BY DEF Next, Accept, Disconnect, HandlerStep, RecvNick, Store, Load, StoreInc,
           SendBoard, RecvMove, StoreSymbol, Memmove, StoreDec, Close,
           ConsoleLine, LoopTest, SendOne, history
  <2>2. ASSUME NEW h \in Handlers, Check(h) \/ Recv(h) \/ Scan(h)
        PROVE  met' \subseteq met \cup {"adds", "changes"}
    BY <2>2 DEF Check, Recv, Scan, history
  <2> QED
    BY <2>1, <2>2 DEF Types
<1> QED
  BY <1>1, <1>2, <1>3, <1>4, <1>5, <1>6, <1>7, <1>8, <1>9 DEF Types

-----------------------------------------------------------------------------
(* Clients and their sockets *)

(* Who moves, and how far the other variables of the handlers follow.        *)
LEMMA PeerMoves ==
    ASSUME Types, Peers, Next
    PROVE  \/ \E h \in Handlers : Accept(h)
           \/ \E h \in Handlers : Disconnect(h)
           \/ /\ UNCHANGED sock
              /\ \A h \in Handlers :
                   /\ peer[h] \in {"none", "open"} => peer'[h] = peer[h]
                   /\ peer[h] \in {"closed", "reset"} => peer'[h] \in {"closed", "reset"}
                   /\ pc'[h] = "none" <=> pc[h] = "none"
                   /\ pc[h] = "done" => pc'[h] = "done"
                   /\ pc'[h] \in Removing =>
                         pc[h] \in Removing \/ (pc[h] = "recv" /\ peer[h] # "open")
<1> SUFFICES ASSUME ~ \E h \in Handlers : Accept(h) \/ Disconnect(h)
             PROVE  /\ UNCHANGED sock
                    /\ \A h \in Handlers :
                         /\ peer[h] \in {"none", "open"} => peer'[h] = peer[h]
                         /\ peer[h] \in {"closed", "reset"} =>
                               peer'[h] \in {"closed", "reset"}
                         /\ pc'[h] = "none" <=> pc[h] = "none"
                         /\ pc[h] = "done" => pc'[h] = "done"
                         /\ pc'[h] \in Removing =>
                               pc[h] \in Removing \/ (pc[h] = "recv" /\ peer[h] # "open")
  OBVIOUS
<1>0. /\ Console \notin Handlers /\ Console \in Threads
      /\ \A h \in Handlers : h \in Threads
  BY ChatThreadsAssumption DEF Threads
<1>1. UNCHANGED sock
  BY DEF Next, HandlerStep, RecvNick, Check, Store, Load, StoreInc, SendBoard, Recv,
         RecvMove, StoreSymbol, Scan, Memmove, StoreDec, Close, ConsoleLine, LoopTest,
         SendOne
<1>2. ASSUME NEW h \in Handlers
      PROVE  /\ peer[h] \in {"none", "open"} => peer'[h] = peer[h]
             /\ peer[h] \in {"closed", "reset"} => peer'[h] \in {"closed", "reset"}
  <2>1. \/ UNCHANGED peer \/ \E to : Send(to)
        \/ \E g \in Handlers : pc[g] = "recv" /\ peer[g] # "open"
                              /\ peer' = [peer EXCEPT ![g] = "reset"]
    BY DEF Next, HandlerStep, RecvNick, Check, Store, Load, StoreInc, SendBoard, Recv,
           RecvMove, StoreSymbol, Scan, Memmove, StoreDec, Close, ConsoleLine, LoopTest,
           SendOne, At
  <2>2. \A g \in Handlers : pc[g] = "recv" => peer[g] # "none"
    BY DEF Peers
  <2> QED
    BY <2>1, <2>2 DEF Types, Send
<1>3. ASSUME NEW h \in Handlers
      PROVE  /\ pc'[h] = "none" <=> pc[h] = "none"
             /\ pc[h] = "done" => pc'[h] = "done"
             /\ pc'[h] \in Removing =>
                   pc[h] \in Removing \/ (pc[h] = "recv" /\ peer[h] # "open")
  <2> USE DEF Goto, StartBroadcast, At, Removing
  <2>1. CASE ConsoleLine
    BY <1>0, <2>1 DEF ConsoleLine, Types
  <2>2. CASE \E g \in Handlers : HandlerStep(g)
    <3>1. PICK g \in Handlers : HandlerStep(g)
      BY <2>2
    <3>2. CASE \/ RecvNick(g) \/ Check(g) \/ Store(g) \/ Load(g, "loadInc", "storeInc")
               \/ StoreInc(g) \/ SendBoard(g)
      BY <1>0, <3>2
         DEF RecvNick, Check, Store, Load, StoreInc, SendBoard, Types
    <3>3. CASE \/ Recv(g) \/ RecvMove(g) \/ StoreSymbol(g)
      BY <1>0, <3>3 DEF Recv, RecvMove, StoreSymbol, Types
    <3>4. CASE \/ Scan(g) \/ Memmove(g) \/ Load(g, "loadDec", "storeDec")
               \/ StoreDec(g) \/ Close(g)
      BY <1>0, <3>4 DEF Scan, AfterRemoval, Memmove, Load, StoreDec, Close, Types
    <3> QED
      BY <3>1, <3>2, <3>3, <3>4 DEF HandlerStep
  <2>3. CASE \E t \in Threads : LoopTest(t) \/ SendOne(t)
    <3>1. PICK t \in Threads : LoopTest(t) \/ SendOne(t)
      BY <2>3
    <3>2. CASE LoopTest(t)
      <4>1. \E to \in {SendPlace[pc[t]], AfterBroadcast(t, pc[t])} :
               pc' = [pc EXCEPT ![t] = to] /\ pc[t] \in DOMAIN SendPlace
        BY <3>2 DEF LoopTest
      <4> QED
        BY <1>0, <4>1, Tables DEF AfterBroadcast, Types
    <3>3. CASE SendOne(t)
      <4>1. pc' = [pc EXCEPT ![t] = LoopPlace[pc[t]]] /\ pc[t] \in DOMAIN LoopPlace
        BY <3>3 DEF SendOne
      <4> QED
        BY <1>0, <4>1, Tables DEF Types
    <3> QED
      BY <3>1, <3>2, <3>3
  <2> QED
    BY <2>1, <2>2, <2>3 DEF Next
<1> QED
  BY <1>1, <1>2, <1>3

(* Every step keeps handlers and their clients together. *)
LEMMA PeersStep ==
    ASSUME Types, Peers, Next
    PROVE  Peers'
<1>0. \A h \in Handlers : h \in Threads
  BY DEF Threads
<1>1. CASE \E h \in Handlers : Accept(h)
  BY <1>0, <1>1 DEF Accept, Goto, At, Types, Peers, Removing
<1>2. CASE \E h \in Handlers : Disconnect(h)
  BY <1>0, <1>2 DEF Disconnect, locals, Types, Peers, Removing
<1>3. CASE ~ \E h \in Handlers : Accept(h) \/ Disconnect(h)
  <2> SUFFICES ASSUME NEW h \in Handlers
               PROVE  /\ pc'[h] = "none" <=> peer'[h] = "none"
                      /\ pc'[h] \in Removing => peer'[h] \in {"closed", "reset"}
    BY DEF Peers
  <2>1. peer[h] \in {"none", "open", "closed", "reset"}
    BY DEF Types
  <2>2. pc[h] = "none" <=> peer[h] = "none"
    BY DEF Peers
  <2>3. pc[h] \in Removing => peer[h] \in {"closed", "reset"}
    BY DEF Peers
  <2> QED
    BY <1>3, <2>1, <2>2, <2>3, PeerMoves
<1> QED
  BY <1>1, <1>2, <1>3

(* Every step keeps the sockets of different clients different. *)
LEMMA SocketsDifferStep ==
    ASSUME Types, Peers, SocketsDiffer, Next
    PROVE  SocketsDiffer'
<1>0. \A h \in Handlers : h \in Threads
  BY DEF Threads
<1>1. CASE \E h \in Handlers : Accept(h)
  <2>1. PICK h \in Handlers : Accept(h)
    BY <1>1
  <2>2. Min(Socket \ InUse) \notin InUse
    BY <2>1, SocketLeft DEF Accept, At
  <2>3. \A g \in Handlers : Owns(g) => sock[g] \in InUse
    BY DEF Owns, InUse
  <2>4. /\ sock' = [sock EXCEPT ![h] = Min(Socket \ InUse)]
        /\ \A g \in Handlers : g # h => pc'[g] = pc[g]
    BY <1>0, <2>1 DEF Accept, Goto, Types
  <2>5. sock'[h] = Min(Socket \ InUse) /\ \A g \in Handlers : g # h => sock'[g] = sock[g]
    BY <2>4 DEF Types
  <2>6. SUFFICES ASSUME NEW f \in Handlers, NEW g \in Handlers,
                        Owns(f)', Owns(g)', sock'[f] = sock'[g]
                 PROVE  f = g
    BY DEF SocketsDiffer
  <2>7. /\ f # h => Owns(f) /\ sock'[f] = sock[f] /\ sock[f] \in InUse
        /\ g # h => Owns(g) /\ sock'[g] = sock[g] /\ sock[g] \in InUse
    BY <2>3, <2>4, <2>5, <2>6 DEF Owns
  <2> QED
    BY <2>2, <2>5, <2>6, <2>7 DEF SocketsDiffer
<1>2. CASE \E h \in Handlers : Disconnect(h)
  BY <1>2 DEF Disconnect, locals, SocketsDiffer, Owns
<1>3. CASE ~ \E h \in Handlers : Accept(h) \/ Disconnect(h)
  BY <1>3, PeerMoves DEF SocketsDiffer, Owns
<1> QED
  BY <1>1, <1>2, <1>3

-----------------------------------------------------------------------------
(* One change at a time *)

(* While all threads wait nobody is changing the list, sends or leaves.      *)
LEMMA AtRest ==
    ASSUME Types, Peers, \A t \in Threads : Waiting(t)
    PROVE  /\ \A h \in Handlers : ~ Busy(h)
           /\ \A t \in Threads : pc[t] \notin Messaging
           /\ NobodyLeaves
<1>0. \A h \in Handlers : h \in Threads
  BY DEF Threads
<1> QED
  BY <1>0 DEF Types, Peers, Waiting, Busy, NobodyLeaves, Changing, Messaging, Adding,
              Removing

(* In a calm server an input is only handled when all threads wait. *)
LEMMA NewlyBusy ==
    ASSUME Types, Peers, NobodyLeft, calm, Next,
           NEW h \in Handlers, Busy(h)', ~ Busy(h)
    PROVE  /\ \A t \in Threads : Waiting(t)
           /\ Accept(h) \/ Disconnect(h) \/ RecvNick(h)
<1>0. /\ Console \notin Handlers /\ Console \in Threads
      /\ \A g \in Handlers : g \in Threads
  BY ChatThreadsAssumption DEF Threads
<1> USE DEF Goto, StartBroadcast, At, Busy, Changing, Adding, Removing
<1>1. CASE \E g \in Handlers : Accept(g)
  <2>1. PICK g \in Handlers : Accept(g)
    BY <1>1
  <2>2. \A t \in Threads : Waiting(t)
    BY <2>1 DEF Accept, InputAllowed
  <2>3. g # h => pc'[h] = pc[h] /\ peer'[h] = peer[h]
    BY <1>0, <2>1 DEF Accept, Types
  <2> QED
    BY <2>1, <2>2, <2>3
<1>2. CASE \E g \in Handlers : Disconnect(g)
  <2>1. PICK g \in Handlers : Disconnect(g)
    BY <1>2
  <2>2. \A t \in Threads : Waiting(t)
    BY <2>1 DEF Disconnect, InputAllowed
  <2>3. pc'[h] = pc[h] /\ (g # h => peer'[h] = peer[h])
    BY <1>0, <2>1 DEF Disconnect, locals, Types
  <2> QED
    BY <2>1, <2>2, <2>3
<1>3. CASE ~ \E g \in Handlers : Accept(g) \/ Disconnect(g)
  <2>1. /\ peer[h] = "open" => peer'[h] = "open"
        /\ peer[h] # "open" => peer'[h] # "open"
    BY <1>3, PeerMoves DEF Types
  <2>2. pc'[h] # pc[h]
    BY <2>1
  <2>3. CASE ConsoleLine
    BY <1>0, <2>2, <2>3 DEF ConsoleLine, Types
  <2>4. CASE \E g \in Handlers : HandlerStep(g)
    <3>1. PICK g \in Handlers : HandlerStep(g)
      BY <2>4
    <3>2. CASE \/ Check(g) \/ Store(g) \/ Load(g, "loadInc", "storeInc")
               \/ StoreInc(g) \/ SendBoard(g)
      BY <1>0, <2>2, <3>2 DEF Check, Store, Load, StoreInc, SendBoard, Types
    <3>3. CASE \/ Recv(g) \/ RecvMove(g) \/ StoreSymbol(g)
      BY <1>0, <2>2, <3>3 DEF Recv, RecvMove, StoreSymbol, Types
    <3>4. CASE \/ Scan(g) \/ Memmove(g) \/ Load(g, "loadDec", "storeDec")
               \/ StoreDec(g) \/ Close(g)
      BY <1>0, <2>2, <3>4 DEF Scan, AfterRemoval, Memmove, Load, StoreDec, Close, Types
    <3>5. CASE RecvNick(g)
      <4>1. g = h
        BY <1>0, <2>2, <3>5 DEF RecvNick, Types
      <4> QED
        BY <1>0, <3>5, <4>1 DEF RecvNick, InputAllowed, Types
    <3> QED
      BY <3>1, <3>2, <3>3, <3>4, <3>5 DEF HandlerStep
  <2>5. ASSUME NEW t \in Threads, LoopTest(t) \/ SendOne(t) PROVE FALSE
    <3>1. t = h
      BY <1>0, <2>2, <2>5 DEF LoopTest, SendOne, Types
    <3>2. CASE pc[h] \in Messaging
      <4>1. peer[h] = "open"
        BY <1>0, <3>2 DEF NobodyLeft, NobodyLeaves, Messaging, Peers
      <4>2. pc'[h] \in {"send", "sendSend", "recv"}
        <5>1. CASE LoopTest(t)
          <6>1. pc'[h] \in {SendPlace[pc[h]], AfterBroadcast(h, pc[h])}
                /\ pc[h] \in DOMAIN SendPlace
            BY <1>0, <3>1, <5>1 DEF LoopTest, Types
          <6> QED
            BY <1>0, <3>2, <6>1, Tables DEF AfterBroadcast, Messaging
        <5>2. CASE SendOne(t)
          <6>1. pc'[h] = LoopPlace[pc[h]] /\ pc[h] \in DOMAIN LoopPlace
            BY <1>0, <3>1, <5>2 DEF SendOne, Types
          <6> QED
            BY <3>2, <6>1, Tables DEF Messaging
        <5> QED
          BY <2>5, <5>1, <5>2
      <4> QED
        BY <2>1, <4>1, <4>2
    <3>3. CASE pc[h] \notin Messaging
      <4>1. pc[h] \in {"join", "leave", "joinSend", "leaveSend"}
        BY <2>5, <3>1, <3>3, Tables DEF LoopTest, SendOne, Messaging
      <4> QED
        BY <4>1
    <3> QED
      BY <3>2, <3>3
  <2> QED
    BY <1>3, <2>3, <2>4, <2>5 DEF Next
<1> QED
  BY <1>1, <1>2, <1>3

(* So one thread at a time is busy. *)
LEMMA OneBusyStep ==
    ASSUME Types, Peers, OneBusy, NobodyLeft, calm, Next
    PROVE  OneBusy'
<1> SUFFICES ASSUME NEW g \in Handlers, NEW h \in Handlers, Busy(g)', Busy(h)', g # h
             PROVE  FALSE
  BY DEF OneBusy
<1>0. g \in Threads /\ h \in Threads
  BY DEF Threads
<1>1. ~ Busy(g) \/ ~ Busy(h)
  BY DEF OneBusy
<1>2. \A t \in Threads : Waiting(t)
  BY <1>1, NewlyBusy
<1>3. ~ Busy(g) /\ ~ Busy(h)
  BY <1>2, AtRest
<1>4. /\ Accept(g) \/ Disconnect(g) \/ RecvNick(g)
      /\ Accept(h) \/ Disconnect(h) \/ RecvNick(h)
  BY <1>3, NewlyBusy
<1>5. ASSUME NEW f \in Handlers, Accept(f) \/ Disconnect(f) \/ RecvNick(f)
      PROVE  /\ \A e \in Handlers : e # f => pc'[e] = pc[e] /\ peer'[e] = peer[e]
             /\ pc'[f] # pc[f] \/ peer'[f] # peer[f]
  BY <1>5 DEF Accept, Disconnect, RecvNick, At, Goto, locals, Types, Threads
<1> QED
  BY <1>4, <1>5

(* In a calm server nobody leaves while another input is handled. *)
LEMMA NobodyLeftStep ==
    ASSUME Types, Peers, NobodyLeft, calm, Next
    PROVE  NobodyLeft'
<1>0. /\ Console \notin Handlers /\ Console \in Threads
      /\ \A g \in Handlers : g \in Threads
  BY ChatThreadsAssumption DEF Threads
<1> USE DEF Goto, StartBroadcast, At, Messaging
<1>1. CASE \A t \in Threads : Waiting(t)
  <2>1. CASE \E h \in Handlers : Accept(h) \/ Disconnect(h)
    <3>1. \A t \in Threads : pc[t] \notin Messaging
      BY <1>1, AtRest
    <3>2. PICK h \in Handlers : Accept(h) \/ Disconnect(h)
      BY <2>1
    <3>3. CASE Accept(h)
      <4>1. \A t \in Threads : pc'[t] = pc[t] \/ pc'[t] \in {"nick", "check"}
        BY <3>3 DEF Accept, Types
      <4> QED
        BY <3>1, <4>1 DEF NobodyLeft
    <3>4. CASE Disconnect(h)
      BY <3>1, <3>4 DEF Disconnect, locals, NobodyLeft
    <3> QED
      BY <3>2, <3>3, <3>4
  <2>2. CASE ~ \E h \in Handlers : Accept(h) \/ Disconnect(h)
    <3>1. NobodyLeaves
      BY <1>1, AtRest
    <3>2. NobodyLeaves'
      BY <2>2, <3>1, PeerMoves DEF NobodyLeaves
    <3> QED
      BY <3>2 DEF NobodyLeft
  <2> QED
    BY <2>1, <2>2
<1>2. CASE ~ \A t \in Threads : Waiting(t)
  <2>1. \A h \in Handlers : ~ Accept(h) /\ ~ Disconnect(h)
    BY <1>2 DEF Accept, Disconnect, InputAllowed
  <2>2. NobodyLeaves => NobodyLeaves'
    BY <2>1, PeerMoves DEF NobodyLeaves
  <2>3. SUFFICES ASSUME NEW t \in Threads, pc'[t] \in Messaging
                 PROVE  pc[t] \in Messaging \/ NobodyLeaves
    BY <2>2 DEF NobodyLeft
  <2>4. ~ ConsoleLine
    BY <1>2 DEF ConsoleLine, InputAllowed
  <2>5. CASE \E g \in Handlers : HandlerStep(g)
    <3>1. PICK g \in Handlers : HandlerStep(g)
      BY <2>5
    <3>2. CASE \/ RecvNick(g) \/ Check(g) \/ Store(g) \/ Load(g, "loadInc", "storeInc")
               \/ StoreInc(g) \/ SendBoard(g)
      BY <1>0, <2>3, <3>2 DEF RecvNick, Check, Store, Load, StoreInc, SendBoard, Types
    <3>3. CASE Recv(g) \/ RecvMove(g) \/ StoreSymbol(g)
      BY <1>0, <1>2, <2>3, <3>3 DEF Recv, RecvMove, StoreSymbol, InputAllowed, Types
    <3>4. CASE \/ Scan(g) \/ Memmove(g) \/ Load(g, "loadDec", "storeDec")
               \/ StoreDec(g) \/ Close(g)
      BY <1>0, <2>3, <3>4 DEF Scan, AfterRemoval, Memmove, Load, StoreDec, Close, Types
    <3> QED
      BY <3>1, <3>2, <3>3, <3>4 DEF HandlerStep
  <2>6. ASSUME NEW u \in Threads, LoopTest(u) \/ SendOne(u)
        PROVE  pc[t] \in Messaging \/ NobodyLeaves
    <3>1. CASE LoopTest(u)
      <4>1. \E to \in {SendPlace[pc[u]], AfterBroadcast(u, pc[u])} :
               pc' = [pc EXCEPT ![u] = to] /\ pc[u] \in DOMAIN SendPlace
        BY <3>1 DEF LoopTest
      <4> QED
        BY <1>0, <2>3, <4>1, Tables DEF AfterBroadcast, Types
    <3>2. CASE SendOne(u)
      <4>1. pc' = [pc EXCEPT ![u] = LoopPlace[pc[u]]] /\ pc[u] \in DOMAIN LoopPlace
        BY <3>2 DEF SendOne
      <4> QED
        BY <1>0, <2>3, <4>1, Tables DEF Types
    <3> QED
      BY <2>6, <3>1, <3>2
  <2> QED
    BY <2>1, <2>4, <2>5, <2>6 DEF Next
<1> QED
  BY <1>1, <1>2

-----------------------------------------------------------------------------
(* Broadcasts *)

(* A step leaves the locals of other threads alone. *)
LEMMA OthersKeep ==
    ASSUME Types, Next, NEW t \in Threads,
           t \in Handlers => ~ HandlerStep(t) /\ ~ Accept(t),
           ~ (t = Console /\ ConsoleLine), ~ LoopTest(t), ~ SendOne(t)
    PROVE  /\ pc'[t] = pc[t] /\ i'[t] = i[t] /\ n'[t] = n[t]
           /\ t \in Handlers => sock'[t] = sock[t]
<1>0. /\ Console \notin Handlers /\ Console \in Threads
      /\ \A g \in Handlers : g \in Threads
  BY ChatThreadsAssumption DEF Threads
<1> USE DEF Goto, StartBroadcast, At
<1>1. ASSUME NEW g \in Handlers, Accept(g) \/ Disconnect(g)
      PROVE  /\ pc'[t] = pc[t] /\ i'[t] = i[t] /\ n'[t] = n[t]
             /\ t \in Handlers => sock'[t] = sock[t]
  BY <1>0, <1>1 DEF Accept, Disconnect, locals, Types
<1>2. ASSUME ConsoleLine
      PROVE  /\ pc'[t] = pc[t] /\ i'[t] = i[t] /\ n'[t] = n[t]
             /\ t \in Handlers => sock'[t] = sock[t]
  BY <1>0, <1>2 DEF ConsoleLine, Types
<1>3. ASSUME NEW g \in Handlers, HandlerStep(g)
      PROVE  /\ pc'[t] = pc[t] /\ i'[t] = i[t] /\ n'[t] = n[t]
             /\ t \in Handlers => sock'[t] = sock[t]
  <2>0. g # t /\ g \in Threads
    BY <1>0, <1>3
  <2>1. CASE \/ RecvNick(g) \/ Check(g) \/ Store(g) \/ Load(g, "loadInc", "storeInc")
             \/ StoreInc(g) \/ SendBoard(g)
    BY <2>0, <2>1 DEF RecvNick, Check, Store, Load, StoreInc, SendBoard, Types
  <2>2. CASE \/ Recv(g) \/ RecvMove(g) \/ StoreSymbol(g)
    BY <2>0, <2>2 DEF Recv, RecvMove, StoreSymbol, Types
  <2>3. CASE \/ Scan(g) \/ Memmove(g) \/ Load(g, "loadDec", "storeDec")
             \/ StoreDec(g) \/ Close(g)
    BY <2>0, <2>3 DEF Scan, AfterRemoval, Memmove, Load, StoreDec, Close, Types
  <2> QED
    BY <1>3, <2>1, <2>2, <2>3 DEF HandlerStep
<1>4. ASSUME NEW u \in Threads, LoopTest(u) \/ SendOne(u)
      PROVE  /\ pc'[t] = pc[t] /\ i'[t] = i[t] /\ n'[t] = n[t]
             /\ t \in Handlers => sock'[t] = sock[t]
  BY <1>4 DEF LoopTest, SendOne, Types
<1> QED
  BY <1>1, <1>2, <1>3, <1>4 DEF Next


(* As long as the list and its clients stay, so do the places. *)
LEMMA PlacedStays ==
    ASSUME UNCHANGED list,
           \A h \in Handlers : Owns(h) => pc'[h] \notin {"none", "done"} /\ sock'[h] = sock[h]
    PROVE  Placed \subseteq Placed'
<1> SUFFICES ASSUME NEW e \in Placed PROVE e \in Placed'
  OBVIOUS
<1>1. UNCHANGED <<slots, num_clients>>
  BY DEF list
<1>2. /\ e \in Handlers \X DOMAIN slots /\ e[2] < num_clients
      /\ e[1] \in Handlers /\ sock[e[1]] = slots[e[2]] /\ Owns(e[1])
  BY DEF Placed, Owner, Owns
<1>3. sock'[e[1]] = slots'[e[2]] /\ pc'[e[1]] \notin {"none", "done"}
  BY <1>1, <1>2
<1> QED
  BY <1>1, <1>2, <1>3 DEF Placed, Owner

(* A step that forgets nobody leaves the places alone. *)
LEMMA NobodyLosesPlace ==
    ASSUME Types, Peers, Next, ~ KeepOwed,
           ~ \E t \in Threads : \E label \in Loops : StartBroadcast(t, label)
    PROVE  Placed \subseteq Placed'
<1>0. \A h \in Handlers : h \in Threads
  BY DEF Threads
<1>1. CASE \E h \in Handlers : Accept(h) \/ Disconnect(h)
  <2>1. PICK h \in Handlers : Accept(h) \/ Disconnect(h)
    BY <1>1
  <2>2. UNCHANGED list
    BY <2>1 DEF Accept, Disconnect
  <2>3. \A g \in Handlers : Owns(g) => pc'[g] \notin {"none", "done"} /\ sock'[g] = sock[g]
    BY <1>0, <2>1 DEF Accept, Disconnect, At, Goto, Owns, locals, Types
  <2> QED
    BY <2>2, <2>3, PlacedStays
<1>2. CASE ~ \E h \in Handlers : Accept(h) \/ Disconnect(h)
  <2>1. ASSUME NEW h \in Handlers, HandlerStep(h)
        PROVE  \/ /\ UNCHANGED list
                  /\ UNCHANGED pc \/ \E to \in Places \ {"none", "done"} :
                                                  pc' = [pc EXCEPT ![h] = to]
               \/ UNCHANGED <<slots, pc, num_clients>>
    <3> USE DEF Goto, Places, Changing, Messaging, Adding, Removing
    <3>1. \A label \in Loops : ~ StartBroadcast(h, label)
      BY <1>0
    <3>2. CASE \/ RecvNick(h) \/ Check(h) \/ Load(h, "loadInc", "storeInc")
               \/ SendBoard(h) \/ RecvMove(h) \/ Load(h, "loadDec", "storeDec")
      BY <3>2 DEF RecvNick, Check, Load, SendBoard, RecvMove
    <3>3. CASE Store(h) \/ Close(h) \/ StoreInc(h) \/ StoreSymbol(h) \/ StoreDec(h)
      BY <3>1, <3>3 DEF Store, Close, StoreInc, StoreSymbol, StoreDec, AfterRemoval, Loops
    <3>4. CASE Recv(h) \/ Scan(h)
      BY <3>1, <3>4 DEF Recv, Scan, AfterRemoval, Loops
    <3>5. CASE Memmove(h)
      BY <3>5 DEF Memmove
    <3> QED
      BY <2>1, <3>2, <3>3, <3>4, <3>5 DEF HandlerStep
  <2>2. ASSUME NEW t \in Threads, LoopTest(t) \/ SendOne(t)
        PROVE  UNCHANGED list /\ \E to : to \notin {"none", "done"} /\ pc' = [pc EXCEPT ![t] = to]
    <3>1. CASE LoopTest(t)
      <4>1. \E to \in {SendPlace[pc[t]], AfterBroadcast(t, pc[t])} :
               pc' = [pc EXCEPT ![t] = to] /\ pc[t] \in DOMAIN SendPlace
        BY <3>1 DEF LoopTest, Goto
      <4>2. UNCHANGED list
        BY <3>1 DEF LoopTest
      <4>3. \A to \in {SendPlace[pc[t]], AfterBroadcast(t, pc[t])} : to \notin {"none", "done"}
        BY <4>1, Tables DEF AfterBroadcast
      <4> QED
        BY <4>1, <4>2, <4>3
    <3>2. CASE SendOne(t)
      BY <3>2, Tables DEF SendOne, Goto
    <3> QED
      BY <2>2, <3>1, <3>2
  <2>3. ~ ConsoleLine
    BY DEF ConsoleLine, Threads, Loops
  <2>4. UNCHANGED list /\ \A g \in Handlers : Owns(g) => pc'[g] \notin {"none", "done"}
    <3>1. CASE \E h \in Handlers : HandlerStep(h)
      BY <1>0, <2>1, <3>1 DEF Types, Owns, list
    <3>2. CASE \E t \in Threads : LoopTest(t) \/ SendOne(t)
      BY <1>0, <2>2, <3>2 DEF Types, Owns
    <3> QED
      BY <1>2, <2>3, <3>1, <3>2 DEF Next
  <2>5. UNCHANGED sock
    BY <1>2, PeerMoves
  <2> QED
    BY <2>4, <2>5, PlacedStays
<1> QED
  BY <1>1, <1>2

(* A step that starts no broadcast of t adds nobody to it.                   *)
LEMMA OwedShrinks ==
    ASSUME Types, Peers, Next, NEW t \in Threads, Owed(t),
           \A label \in Loops : ~ StartBroadcast(t, label)
    PROVE  owed'[t] \subseteq owed[t] /\ owed'[t] \subseteq Placed'
<1>1. DOMAIN owed = Threads /\ owed[t] \subseteq Placed
  BY DEF Types, Owed
<1>2. CASE KeepOwed
  BY <1>1, <1>2 DEF KeepOwed
<1>3. CASE \E u \in Threads : \E label \in Loops : StartBroadcast(u, label)
  <2>1. PICK u \in Threads : \E label \in Loops : StartBroadcast(u, label)
    BY <1>3
  <2>2. u # t
    BY <2>1
  <2> QED
    BY <1>1, <2>1, <2>2 DEF StartBroadcast
<1>4. CASE /\ ~ KeepOwed
           /\ ~ \E u \in Threads : \E label \in Loops : StartBroadcast(u, label)
  <2>1. Placed \subseteq Placed'
    BY <1>4, NobodyLosesPlace
  <2>2. UNCHANGED owed \/ \E u \in Threads : SendOne(u)
    BY <1>4, OwedMoves
  <2>3. owed'[t] \subseteq owed[t]
    <3>1. CASE UNCHANGED owed
      BY <3>1
    <3>2. ASSUME NEW u \in Threads, SendOne(u)
          PROVE  owed'[t] \subseteq owed[t]
      <4>1. PICK to : owed' = [owed EXCEPT ![u] = {e \in @ : e[1] \notin to}]
        BY <3>2 DEF SendOne
      <4> QED
        BY <1>1, <4>1
    <3> QED
      BY <2>2, <3>1, <3>2
  <2> QED
    BY <1>1, <2>1, <2>3
<1> QED
  BY <1>2, <1>3, <1>4

(* A handler outside of a loop steps to a loop only by starting a broadcast. *)
LEMMA HandlerOutside ==
    ASSUME Types, NEW h \in Handlers, HandlerStep(h) \/ Accept(h)
    PROVE  /\ pc[h] \notin Loops
           /\ pc'[h] \in Loops => \E label \in Loops : StartBroadcast(h, label)
<1>0. h \in Threads /\ DOMAIN pc = Threads
  BY DEF Threads, Types
<1> USE DEF At, Goto, Loops
<1>1. CASE \/ RecvNick(h) \/ Check(h) \/ Store(h) \/ Load(h, "loadInc", "storeInc")
           \/ SendBoard(h) \/ RecvMove(h) \/ Load(h, "loadDec", "storeDec")
           \/ Close(h) \/ Memmove(h) \/ Accept(h)
  BY <1>0, <1>1 DEF RecvNick, Check, Store, Load, SendBoard, RecvMove, Close, Memmove, Accept
<1>2. CASE StoreInc(h) \/ Recv(h) \/ StoreSymbol(h)
  BY <1>0, <1>2 DEF StoreInc, Recv, StoreSymbol
<1>3. CASE Scan(h) \/ StoreDec(h)
  BY <1>0, <1>3 DEF Scan, StoreDec, AfterRemoval
<1> QED
  BY <1>1, <1>2, <1>3 DEF HandlerStep

(* Every step keeps what a broadcast owes. *)
LEMMA OwedStep ==
    ASSUME Types, Peers, SocketsDiffer, Next, NEW t \in Threads, Owed(t)
    PROVE  Owed(t)'
<1>0. /\ Console \notin Handlers /\ Console \in Threads
      /\ \A g \in Handlers : g \in Threads
      /\ DOMAIN pc = Threads /\ DOMAIN i = Threads /\ DOMAIN owed = Threads
      /\ DOMAIN slots = 0..(MAX_CLIENTS - 1)
      /\ i[t] \in Nat /\ num_clients \in Int /\ MAX_CLIENTS \in Nat
  BY ChatThreadsAssumption DEF Types, Threads
<1>1. \A e \in owed[t] : /\ e \in Handlers \X (0..(MAX_CLIENTS - 1))
                         /\ e[1] \in Handlers /\ e[2] \in 0..(MAX_CLIENTS - 1)
                         /\ e[2] < num_clients /\ i[t] <= e[2]
                         /\ sock[e[1]] = slots[e[2]] /\ Owns(e[1])
  BY <1>0 DEF Owed, Placed, Owner, Owns
<1>2. UNCHANGED program
  BY DEF Next, Accept, Disconnect, HandlerStep, RecvNick, Check, Store, Load, StoreInc,
         SendBoard, Recv, RecvMove, StoreSymbol, Scan, Memmove, StoreDec, Close,
         ConsoleLine, LoopTest, SendOne, mode
<1>3. CASE \E label \in Loops : StartBroadcast(t, label)
  <2>1. PICK label \in Loops : StartBroadcast(t, label)
    BY <1>3
  <2>2. /\ pc'[t] = label /\ i'[t] = 0
        /\ owed'[t] = {e \in Placed' : program = "pr_7" /\ label # "leave" => e[1] # t}
    BY <1>0, <2>1 DEF StartBroadcast, Goto
  <2>3. \A e \in Placed' : e[2] \in Nat
    <3>1. DOMAIN slots' = 0..(MAX_CLIENTS - 1)
      BY TypesStep DEF Types
    <3> QED
      BY <3>1 DEF Placed
  <2>4. owed'[t] \subseteq Placed' /\ \A e \in owed'[t] : i'[t] <= e[2]
    BY <2>2, <2>3
  <2> QED
    BY <1>2, <2>1, <2>2, <2>4 DEF Owed
<1>4. CASE \A label \in Loops : ~ StartBroadcast(t, label)
  <2>1. owed'[t] \subseteq owed[t] /\ owed'[t] \subseteq Placed'
    BY <1>4, OwedShrinks
  <2>2. CASE t \in Handlers /\ (HandlerStep(t) \/ Accept(t))
    <3>1. owed'[t] = {}
      BY <2>1, <2>2, HandlerOutside DEF Owed
    <3> QED
      BY <2>1, <3>1 DEF Owed
  <2>3. CASE t = Console /\ ConsoleLine
    <3>1. StartBroadcast(Console, "send") /\ "send" \in Loops
      BY <2>3 DEF ConsoleLine, Loops
    <3> QED
      BY <1>4, <2>3, <3>1
  <2>4. CASE LoopTest(t)
    <3>1. /\ pc[t] \in DOMAIN SendPlace /\ i'[t] = i[t]
          /\ pc'[t] = IF i[t] < num_clients THEN SendPlace[pc[t]]
                      ELSE AfterBroadcast(t, pc[t])
      BY <1>0, <2>4 DEF LoopTest, Goto
    <3>2. CASE i[t] < num_clients
      <4>1. /\ pc[t] \in Loops /\ pc'[t] \in Loops
            /\ pc[t] = "leave" <=> pc'[t] = "leaveSend"
            /\ pc'[t] # "leave" /\ pc[t] # "leaveSend"
        BY <3>1, <3>2, Tables DEF Loops
      <4> QED
        BY <1>2, <2>1, <3>1, <4>1 DEF Owed
    <3>3. CASE ~ (i[t] < num_clients)
      <4>1. owed[t] = {}
        BY <1>0, <1>1, <3>3
      <4> QED
        BY <2>1, <4>1 DEF Owed
    <3> QED
      BY <3>2, <3>3
  <2>5. CASE SendOne(t)
    <3> DEFINE s == IF i[t] \in DOMAIN slots THEN slots[i[t]] ELSE 0
               to == IF s = Exclude(t) THEN {} ELSE Owner(s)
    <3>1. /\ pc[t] \in DOMAIN LoopPlace /\ pc'[t] = LoopPlace[pc[t]]
          /\ i'[t] = i[t] + 1 /\ owed'[t] = {e \in owed[t] : e[1] \notin to}
      BY <1>0, <2>5 DEF SendOne, Goto
    <3>2. /\ pc[t] \in Loops /\ pc'[t] \in Loops
          /\ pc'[t] = "leave" <=> pc[t] = "leaveSend"
          /\ pc[t] # "leave" /\ pc'[t] # "leaveSend"
      BY <3>1, Tables DEF Loops
    <3>3. ASSUME NEW e \in owed[t], e[2] = i[t] PROVE e[1] \in to
      <4>1. s = sock[e[1]] /\ e[1] \in Owner(s)
        BY <1>0, <1>1, <3>3 DEF Owner, Owns
      <4>2. CASE Exclude(t) = Nobody
        BY <1>1, <4>1, <4>2 DEF Types, Nobody
      <4>3. CASE Exclude(t) # Nobody
        <5>1. /\ t \in Handlers /\ Exclude(t) = sock[t] /\ program = "pr_7"
              /\ pc[t] \notin {"leave", "leaveSend"}
          BY <4>3 DEF Exclude, Threads, Types
        <5>2. e[1] # t /\ Owns(t)
          BY <3>2, <5>1 DEF Owed, Owns, Loops
        <5>3. sock[e[1]] # sock[t]
          BY <1>1, <5>1, <5>2 DEF SocketsDiffer
        <5> QED
          BY <4>1, <5>1, <5>3
      <4> QED
        BY <4>2, <4>3
    <3> HIDE DEF to
    <3>4. \A e \in owed'[t] : i'[t] <= e[2]
      <4> SUFFICES ASSUME NEW e \in owed'[t] PROVE i'[t] <= e[2]
        OBVIOUS
      <4>1. e \in owed[t] /\ e[2] # i[t]
        BY <3>1, <3>3
      <4> QED
        BY <1>0, <1>1, <3>1, <4>1
    <3>5. program = "pr_7" /\ pc'[t] \in Loops \ {"leave", "leaveSend"} =>
             \A e \in owed'[t] : e[1] # t
      BY <2>1, <3>2 DEF Owed
    <3> QED
      BY <1>2, <2>1, <3>2, <3>4, <3>5 DEF Owed
  <2>6. CASE /\ t \in Handlers => ~ HandlerStep(t) /\ ~ Accept(t)
             /\ ~ (t = Console /\ ConsoleLine) /\ ~ LoopTest(t) /\ ~ SendOne(t)
    <3>1. pc'[t] = pc[t] /\ i'[t] = i[t]
      BY <2>6, OthersKeep
    <3> QED
      BY <1>2, <2>1, <3>1 DEF Owed
  <2> QED
    BY <2>2, <2>3, <2>4, <2>5, <2>6
<1> QED
  BY <1>3, <1>4

-----------------------------------------------------------------------------
(* Changes that meet *)

(* Where a handler is that registers or removes itself, it came from here.   *)
LEMMA Enters ==
    ASSUME Types, Next, NEW h \in Handlers
    PROVE  /\ pc'[h] \in Inserting /\ pc[h] \notin Inserting => pc[h] = "check" /\ Check(h)
           /\ pc'[h] \in Deleting /\ pc[h] \notin Deleting => pc[h] = "recv" /\ Recv(h)
           /\ pc'[h] \in Moving /\ pc[h] \notin Moving => pc[h] = "scan" /\ Scan(h)
           /\ pc'[h] = "storeInc" =>
                 n'[h] = IF pc[h] = "storeInc" THEN n[h] ELSE num_clients
           /\ pc'[h] = "storeDec" =>
                 n'[h] = IF pc[h] = "storeDec" THEN n[h] ELSE num_clients
<1>0. /\ h \in Threads /\ DOMAIN pc = Threads /\ DOMAIN n = Threads
      /\ h # Console
  BY ChatThreadsAssumption DEF Threads, Types
<1> USE DEF Inserting, Deleting, Moving
<1>1. CASE HandlerStep(h)
  <2> USE DEF At, Goto
  <2>1. CASE \/ RecvNick(h) \/ Check(h) \/ Store(h) \/ Load(h, "loadInc", "storeInc")
             \/ SendBoard(h) \/ RecvMove(h) \/ Load(h, "loadDec", "storeDec") \/ Close(h)
    BY <1>0, <2>1 DEF RecvNick, Check, Store, Load, SendBoard, RecvMove, Close
  <2>2. CASE StoreInc(h) \/ StoreSymbol(h) \/ StoreDec(h)
    BY <1>0, <2>2 DEF StoreInc, StoreSymbol, StoreDec, AfterRemoval, StartBroadcast
  <2>3. CASE Recv(h)
    <3>1. pc[h] = "recv" /\ UNCHANGED n /\ pc'[h] \in {"send", "scan"}
      BY <1>0, <2>3 DEF Recv, StartBroadcast
    <3> QED
      BY <2>3, <3>1
  <2>4. CASE Scan(h)
    <3>1. pc[h] = "scan" /\ UNCHANGED n /\ pc'[h] \in {"scan", "memmove", "leave", "close"}
      BY <1>0, <2>4 DEF Scan, AfterRemoval, StartBroadcast
    <3> QED
      BY <2>4, <3>1
  <2>5. CASE Memmove(h)
    <3>1. pc[h] = "memmove" /\ UNCHANGED n /\ pc'[h] \in {"memmove", "loadDec"}
      BY <1>0, <2>5 DEF Memmove
    <3> QED
      BY <3>1
  <2> QED
    BY <1>1, <2>1, <2>2, <2>3, <2>4, <2>5 DEF HandlerStep
<1>2. CASE Accept(h)
  BY <1>0, <1>2 DEF Accept, Goto
<1>3. CASE LoopTest(h)
  <2>1. pc'[h] \in {SendPlace[pc[h]], AfterBroadcast(h, pc[h])} /\ pc[h] \in DOMAIN SendPlace
    BY <1>0, <1>3 DEF LoopTest, Goto
  <2> QED
    BY <1>0, <2>1, Tables DEF AfterBroadcast
<1>4. CASE SendOne(h)
  <2>1. pc'[h] = LoopPlace[pc[h]] /\ pc[h] \in DOMAIN LoopPlace
    BY <1>0, <1>4 DEF SendOne, Goto
  <2> QED
    BY <2>1, Tables
<1>5. CASE ~ HandlerStep(h) /\ ~ Accept(h) /\ ~ LoopTest(h) /\ ~ SendOne(h)
  <2>1. pc'[h] = pc[h] /\ n'[h] = n[h]
    BY <1>0, <1>5, OthersKeep
  <2> QED
    BY <2>1
<1> QED
  BY <1>1, <1>2, <1>3, <1>4, <1>5

(* Two handlers do not step at once. *)
LEMMA OneSteps ==
    ASSUME Types, Next, NEW g \in Handlers, NEW h \in Handlers, g # h
    PROVE  pc'[g] = pc[g] \/ pc'[h] = pc[h]
<1>1. /\ g # Console /\ h # Console /\ DOMAIN pc = Threads
      /\ g \in Threads /\ h \in Threads
  BY ChatThreadsAssumption DEF Types, Threads
<1>2. CASE UNCHANGED pc
  BY <1>2
<1>3. CASE \E f \in Handlers : \E to \in Places : pc' = [pc EXCEPT ![f] = to]
  BY <1>1, <1>3
<1>4. CASE \E to \in {"fgets", "send", "sendSend"} : pc' = [pc EXCEPT ![Console] = to]
  BY <1>1, <1>4
<1> QED
  BY <1>2, <1>3, <1>4, OneMoves

(* Meetings are not forgotten. *)
LEMMA MetGrows ==
    ASSUME Types, Next
    PROVE  met \subseteq met'
<1>1. UNCHANGED met \/ \E h \in Handlers : Check(h) \/ Recv(h) \/ Scan(h)
  BY DEF Next, Accept, Disconnect, HandlerStep, RecvNick, Store, Load, StoreInc,
         SendBoard, RecvMove, StoreSymbol, Memmove, StoreDec, Close,
         ConsoleLine, LoopTest, SendOne, history
<1>2. ASSUME NEW h \in Handlers, Check(h) \/ Recv(h) \/ Scan(h)
      PROVE  met \subseteq met'
  BY <1>2 DEF Check, Recv, Scan, history
<1> QED
  BY <1>1, <1>2

(* A registration that begins meets those that have begun. *)
LEMMA CheckMeets ==
    ASSUME Types, NEW h \in Handlers, Check(h), pc'[h] # "close"
    PROVE  /\ num_clients < MAX_CLIENTS /\ UNCHANGED <<slots, num_clients, beyond>>
           /\ "adds" \notin met' => ~ Meets(h, Inserting)
           /\ "changes" \notin met' => ~ Meets(h, Inserting \cup Moving)
<1>1. h \in Threads /\ DOMAIN pc = Threads
  BY DEF Threads, Types
<1>2. /\ num_clients < MAX_CLIENTS
      /\ met' = met \cup (IF Meets(h, Inserting) THEN {"adds"} ELSE {})
                    \cup (IF Meets(h, Inserting \cup Moving) THEN {"changes"} ELSE {})
  BY <1>1 DEF Check, Goto
<1> QED
  BY <1>2 DEF Check, list

(* How num_clients may change. *)
LEMMA CountMoves ==
    ASSUME Types, Next
    PROVE  \/ UNCHANGED num_clients
           \/ \E h \in Handlers :
                 \/ pc[h] = "storeInc" /\ num_clients' = n[h] + 1 /\ pc'[h] \notin Inserting
                 \/ pc[h] = "storeDec" /\ num_clients' = n[h] - 1
<1>1. ASSUME NEW h \in Handlers, StoreInc(h)
      PROVE  pc[h] = "storeInc" /\ num_clients' = n[h] + 1 /\ pc'[h] \notin Inserting
  <2>1. h \in Threads /\ DOMAIN pc = Threads
    BY DEF Threads, Types
  <2> QED
    BY <1>1, <2>1 DEF StoreInc, At, StartBroadcast, Goto, Inserting
<1>2. ASSUME NEW h \in Handlers, StoreDec(h)
      PROVE  pc[h] = "storeDec" /\ num_clients' = n[h] - 1
  BY <1>2 DEF StoreDec, At
<1>3. UNCHANGED num_clients \/ \E h \in Handlers : StoreInc(h) \/ StoreDec(h)
  BY DEF Next, Accept, Disconnect, HandlerStep, RecvNick, Check, Store, Load,
         SendBoard, Recv, RecvMove, StoreSymbol, Scan, Memmove, Close,
         ConsoleLine, LoopTest, SendOne, list
<1> QED
  BY <1>1, <1>2, <1>3

(* Every step that lets no registrations meet keeps the bounds, whatever     *)
(* removals do to num_clients.                                               *)
LEMMA BoundedStep ==
    ASSUME Types, Bounded, Next, "adds" \notin met'
    PROVE  Bounded'
<1>0. /\ \A h \in Handlers : h \in Threads /\ n[h] \in Int
      /\ num_clients \in Int /\ MAX_CLIENTS \in Nat
  BY ChatThreadsAssumption DEF Types, Threads
<1>1. ASSUME NEW h \in Handlers, pc'[h] \in Inserting
      PROVE  /\ \A g \in Handlers : pc'[g] \in Inserting => g = h
             /\ num_clients < MAX_CLIENTS
             /\ pc[h] \notin Inserting => UNCHANGED num_clients
  <2>1. CASE pc[h] \in Inserting
    <3>1. ASSUME NEW g \in Handlers, pc'[g] \in Inserting, g # h PROVE FALSE
      <4>1. pc[g] \notin Inserting
        BY <2>1, <3>1 DEF Bounded
      <4>2. Check(g) /\ pc'[g] # "close"
        BY <3>1, <4>1, Enters DEF Inserting
      <4> QED
        BY <2>1, <3>1, <4>2, CheckMeets DEF Meets
    <3> QED
      BY <2>1, <3>1 DEF Bounded
  <2>2. CASE pc[h] \notin Inserting
    <3>1. Check(h) /\ pc'[h] # "close" /\ pc'[h] # pc[h]
      BY <1>1, <2>2, Enters DEF Inserting
    <3>2. \A g \in Handlers \ {h} : pc[g] \notin Inserting
      BY <3>1, CheckMeets DEF Meets
    <3>3. \A g \in Handlers : g # h => pc'[g] = pc[g]
      BY <3>1, OneSteps
    <3> QED
      BY <3>1, <3>2, <3>3, CheckMeets
  <2> QED
    BY <2>1, <2>2
<1>2. num_clients' <= MAX_CLIENTS
  BY <1>0, CountMoves DEF Bounded, Inserting
<1>3. ASSUME NEW h \in Handlers, pc'[h] \in Inserting
      PROVE  num_clients' < MAX_CLIENTS
  <2>1. UNCHANGED num_clients \/ \E g \in Handlers : pc[g] = "storeDec" /\ num_clients' = n[g] - 1
    <3>1. ASSUME NEW g \in Handlers, pc[g] = "storeInc", num_clients' = n[g] + 1,
                 pc'[g] \notin Inserting
          PROVE  FALSE
      <4>1. g # h /\ pc[g] \in Inserting
        BY <1>3, <3>1 DEF Inserting
      <4>2. pc[h] \notin Inserting
        BY <4>1 DEF Bounded
      <4>3. num_clients' = num_clients
        BY <1>1, <1>3, <4>2
      <4>4. pc'[h] = pc[h]
        BY <3>1, <4>1, OneSteps
      <4> QED
        BY <1>3, <4>2, <4>4
    <3> QED
      BY <3>1, CountMoves
  <2>2. num_clients < MAX_CLIENTS
    BY <1>1, <1>3
  <2> QED
    BY <1>0, <2>1, <2>2 DEF Bounded
<1>4. ASSUME NEW h \in Handlers
      PROVE  /\ pc'[h] = "storeInc" => n'[h] < MAX_CLIENTS
             /\ pc'[h] = "storeDec" => n'[h] <= MAX_CLIENTS
  BY <1>0, <1>1, Enters DEF Bounded, Inserting
<1>5. ~ beyond'
  <2>1. CASE \E h \in Handlers : Store(h)
    <3>1. PICK h \in Handlers : Store(h)
      BY <2>1
    <3>2. num_clients < MAX_CLIENTS
      BY <3>1 DEF Store, At, Bounded, Inserting
    <3>3. ~ beyond /\ ~ (num_clients >= MAX_CLIENTS)
      BY <1>0, <3>2 DEF Bounded
    <3>4. beyond' = (beyond \/ num_clients >= MAX_CLIENTS)
      BY <3>1 DEF Store
    <3> QED
      BY <3>3, <3>4, Zenon
  <2>2. CASE ~ \E h \in Handlers : Store(h)
    <3>1. UNCHANGED beyond
      BY <2>2 DEF Next, Accept, Disconnect, HandlerStep, RecvNick, Check, Load, StoreInc,
           SendBoard, Recv, RecvMove, StoreSymbol, Scan, Memmove, StoreDec, Close,
           ConsoleLine, LoopTest, SendOne
    <3> QED
      BY <3>1 DEF Bounded
  <2> QED
    BY <2>1, <2>2
<1> QED
  BY <1>1, <1>2, <1>3, <1>4, <1>5 DEF Bounded

(* A removal that begins meets the one that has begun, and its move a        *)
(* registration.                                                             *)
LEMMA RemovalMeets ==
    ASSUME Types, NEW h \in Handlers, "changes" \notin met'
    PROVE  /\ Recv(h) /\ pc'[h] = "scan" => ~ Meets(h, Deleting)
           /\ Scan(h) /\ pc'[h] = "memmove" => ~ Meets(h, Inserting)
<1>1. h \in Threads /\ DOMAIN pc = Threads
  BY DEF Threads, Types
<1>2. Recv(h) /\ pc'[h] = "scan" => ~ Meets(h, Deleting)
  <2> SUFFICES ASSUME Recv(h), pc'[h] = "scan" PROVE ~ Meets(h, Deleting)
    OBVIOUS
  <2>1. met' = met \cup (IF Meets(h, Deleting) THEN {"changes"} ELSE {})
    BY <1>1 DEF Recv, StartBroadcast, Goto
  <2> QED
    BY <2>1
<1>3. Scan(h) /\ pc'[h] = "memmove" => ~ Meets(h, Inserting)
  <2> SUFFICES ASSUME Scan(h), pc'[h] = "memmove" PROVE ~ Meets(h, Inserting)
    OBVIOUS
  <2>1. met' = met \cup (IF Meets(h, Inserting) THEN {"changes"} ELSE {})
    BY <1>1 DEF Scan, AfterRemoval, StartBroadcast, Goto, At
  <2> QED
    BY <2>1
<1> QED
  BY <1>2, <1>3

(* Every step that lets no changes meet keeps them apart. *)
LEMMA ApartStep ==
    ASSUME Types, Apart, Next, "changes" \notin met'
    PROVE  Apart'
<1>1. ASSUME NEW g \in Handlers, NEW h \in Handlers, g # h, pc'[g] \in Inserting
      PROVE  pc'[h] \notin Inserting \cup Moving
  <2>1. CASE pc'[h] = pc[h]
    <3>1. CASE pc[g] \in Inserting
      BY <1>1, <2>1, <3>1 DEF Apart
    <3>2. CASE pc[g] \notin Inserting
      <4>1. Check(g) /\ pc'[g] # "close"
        BY <1>1, <3>2, Enters DEF Inserting
      <4> QED
        BY <1>1, <2>1, <4>1, CheckMeets DEF Meets
    <3> QED
      BY <3>1, <3>2
  <2>2. CASE pc'[g] = pc[g]
    <3> SUFFICES ASSUME pc'[h] \in Inserting \cup Moving PROVE FALSE
      OBVIOUS
    <3>1. pc[h] \notin Inserting \cup Moving
      BY <1>1, <2>2 DEF Apart
    <3>2. CASE pc'[h] \in Inserting
      <4>1. Check(h) /\ pc'[h] # "close"
        BY <3>1, <3>2, Enters DEF Inserting
      <4> QED
        BY <1>1, <2>2, <4>1, CheckMeets DEF Meets
    <3>3. CASE pc'[h] \in Moving
      <4>1. Scan(h) /\ pc[h] = "scan"
        BY <3>1, <3>3, Enters
      <4>2. pc'[h] = "memmove"
        <5>1. h \in Threads /\ DOMAIN pc = Threads
          BY DEF Threads, Types
        <5> QED
          BY <3>3, <4>1, <5>1 DEF Scan, AfterRemoval, StartBroadcast, Goto, Moving
      <4> QED
        BY <1>1, <2>2, <4>1, <4>2, RemovalMeets DEF Meets
    <3> QED
      BY <3>2, <3>3
  <2> QED
    BY <1>1, <2>1, <2>2, OneSteps
<1>2. ASSUME NEW g \in Handlers, NEW h \in Handlers, g # h, pc'[g] \in Deleting,
             pc'[h] \in Deleting, pc[g] \notin Deleting
      PROVE  FALSE
  <2>1. Recv(g) /\ pc[g] = "recv" /\ pc'[g] # pc[g]
    BY <1>2, Enters DEF Deleting, Moving
  <2>2. pc'[g] = "scan"
    <3>1. g \in Threads /\ DOMAIN pc = Threads
      BY DEF Threads, Types
    <3> QED
      BY <1>2, <2>1, <3>1 DEF Recv, StartBroadcast, Goto, Deleting, Moving
  <2>3. pc'[h] = pc[h]
    BY <1>2, <2>1, OneSteps
  <2> QED
    BY <1>2, <2>1, <2>2, <2>3, RemovalMeets DEF Meets
<1>3. ASSUME NEW g \in Handlers, NEW h \in Handlers, g # h, pc'[g] \in Deleting,
             pc'[h] \in Deleting
      PROVE  FALSE
  <2>1. pc[g] \notin Deleting \/ pc[h] \notin Deleting
    BY <1>3 DEF Apart
  <2> QED
    BY <1>2, <1>3, <2>1
<1> QED
  BY <1>1, <1>3 DEF Apart

(* At a server at rest between two inputs nothing meets. *)
LEMMA NothingMeets ==
    ASSUME Types, Peers, OneBusy, met = {}, Next
    PROVE  met' = {}
<1>1. ASSUME NEW h \in Handlers, Busy(h)
      PROVE  ~ Meets(h, Inserting) /\ ~ Meets(h, Inserting \cup Moving) /\ ~ Meets(h, Deleting)
  <2>1. \A g \in Handlers : pc[g] \in Inserting \cup Deleting => Busy(g)
    BY DEF Inserting, Deleting, Moving, Busy, Changing, Adding, Removing
  <2>2. \A g \in Handlers \ {h} : pc[g] \notin Inserting \cup Deleting
    BY <1>1, <2>1 DEF OneBusy
  <2> QED
    BY <2>2 DEF Meets, Deleting
<1>2. ASSUME NEW h \in Handlers, Check(h) \/ Recv(h) \/ Scan(h)
      PROVE  met' = {}
  <2>1. CASE Check(h)
    <3>1. Busy(h)
      BY <2>1 DEF Check, At, Busy, Changing, Adding
    <3> QED
      BY <1>1, <2>1, <3>1 DEF Check
  <2>2. CASE Scan(h)
    <3>1. Busy(h)
      BY <2>2 DEF Scan, At, Busy, Changing, Removing
    <3> QED
      BY <1>1, <2>2, <3>1 DEF Scan, history
  <2>3. CASE Recv(h)
    <3>1. UNCHANGED met \/ (Busy(h) /\ met' = met \cup (IF Meets(h, Deleting)
                                                       THEN {"changes"} ELSE {}))
      BY <2>3 DEF Recv, At, Busy
    <3> QED
      BY <1>1, <3>1
  <2> QED
    BY <1>2, <2>1, <2>2, <2>3
<1>3. UNCHANGED met \/ \E h \in Handlers : Check(h) \/ Recv(h) \/ Scan(h)
  BY DEF Next, Accept, Disconnect, HandlerStep, RecvNick, Store, Load, StoreInc,
         SendBoard, RecvMove, StoreSymbol, Memmove, StoreDec, Close,
         ConsoleLine, LoopTest, SendOne, history
<1> QED
  BY <1>2, <1>3

-----------------------------------------------------------------------------
(* The list *)

Ordered == Types /\ Peers /\ SocketsDiffer /\ Orderly

Joined == {"join", "joinSend", "welcome", "recv", "move", "send", "sendSend", "scan",
           "memmove"}
Leaving == {"loadDec", "storeDec"}

(* How many entries the list has, seen from a thread that changes it. *)
LEMMA EntriesNow ==
    ASSUME Apart, NEW h \in Handlers, pc[h] \in Inserting \cup Deleting
    PROVE  Entries = IF pc[h] \in Leaving THEN num_clients - 1 ELSE num_clients
<1>1. \A g \in Handlers : pc[g] \in Leaving => g = h
  BY DEF Apart, Inserting, Deleting, Moving, Leaving
<1> QED
  BY <1>1 DEF Entries, Leaving

(* The search comes to the own socket. *)
LEMMA ScanFinds ==
    ASSUME Types, Apart, ListMatches, NEW h \in Handlers, Knows(h), Scan(h)
    PROVE  i[h] < num_clients
<1>1. pc[h] = "scan" /\ h \in Listed /\ i[h] \in Nat
  BY DEF Scan, At, Listed, Types, Threads
<1>2. Entries = num_clients
  BY <1>1, EntriesNow DEF Leaving, Deleting
<1>3. PICK k \in 0..(Entries - 1) : slots[k] = sock[h]
  BY <1>1 DEF ListMatches
<1>4. num_clients \in Int /\ MAX_CLIENTS \in Nat /\ num_clients <= MAX_CLIENTS
  BY ChatThreadsAssumption DEF Types, ListMatches
<1>5. ~ (k \in 0..(i[h] - 1))
  BY <1>1, <1>2, <1>3, <1>4 DEF Knows
<1> QED
  BY <1>1, <1>2, <1>4, <1>5

(* The entries behind the one that leaves move up by one. *)
LEMMA MemmoveMoves ==
    ASSUME Types, NEW h \in Handlers, Knows(h), Memmove(h)
    PROVE  /\ i[h] \in Nat /\ i[h] < num_clients /\ slots[i[h]] = sock[h]
           /\ slots' = [k \in DOMAIN slots |->
                            IF k \in i[h]..(num_clients - 2)
                            THEN IF k + 1 \in DOMAIN slots THEN slots[k + 1] ELSE 0
                            ELSE slots[k]]
           /\ pc[h] = "memmove" /\ pc' = [pc EXCEPT ![h] = "loadDec"]
           /\ UNCHANGED <<num_clients, i, sock>>
<1>1. /\ pc[h] = "memmove" /\ i[h] \in Nat /\ num_clients \in Int
      /\ i[h] < num_clients /\ slots[i[h]] = sock[h]
  BY DEF Memmove, At, Knows, Types, Threads
<1>2. ~ (num_clients - i[h] - 1 < 0)
      /\ i[h] + (num_clients - i[h] - 1) - 1 = num_clients - 2
  BY <1>1
<1> QED
  BY <1>1, <1>2 DEF Memmove, Goto

(* Who is in the list changes at two places, and StoreDec ends a removal.    *)
LEMMA PlacesKept ==
    ASSUME Types, Next,
           \A h \in Handlers : ~ StoreInc(h) /\ ~ Memmove(h) /\ ~ StoreDec(h),
           \A h \in Handlers : Scan(h) => i[h] < num_clients,
           NEW h \in Handlers
    PROVE  /\ pc'[h] \in Joined <=> pc[h] \in Joined
           /\ pc'[h] \in Leaving <=> pc[h] \in Leaving
<1>0. /\ Console \notin Handlers /\ Console \in Threads
      /\ \A g \in Handlers : g \in Threads
  BY ChatThreadsAssumption DEF Threads
<1> USE DEF Goto, StartBroadcast, At, Joined, Leaving
<1>1. ASSUME NEW g \in Handlers, Accept(g) \/ Disconnect(g)
      PROVE  /\ pc'[h] \in Joined <=> pc[h] \in Joined
             /\ pc'[h] \in Leaving <=> pc[h] \in Leaving
  BY <1>0, <1>1 DEF Accept, Disconnect, locals, Types
<1>2. ASSUME ConsoleLine
      PROVE  pc'[h] = pc[h]
  BY <1>0, <1>2 DEF ConsoleLine, Types
<1>3. ASSUME NEW g \in Handlers, HandlerStep(g)
      PROVE  /\ pc'[h] \in Joined <=> pc[h] \in Joined
             /\ pc'[h] \in Leaving <=> pc[h] \in Leaving
  <2>1. CASE \/ RecvNick(g) \/ Check(g) \/ Store(g) \/ Load(g, "loadInc", "storeInc")
             \/ SendBoard(g)
    BY <1>0, <2>1 DEF RecvNick, Check, Store, Load, SendBoard, Types
  <2>2. CASE \/ Recv(g) \/ RecvMove(g) \/ StoreSymbol(g) \/ Close(g)
    BY <1>0, <2>2 DEF Recv, RecvMove, StoreSymbol, Close, Types
  <2>3. CASE Scan(g)
    <3>1. UNCHANGED pc \/ (pc[g] = "scan" /\ pc' = [pc EXCEPT ![g] = "memmove"])
      BY <1>0, <2>3 DEF Scan, Types
    <3> QED
      BY <1>0, <2>3, <3>1 DEF Types
  <2>4. CASE Load(g, "loadDec", "storeDec")
    BY <1>0, <2>4 DEF Load, Types
  <2> QED
    BY <1>3, <2>1, <2>2, <2>3, <2>4 DEF HandlerStep
<1>4. ASSUME NEW t \in Threads, LoopTest(t) \/ SendOne(t)
      PROVE  /\ pc'[h] \in Joined <=> pc[h] \in Joined
             /\ pc'[h] \in Leaving <=> pc[h] \in Leaving
  <2>1. CASE LoopTest(t)
    <3>1. \E to \in {SendPlace[pc[t]], AfterBroadcast(t, pc[t])} :
             pc' = [pc EXCEPT ![t] = to] /\ pc[t] \in DOMAIN SendPlace
      BY <2>1 DEF LoopTest
    <3> QED
      BY <1>0, <3>1, Tables DEF AfterBroadcast, Types
  <2>2. CASE SendOne(t)
    <3>1. pc' = [pc EXCEPT ![t] = LoopPlace[pc[t]]] /\ pc[t] \in DOMAIN LoopPlace
      BY <2>2 DEF SendOne
    <3> QED
      BY <1>0, <3>1, Tables DEF Types
  <2> QED
    BY <1>4, <2>1, <2>2
<1>5. CASE \E g \in Handlers : Accept(g) \/ Disconnect(g)
  BY <1>1, <1>5
<1>6. CASE ConsoleLine
  BY <1>2, <1>6
<1>7. CASE \E g \in Handlers : HandlerStep(g)
  BY <1>3, <1>7
<1>8. CASE \E t \in Threads : LoopTest(t) \/ SendOne(t)
  BY <1>4, <1>8
<1> QED
  BY <1>5, <1>6, <1>7, <1>8 DEF Next

(* What other threads see of a step that neither adds nor removes a client.  *)
ListKept ==
    /\ Listed' = Listed /\ Entries' = Entries
    /\ num_clients' <= num_clients
    /\ \A h \in Listed : sock'[h] = sock[h]
    /\ \A k \in 0..(Entries - 1) : slots'[k] = slots[k]

(* A thread that registers stores behind all entries. *)
LEMMA StoreStep ==
    ASSUME Types, Apart, ListMatches, NEW h \in Handlers, Knows(h), Store(h)
    PROVE  /\ pc[h] = "store" /\ Entries = num_clients
           /\ num_clients \in 0..(MAX_CLIENTS - 1)
           /\ slots' = [slots EXCEPT ![num_clients] = sock[h]]
<1>1. pc[h] = "store"
  BY DEF Store, At
<1>2. Entries = num_clients
  BY <1>1, EntriesNow DEF Leaving, Inserting
<1>3. num_clients \in 0..(MAX_CLIENTS - 1)
  BY <1>1, <1>2, ChatThreadsAssumption DEF ListMatches, Knows, Types
<1>4. DOMAIN slots = 0..(MAX_CLIENTS - 1) /\ slots = [k \in DOMAIN slots |-> slots[k]]
  BY DEF Types
<1>5. slots' = [k \in DOMAIN slots |-> IF k = num_clients THEN sock[h] ELSE slots[k]]
  BY DEF Store
<1>6. slots' = [slots EXCEPT ![num_clients] = sock[h]]
  BY <1>3, <1>4, <1>5
<1> QED
  BY <1>1, <1>2, <1>3, <1>6

(* All steps but the two that store or move an entry leave the list alone. *)
LEMMA KeepsList ==
    ASSUME Ordered, Next, \A h \in Handlers : ~ StoreInc(h) /\ ~ Memmove(h)
    PROVE  ListKept
<1>0. /\ \A g \in Handlers : g \in Threads
      /\ Types /\ Peers /\ Apart /\ ListMatches /\ \A h \in Handlers : Knows(h)
      /\ num_clients \in Int /\ Entries \in Int /\ Entries >= 0
  BY DEF Threads, Ordered, Orderly, ListMatches, Types, Entries
<1>1. CASE \E h \in Handlers : StoreDec(h)
  <2>1. PICK h \in Handlers : StoreDec(h)
    BY <1>1
  <2>2. pc[h] = "storeDec" /\ n[h] = num_clients
    BY <1>0, <2>1 DEF StoreDec, At, Knows
  <2>3. Entries = num_clients - 1 /\ \A g \in Handlers : g # h => pc[g] \notin Leaving
    BY <1>0, <2>2, EntriesNow DEF Leaving, Deleting, Moving, Apart
  <2>4. /\ num_clients' = num_clients - 1 /\ UNCHANGED <<slots, sock>>
        /\ \E to \in {"leave", "close"} : pc' = [pc EXCEPT ![h] = to]
    BY <2>1, <2>2 DEF StoreDec, AfterRemoval, StartBroadcast, Goto
  <2>5. \A g \in Handlers : pc'[g] \notin Leaving
                            /\ (pc'[g] \in Joined <=> pc[g] \in Joined)
    BY <1>0, <2>2, <2>3, <2>4 DEF Leaving, Joined, Types
  <2>6. Entries' = num_clients - 1
    BY <2>4, <2>5 DEF Entries, Leaving
  <2>7. Listed' = Listed
    BY <2>5 DEF Listed, Joined
  <2> QED
    BY <1>0, <2>3, <2>4, <2>6, <2>7 DEF ListKept
<1>2. CASE ~ \E h \in Handlers : StoreDec(h)
  <2>1. \A h \in Handlers : Scan(h) => i[h] < num_clients
    BY <1>0, ScanFinds
  <2>2. \A g \in Handlers : /\ pc'[g] \in Joined <=> pc[g] \in Joined
                            /\ pc'[g] \in Leaving <=> pc[g] \in Leaving
    BY <1>0, <1>2, <2>1, PlacesKept
  <2>3. UNCHANGED num_clients
    BY <1>2 DEF Next, Accept, Disconnect, HandlerStep, RecvNick, Check, Store, Load,
           SendBoard, Recv, RecvMove, StoreSymbol, Scan, Close, ConsoleLine, LoopTest,
           SendOne, list
  <2>4. Entries' = Entries /\ Listed' = Listed
    BY <2>2, <2>3 DEF Entries, Leaving, Listed, Joined
  <2>5. \A h \in Listed : sock'[h] = sock[h]
    <3>1. CASE \E h \in Handlers : Accept(h)
      BY <1>0, <3>1 DEF Accept, At, Listed, Types
    <3>2. CASE ~ \E h \in Handlers : Accept(h)
      <4>1. UNCHANGED sock
        BY <3>2, <1>0, PeerMoves DEF Disconnect
      <4> QED
        BY <4>1
    <3> QED
      BY <3>1, <3>2
  <2>6. \A k \in 0..(Entries - 1) : slots'[k] = slots[k]
    <3>1. CASE \E h \in Handlers : Store(h)
      <4>1. Entries = num_clients /\ \E s : slots' = [slots EXCEPT ![num_clients] = s]
        BY <1>0, <3>1, StoreStep
      <4>2. \A k \in 0..(Entries - 1) : k \in 0..(MAX_CLIENTS - 1) /\ k # num_clients
        BY <1>0, <4>1, ChatThreadsAssumption DEF ListMatches
      <4> QED
        BY <1>0, <4>1, <4>2 DEF Types
    <3>2. CASE ~ \E h \in Handlers : Store(h)
      <4>1. UNCHANGED slots
        BY <1>2, <3>2 DEF Next, Accept, Disconnect, HandlerStep, RecvNick, Check, Load,
             SendBoard, Recv, RecvMove, StoreSymbol, Scan, Close, ConsoleLine, LoopTest,
             SendOne, list
      <4> QED
        BY <4>1
    <3> QED
      BY <3>1, <3>2
  <2> QED
    BY <1>0, <2>3, <2>4, <2>5, <2>6 DEF ListKept
<1> QED
  BY <1>1, <1>2

(* The added client is the last entry. *)
LEMMA Adds ==
    ASSUME Ordered, NEW h \in Handlers, StoreInc(h)
    PROVE  /\ pc[h] = "storeInc" /\ h \notin Listed /\ Listed' = Listed \cup {h}
           /\ Entries = num_clients /\ Entries' = num_clients + 1
           /\ num_clients \in 0..(MAX_CLIENTS - 1) /\ num_clients' = num_clients + 1
           /\ slots[num_clients] = sock[h] /\ UNCHANGED <<slots, sock>>
           /\ \A t \in Threads : t # h => pc'[t] = pc[t]
<1>0. /\ \A g \in Handlers : g \in Threads
      /\ Types /\ Apart /\ ListMatches /\ Knows(h)
      /\ num_clients \in Int
  BY DEF Threads, Ordered, Orderly, Types
<1>1. /\ pc[h] = "storeInc" /\ h \notin Listed
      /\ n[h] = num_clients /\ num_clients < MAX_CLIENTS /\ slots[num_clients] = sock[h]
  BY <1>0 DEF StoreInc, At, Listed, Knows
<1>2. Entries = num_clients /\ \A g \in Handlers : pc[g] \notin Leaving
  BY <1>0, <1>1, EntriesNow DEF Leaving, Inserting, Moving, Apart
<1>3. /\ num_clients' = num_clients + 1 /\ UNCHANGED <<slots, sock>>
      /\ \E to \in {"join", "welcome"} : pc' = [pc EXCEPT ![h] = to]
  BY <1>1 DEF StoreInc, StartBroadcast, Goto
<1>4. /\ \A t \in Threads : t # h => pc'[t] = pc[t]
      /\ pc'[h] \in {"join", "welcome"}
  BY <1>0, <1>3 DEF Types
<1>5. Listed' = Listed \cup {h}
  BY <1>0, <1>4 DEF Listed
<1>6. Entries' = num_clients + 1
  <2>1. \A g \in Handlers : pc'[g] \notin Leaving
    BY <1>0, <1>2, <1>4 DEF Leaving
  <2> QED
    BY <1>3, <2>1 DEF Entries, Leaving
<1>7. num_clients \in 0..(MAX_CLIENTS - 1)
  BY <1>0, <1>1, <1>2, ChatThreadsAssumption DEF ListMatches
<1> QED
  BY <1>1, <1>2, <1>3, <1>4, <1>5, <1>6, <1>7

(* The entries behind the removed one move down. *)
LEMMA Removes ==
    ASSUME Ordered, NEW h \in Handlers, Memmove(h)
    PROVE  /\ pc[h] = "memmove" /\ h \in Listed /\ Listed' = Listed \ {h}
           /\ Entries = num_clients /\ Entries' = num_clients - 1
           /\ num_clients \in 1..MAX_CLIENTS /\ UNCHANGED <<num_clients, sock>>
           /\ i[h] \in 0..(num_clients - 1) /\ slots[i[h]] = sock[h]
           /\ \A k \in 0..(num_clients - 2) :
                 slots'[k] = IF k < i[h] THEN slots[k] ELSE slots[k + 1]
           /\ slots'[num_clients - 1] = slots[num_clients - 1]
           /\ \A t \in Threads : t # h => pc'[t] = pc[t]
           /\ pc'[h] = "loadDec"
<1>0. /\ \A g \in Handlers : g \in Threads
      /\ Types /\ Apart /\ ListMatches /\ Knows(h)
      /\ num_clients \in Int /\ MAX_CLIENTS \in Nat
  BY ChatThreadsAssumption DEF Threads, Ordered, Orderly, Types
<1>1. /\ i[h] \in Nat /\ i[h] < num_clients /\ slots[i[h]] = sock[h]
      /\ slots' = [k \in DOMAIN slots |->
                       IF k \in i[h]..(num_clients - 2)
                       THEN IF k + 1 \in DOMAIN slots THEN slots[k + 1] ELSE 0
                       ELSE slots[k]]
      /\ pc[h] = "memmove" /\ pc' = [pc EXCEPT ![h] = "loadDec"]
      /\ UNCHANGED <<num_clients, sock>>
  BY <1>0, MemmoveMoves
<1>2. h \in Listed
  BY <1>1 DEF Listed
<1>3. Entries = num_clients
  BY <1>0, <1>1, <1>2, EntriesNow DEF Leaving, Deleting, Moving
<1>4. num_clients \in 1..MAX_CLIENTS /\ i[h] \in 0..(num_clients - 1)
  BY <1>0, <1>1 DEF ListMatches
<1>5. \A t \in Threads : pc'[t] = IF t = h THEN "loadDec" ELSE pc[t]
  BY <1>0, <1>1 DEF Types
<1>6. Listed' = Listed \ {h} /\ Entries' = num_clients - 1
  BY <1>0, <1>1, <1>5 DEF Listed, Entries
<1>7. \A k \in 0..(num_clients - 2) :
         slots'[k] = IF k < i[h] THEN slots[k] ELSE slots[k + 1]
  <2>1. DOMAIN slots = 0..(MAX_CLIENTS - 1)
    BY <1>0 DEF Types
  <2>2. \A k \in 0..(num_clients - 2) : k \in DOMAIN slots /\ k + 1 \in DOMAIN slots
    BY <1>0, <1>4, <2>1
  <2>3. \A k \in 0..(num_clients - 2) : k \in i[h]..(num_clients - 2) <=> ~ (k < i[h])
    BY <1>0, <1>4
  <2> QED
    BY <1>1, <2>2, <2>3
<1>8. slots'[num_clients - 1] = slots[num_clients - 1]
  <2>1. num_clients - 1 \in DOMAIN slots
    BY <1>0, <1>4 DEF Types
  <2>2. ~ (num_clients - 1 \in i[h]..(num_clients - 2))
    BY <1>0
  <2> QED
    BY <1>1, <2>1, <2>2
<1> QED
  BY <1>0, <1>1, <1>2, <1>3, <1>4, <1>5, <1>6, <1>7, <1>8

(* From an orderly state every step keeps list and clients together. *)
LEMMA ListMatchesStep ==
    ASSUME Ordered, Next
    PROVE  ListMatches'
<1>0. /\ Types /\ SocketsDiffer /\ ListMatches
      /\ num_clients \in Int /\ Entries \in Int /\ MAX_CLIENTS \in Nat
      /\ Listed \subseteq Handlers /\ \A h \in Listed : Owns(h)
  <2>1. Types /\ SocketsDiffer /\ ListMatches
    BY DEF Ordered, Orderly
  <2>2. num_clients \in Int /\ Entries \in Int /\ MAX_CLIENTS \in Nat
    BY <2>1, ChatThreadsAssumption DEF Types, Entries
  <2>3. Listed \subseteq Handlers /\ \A h \in Listed : Owns(h)
    BY DEF Listed, Owns
  <2> QED
    BY <2>1, <2>2, <2>3
<1>1. CASE \E h \in Handlers : StoreInc(h)
  <2>1. PICK h \in Handlers : StoreInc(h)
    BY <1>1
  <2>2. /\ h \notin Listed /\ Listed' = Listed \cup {h} /\ pc[h] = "storeInc"
        /\ Entries = num_clients /\ Entries' = num_clients + 1
        /\ num_clients \in 0..(MAX_CLIENTS - 1) /\ num_clients' = num_clients + 1
        /\ slots[num_clients] = sock[h] /\ UNCHANGED <<slots, sock>>
    BY <2>1, Adds
  <2>3. \A g \in Listed : sock[g] # sock[h]
    BY <1>0, <2>2 DEF SocketsDiffer, Owns
  <2>4. \A k \in 0..num_clients : k = num_clients \/ k \in 0..(num_clients - 1)
    BY <1>0
  <2>5. \A k \in 0..(num_clients - 1) : (\E g \in Listed : slots[k] = sock[g])
                                        /\ k \in 0..num_clients
    BY <1>0, <2>2 DEF ListMatches
  <2>6. \A g \in Listed : \E k \in 0..(num_clients - 1) : slots[k] = sock[g]
    BY <2>2, <1>0 DEF ListMatches
  <2>7. \A j, k \in 0..(num_clients - 1) : slots[j] = slots[k] => j = k
    BY <1>0, <2>2 DEF ListMatches
  <2>8. /\ 0..(Entries - 1)' = 0..num_clients /\ num_clients \in 0..num_clients
        /\ Entries' >= 0 /\ num_clients' <= MAX_CLIENTS
    BY <1>0, <2>2
  <2>9. \A k \in 0..num_clients : \E g \in Listed' : slots[k] = sock[g]
    BY <2>2, <2>4, <2>5
  <2>10. \A g \in Listed' : \E k \in 0..num_clients : slots[k] = sock[g]
    BY <2>2, <2>5, <2>6, <2>8
  <2>11. \A j, k \in 0..num_clients : slots[j] = slots[k] => j = k
    BY <2>2, <2>3, <2>4, <2>5, <2>7
  <2> QED
    BY <2>2, <2>8, <2>9, <2>10, <2>11 DEF ListMatches
<1>2. CASE \E h \in Handlers : Memmove(h)
  <2>1. PICK h \in Handlers : Memmove(h)
    BY <1>2
  <2> DEFINE p == i[h]
             m == num_clients
             up(k) == IF k < p THEN k ELSE k + 1
  <2>2. /\ h \in Listed /\ Listed' = Listed \ {h}
        /\ Entries = m /\ Entries' = m - 1
        /\ m \in 1..MAX_CLIENTS /\ UNCHANGED <<num_clients, sock>>
        /\ p \in 0..(m - 1) /\ slots[p] = sock[h]
        /\ \A k \in 0..(m - 2) : slots'[k] = IF k < p THEN slots[k] ELSE slots[k + 1]
    BY <2>1, Removes
  <2>3. \A k \in 0..(m - 2) : up(k) \in 0..(m - 1) /\ up(k) # p /\ slots'[k] = slots[up(k)]
    BY <1>0, <2>2
  <2>4. \A k \in 0..(m - 1) : k # p => \E j \in 0..(m - 2) : up(j) = k
    <3> SUFFICES ASSUME NEW k \in 0..(m - 1), k # p
                 PROVE  \E j \in 0..(m - 2) : up(j) = k
      OBVIOUS
    <3>1. CASE k < p
      BY <1>0, <2>2, <3>1
    <3>2. CASE ~ (k < p)
      <4>1. k - 1 \in 0..(m - 2) /\ up(k - 1) = k
        BY <1>0, <2>2, <3>2
      <4> QED
        BY <4>1
    <3> QED
      BY <3>1, <3>2
  <2>5. \A j, k \in 0..(m - 2) : up(j) = up(k) => j = k
    BY <1>0, <2>2
  <2>6. /\ \A k \in 0..(m - 1) : \E g \in Listed : slots[k] = sock[g]
        /\ \A g \in Listed : \E k \in 0..(m - 1) : slots[k] = sock[g]
        /\ \A j, k \in 0..(m - 1) : slots[j] = slots[k] => j = k
    BY <1>0, <2>2 DEF ListMatches
  <2>7. /\ 0..(Entries - 1)' = 0..(m - 2)
        /\ Entries' >= 0 /\ num_clients' <= MAX_CLIENTS
    BY <1>0, <2>2
  <2> HIDE DEF up
  <2>8. \A k \in 0..(m - 2) : \E g \in Listed' : slots'[k] = sock'[g]
    BY <2>2, <2>3, <2>6
  <2>9. \A g \in Listed' : \E k \in 0..(m - 2) : slots'[k] = sock'[g]
    <3> SUFFICES ASSUME NEW g \in Listed, g # h
                 PROVE  \E k \in 0..(m - 2) : slots'[k] = sock[g]
      BY <2>2
    <3>1. PICK k \in 0..(m - 1) : slots[k] = sock[g]
      BY <2>6
    <3>2. k # p
      BY <1>0, <2>2, <3>1 DEF SocketsDiffer
    <3> QED
      BY <2>3, <2>4, <3>1, <3>2
  <2>10. \A j, k \in 0..(m - 2) : slots'[j] = slots'[k] => j = k
    BY <2>3, <2>5, <2>6
  <2> QED
    BY <2>7, <2>8, <2>9, <2>10 DEF ListMatches
<1>3. CASE \A h \in Handlers : ~ StoreInc(h) /\ ~ Memmove(h)
  <2>1. /\ Listed' = Listed /\ Entries' = Entries /\ num_clients' <= num_clients
        /\ \A h \in Listed : sock'[h] = sock[h]
        /\ \A k \in 0..(Entries - 1) : slots'[k] = slots[k]
    BY <1>3, KeepsList DEF ListKept
  <2>2. num_clients' \in Int
    BY <1>0, TypesStep DEF Types
  <2>3. num_clients' <= MAX_CLIENTS
    BY <1>0, <2>1, <2>2 DEF ListMatches
  <2> QED
    BY <1>0, <2>1, <2>3 DEF ListMatches
<1> QED
  BY <1>1, <1>2, <1>3

(* What a handler knows stays true: nobody else changes the list under a     *)
(* change, and a registration beside a search stores another socket.         *)
LEMMA KnowsStep ==
    ASSUME Ordered, Next, NEW h \in Handlers
    PROVE  Knows(h)'
<1>0. /\ Types /\ Apart /\ ListMatches /\ Knows(h) /\ \A g \in Handlers : Knows(g)
      /\ num_clients \in Int /\ h \in Threads /\ i[h] \in Nat /\ MAX_CLIENTS \in Nat
      /\ DOMAIN pc = Threads
      /\ Console \notin Handlers
  BY ChatThreadsAssumption DEF Ordered, Orderly, Types, Threads
<1> DEFINE W == {"store", "loadInc", "storeInc", "loadDec", "storeDec", "scan",
                "memmove"}
<1>1. pc'[h] \notin W => Knows(h)'
  BY DEF Knows
<1> USE DEF At, Goto, StartBroadcast
<1>2. CASE HandlerStep(h)
  <2>1. CASE \/ RecvNick(h) \/ StoreInc(h) \/ SendBoard(h) \/ StoreSymbol(h)
             \/ RecvMove(h) \/ Close(h)
    <3>1. pc'[h] \notin W
      BY <1>0, <2>1 DEF RecvNick, StoreInc, SendBoard, StoreSymbol, RecvMove, Close, Types
    <3> QED
      BY <1>1, <3>1
  <2>2. CASE Check(h)
    BY <1>0, <2>2 DEF Check, Knows, list, Types
  <2>3. CASE Store(h)
    <3>1. /\ num_clients \in 0..(MAX_CLIENTS - 1)
          /\ slots' = [slots EXCEPT ![num_clients] = sock[h]]
      BY <1>0, <2>3, StoreStep
    <3>2. slots'[num_clients] = sock[h] /\ num_clients < MAX_CLIENTS
      BY <1>0, <3>1 DEF Types
    <3>3. pc'[h] = "loadInc" /\ UNCHANGED <<num_clients, sock>>
      BY <1>0, <2>3 DEF Store, Types
    <3> QED
      BY <3>2, <3>3 DEF Knows
  <2>4. CASE Load(h, "loadInc", "storeInc")
    BY <1>0, <2>4 DEF Load, Knows, list, Types
  <2>5. CASE Load(h, "loadDec", "storeDec")
    <3>1. /\ pc[h] = "loadDec" /\ pc'[h] = "storeDec" /\ n'[h] = num_clients
          /\ UNCHANGED <<slots, num_clients, sock>>
      BY <1>0, <2>5 DEF Load, list, Types
    <3>2. Listed' = Listed
      BY <1>0, <2>5 DEF Load, Listed, Types
    <3> QED
      BY <1>0, <3>1, <3>2 DEF Knows
  <2>6. CASE Recv(h)
    <3>1. pc'[h] = "send" \/ (pc'[h] = "scan" /\ i'[h] = 0)
      BY <1>0, <2>6 DEF Recv, Types
    <3>2. ~ \E k : k \in 0..(0 - 1)
      OBVIOUS
    <3> QED
      BY <3>1, <3>2 DEF Knows
  <2>7. CASE Scan(h)
    <3>1. i[h] < num_clients
      BY <1>0, <2>7, ScanFinds
    <3>2. pc[h] = "scan" /\ UNCHANGED <<slots, num_clients, sock>>
      BY <2>7 DEF Scan, list
    <3>3. CASE slots[i[h]] = sock[h] /\ pc'[h] = "memmove" /\ UNCHANGED i
      BY <1>0, <3>1, <3>2, <3>3 DEF Knows
    <3>4. CASE /\ i[h] \notin DOMAIN slots \/ slots[i[h]] # sock[h]
               /\ i' = [i EXCEPT ![h] = @ + 1] /\ UNCHANGED pc
      <4>1. i'[h] = i[h] + 1
        BY <1>0, <3>4 DEF Types
      <4>2. DOMAIN slots = 0..(MAX_CLIENTS - 1)
        BY <1>0 DEF Types
      <4>3. \A k \in 0..(i[h] - 1) : k < MAX_CLIENTS => slots[k] # sock[h]
        BY <3>2 DEF Knows, Ordered, Orderly
      <4>4. i[h] < MAX_CLIENTS => slots[i[h]] # sock[h]
        BY <1>0, <3>4, <4>2
      <4>5. \A k \in 0..i'[h] - 1 : k = i[h] \/ k \in 0..(i[h] - 1)
        BY <1>0, <4>1
      <4>6. \A k \in 0..i'[h] - 1 : k < MAX_CLIENTS => slots[k] # sock[h]
        BY <4>3, <4>4, <4>5
      <4> QED
        BY <3>2, <3>4, <4>6 DEF Knows
    <3>5. \/ slots[i[h]] = sock[h] /\ pc'[h] = "memmove" /\ UNCHANGED i
          \/ /\ i[h] \notin DOMAIN slots \/ slots[i[h]] # sock[h]
             /\ i' = [i EXCEPT ![h] = @ + 1] /\ UNCHANGED pc
      BY <1>0, <2>7, <3>1 DEF Scan, Types
    <3> QED
      BY <3>3, <3>4, <3>5
  <2>8. CASE Memmove(h)
    <3>1. /\ pc'[h] = "loadDec" /\ Listed' = Listed \ {h} /\ Entries = num_clients
          /\ num_clients \in 1..MAX_CLIENTS /\ UNCHANGED <<num_clients, sock>>
          /\ slots'[num_clients - 1] = slots[num_clients - 1]
      BY <2>8, Removes
    <3>2. num_clients - 1 \in 0..(Entries - 1)
      BY <1>0, <3>1
    <3>3. PICK g \in Listed : slots[num_clients - 1] = sock[g]
      BY <1>0, <3>2 DEF ListMatches
    <3>4. \E f \in Listed' \cup {h} : slots'[num_clients' - 1] = sock'[f]
      BY <3>1, <3>3
    <3> QED
      BY <3>1, <3>4 DEF Knows
  <2>9. CASE StoreDec(h)
    <3>1. pc'[h] \in {"leave", "close"}
      BY <1>0, <2>9 DEF StoreDec, AfterRemoval, Types
    <3> QED
      BY <1>1, <3>1
  <2> QED
    BY <1>2, <2>1, <2>2, <2>3, <2>4, <2>5, <2>6, <2>7, <2>8, <2>9 DEF HandlerStep
<1>3. CASE Accept(h) \/ LoopTest(h) \/ SendOne(h)
  <2>1. CASE Accept(h)
    BY <1>0, <1>1, <2>1 DEF Accept, Types
  <2>2. CASE LoopTest(h)
    <3>1. pc'[h] \in {SendPlace[pc[h]], AfterBroadcast(h, pc[h])} /\ pc[h] \in DOMAIN SendPlace
      BY <1>0, <2>2 DEF LoopTest, Types
    <3>2. pc'[h] \notin W
      BY <1>0, <3>1, Tables DEF AfterBroadcast
    <3> QED
      BY <1>1, <3>2
  <2>3. CASE SendOne(h)
    <3>1. pc'[h] = LoopPlace[pc[h]] /\ pc[h] \in DOMAIN LoopPlace
      BY <1>0, <2>3 DEF SendOne, Types
    <3>2. pc'[h] \notin W
      BY <3>1, Tables
    <3> QED
      BY <1>1, <3>2
  <2> QED
    BY <1>3, <2>1, <2>2, <2>3
<1>4. CASE ~ HandlerStep(h) /\ ~ Accept(h) /\ ~ LoopTest(h) /\ ~ SendOne(h)
  <2>1. pc'[h] = pc[h] /\ i'[h] = i[h] /\ n'[h] = n[h] /\ sock'[h] = sock[h]
    BY <1>0, <1>4, OthersKeep
  <2>2. SUFFICES ASSUME pc[h] \in W PROVE Knows(h)'
    BY <1>1, <2>1
  <2>3. CASE pc[h] = "scan"
    <3>1. ASSUME NEW k \in 0..(i[h] - 1), k < MAX_CLIENTS
          PROVE  slots'[k] # sock[h]
      <4>1. slots[k] # sock[h] /\ k \in 0..(MAX_CLIENTS - 1)
        BY <1>0, <2>3, <3>1 DEF Knows
      <4>2. CASE \E g \in Handlers : Store(g)
        <5>1. PICK g \in Handlers : Store(g)
          BY <4>2
        <5>2. g # h /\ pc[g] = "store"
          BY <2>3, <5>1 DEF Store
        <5>3. sock[g] # sock[h]
          BY <2>3, <5>2 DEF Ordered, SocketsDiffer, Owns
        <5>4. slots'[k] \in {slots[k], sock[g]}
          BY <1>0, <4>1, <5>1 DEF Store, Types
        <5> QED
          BY <4>1, <5>3, <5>4
      <4>3. CASE ~ \E g \in Handlers : Store(g)
        <5>1. \A g \in Handlers : ~ Memmove(g)
          BY <1>0, <2>3 DEF Apart, Memmove, Deleting, Moving
        <5>2. UNCHANGED slots
          BY <4>3, <5>1 DEF Next, Accept, Disconnect, HandlerStep, RecvNick, Check, Load,
             StoreInc, SendBoard, Recv, RecvMove, StoreSymbol, Scan, StoreDec, Close,
             ConsoleLine, LoopTest, SendOne, list
        <5> QED
          BY <4>1, <5>2
      <4> QED
        BY <4>2, <4>3
    <3> QED
      BY <2>1, <2>3, <3>1 DEF Knows
  <2>4. CASE pc[h] # "scan"
    <3>1. pc[h] \in Inserting \cup Moving
      BY <2>2, <2>4 DEF Inserting, Moving
    <3>2. \A g \in Handlers : ~ Store(g) /\ ~ StoreInc(g) /\ ~ Memmove(g) /\ ~ StoreDec(g)
      <4>1. ASSUME NEW g \in Handlers, Store(g) \/ StoreInc(g) \/ Memmove(g) \/ StoreDec(g)
            PROVE  FALSE
        <5>1. pc[g] \in Inserting \cup Moving
          BY <4>1 DEF Store, StoreInc, Memmove, StoreDec, Inserting, Moving
        <5>2. g = h
          BY <1>0, <3>1, <5>1 DEF Apart, Deleting
        <5> QED
          BY <1>4, <4>1, <5>2 DEF HandlerStep
      <4> QED
        BY <4>1
    <3>3. UNCHANGED <<slots, num_clients>>
      BY <3>2 DEF Next, Accept, Disconnect, HandlerStep, RecvNick, Check, Load, SendBoard,
             Recv, RecvMove, StoreSymbol, Scan, Close, ConsoleLine, LoopTest, SendOne, list
    <3>4. Listed' = Listed /\ \A g \in Listed : sock'[g] = sock[g]
      BY <3>2, KeepsList DEF ListKept
    <3>5. ASSUME pc[h] \in {"loadDec", "storeDec"}
          PROVE  \E g \in Listed' \cup {h} : slots'[num_clients' - 1] = sock'[g]
      BY <1>0, <2>1, <3>3, <3>4, <3>5 DEF Knows
    <3> QED
      BY <1>0, <2>1, <2>4, <3>3, <3>5 DEF Knows
  <2> QED
    BY <2>3, <2>4
<1> QED
  BY <1>2, <1>3, <1>4

(* The places of the listed clients outlast every step but a removal. *)
LEMMA PlaceKept ==
    ASSUME Ordered, Next, \A h \in Handlers : ~ Memmove(h), NEW g \in Listed
    PROVE  /\ g \in Listed' /\ Entries' \in Int /\ Entries <= Entries'
           /\ \A k \in 0..(Entries' - 1) :
                 slots'[k] = sock'[g] => k \in 0..(Entries - 1) /\ slots[k] = sock[g]
           /\ \A k \in 0..(Entries - 1) :
                 slots[k] = sock[g] => k \in 0..(Entries' - 1) /\ slots'[k] = sock'[g]
<1>0. Entries \in Int /\ SocketsDiffer /\ Listed \subseteq Handlers
      /\ \A h \in Listed : Owns(h)
  BY DEF Ordered, Types, Entries, Listed, Owns
<1>1. CASE \E h \in Handlers : StoreInc(h)
  <2>1. PICK h \in Handlers : StoreInc(h)
    BY <1>1
  <2>2. /\ h \notin Listed /\ Listed' = Listed \cup {h} /\ pc[h] = "storeInc"
        /\ Entries = num_clients /\ Entries' = num_clients + 1
        /\ slots[num_clients] = sock[h] /\ UNCHANGED <<slots, sock>>
    BY <2>1, Adds
  <2>3. sock[g] # sock[h]
    BY <1>0, <2>2 DEF SocketsDiffer, Owns
  <2> QED
    BY <1>0, <2>2, <2>3
<1>2. CASE \A h \in Handlers : ~ StoreInc(h)
  BY <1>0, <1>2, KeepsList DEF ListKept
<1> QED
  BY <1>1, <1>2

-----------------------------------------------------------------------------
(* The board of the game *)

Calmly == Ordered /\ calm /\ CalmInv

(* At a server at rest between two inputs nobody broadcasts while a client   *)
(* is removed.                                                               *)
LEMMA RemovalAlone ==
    ASSUME Calmly, NEW h \in Handlers, Memmove(h), NEW t \in Threads
    PROVE  pc[t] \notin Loops /\ pc[t] \notin Messaging
<1>1. /\ Types /\ Peers /\ OneBusy /\ NobodyLeft
      /\ pc[h] = "memmove" /\ Busy(h)
  BY Removes DEF Calmly, Ordered, CalmInv, Busy, Changing, Removing
<1>2. peer[h] \in {"closed", "reset"}
  BY <1>1 DEF Peers, Removing
<1>3. \A u \in Threads : pc[u] \notin Messaging
  BY <1>1, <1>2 DEF NobodyLeft, NobodyLeaves
<1>4. CASE t = Console
  BY <1>1, <1>3, <1>4 DEF Types, Loops, Messaging
<1>5. CASE t \in Handlers
  BY <1>1, <1>3, <1>5 DEF OneBusy, Busy, Changing, Adding, Removing, Loops, Messaging
<1> QED
  BY <1>3, <1>4, <1>5 DEF Threads

(* A handler in a broadcast, or about to send the board, does nothing else.  *)
LEMMA BusySending ==
    ASSUME NEW h \in Handlers, pc[h] \in {"welcome", "send", "sendSend"}
    PROVE  /\ ~ Accept(h)
           /\ pc[h] = "welcome" => ~ LoopTest(h) /\ ~ SendOne(h)
           /\ HandlerStep(h) => pc[h] = "welcome" /\ SendBoard(h)
<1>1. /\ ~ Accept(h)
      /\ pc[h] = "welcome" => ~ LoopTest(h) /\ ~ SendOne(h)
  BY Tables DEF Accept, At, LoopTest, SendOne
<1>2. HandlerStep(h) => pc[h] = "welcome" /\ SendBoard(h)
  BY DEF HandlerStep, RecvNick, Check, Store, Load, StoreInc, SendBoard, Recv, RecvMove,
         StoreSymbol, Scan, Memmove, StoreDec, Close, At
<1> QED
  BY <1>1, <1>2

(* A loop that has a client before it keeps it there until it sends to it,   *)
(* as long as no entry moves.                                                *)
LEMMA StaysAhead ==
    ASSUME Calmly, Next, \A h \in Handlers : ~ Memmove(h), NEW g \in Listed,
           NEW t \in Handlers, Ahead(t, g), ~ LoopTest(t), ~ SendOne(t)
    PROVE  Ahead(t, g)'
<1>1. /\ t # Console /\ t \in Threads /\ Types
      /\ pc[t] \in {"send", "sendSend"}
  BY ChatThreadsAssumption DEF Ahead, Threads, Calmly, Ordered
<1>2. pc'[t] = pc[t] /\ i'[t] = i[t]
  BY <1>1, BusySending, OthersKeep
<1>3. PICK k \in 0..(Entries - 1) : i[t] <= k /\ slots[k] = sock[g]
  BY DEF Ahead
<1>4. k \in 0..(Entries' - 1) /\ slots'[k] = sock'[g]
  BY <1>3, PlaceKept DEF Calmly
<1> QED
  BY <1>1, <1>2, <1>3, <1>4 DEF Ahead

(* After every step who has not seen the last board has a loop before it. *)
LEMMA BoardStep ==
    ASSUME Calmly, Next, program = "pr_7_1", NEW g \in Listed'
    PROVE  pc'[g] = "welcome" \/ shown'[g] = board' \/ \E t \in Handlers : Ahead(t, g)'
<1>0. /\ Types /\ ListMatches /\ BoardComes /\ SocketsDiffer
      /\ Console \notin Handlers /\ \A h \in Handlers : h \in Threads
      /\ g \in Handlers
      /\ num_clients \in Int /\ Entries \in Int /\ Entries <= num_clients
      /\ MAX_CLIENTS \in Nat
      /\ DOMAIN pc = Threads /\ DOMAIN i = Threads
  BY ChatThreadsAssumption DEF Calmly, Ordered, Orderly, CalmInv, Types, Threads, Entries, Listed
<1>1. CASE \E h \in Handlers : Memmove(h)
  <2>1. PICK h \in Handlers : Memmove(h)
    BY <1>1
  <2>2. /\ Listed' = Listed \ {h} /\ \A t \in Threads : t # h => pc'[t] = pc[t]
        /\ UNCHANGED <<board, shown>>
    BY <2>1, Removes DEF Memmove, game, Calmly
  <2>3. \A t \in Handlers : ~ Ahead(t, g)
    BY <1>0, <2>1, RemovalAlone DEF Ahead, Messaging
  <2> QED
    BY <1>0, <2>2, <2>3 DEF BoardComes
<1>2. CASE g \notin Listed /\ ~ \E h \in Handlers : Memmove(h)
  <2>1. \E h \in Handlers : StoreInc(h)
    BY <1>2, KeepsList DEF ListKept, Calmly
  <2>2. PICK h \in Handlers : StoreInc(h)
    BY <2>1
  <2>3. g = h
    BY <1>2, <2>2, Adds DEF Calmly
  <2> QED
    BY <1>0, <2>2, <2>3 DEF StoreInc, Goto
<1>3. CASE g \in Listed /\ ~ \E h \in Handlers : Memmove(h)
  <2>1. PICK k \in 0..(Entries - 1) : slots[k] = sock[g]
    BY <1>0, <1>3 DEF ListMatches
  <2>2. k \in 0..(Entries' - 1) /\ slots'[k] = sock'[g]
    BY <1>3, <2>1, PlaceKept DEF Calmly
  <2>3. CASE \E t \in Handlers : StoreSymbol(t)
    <3>1. PICK t \in Handlers : StoreSymbol(t)
      BY <2>3
    <3>2. pc'[t] = "send" /\ i'[t] = 0
      BY <1>0, <3>1 DEF StoreSymbol, StartBroadcast, Goto
    <3>3. Ahead(t, g)'
      BY <2>2, <3>2 DEF Ahead
    <3> QED
      BY <3>3
  <2>4. CASE ~ \E t \in Handlers : StoreSymbol(t)
    <3>1. UNCHANGED board
      BY <2>4 DEF Next, Accept, Disconnect, HandlerStep, RecvNick, Check, Store, Load,
             StoreInc, SendBoard, Recv, RecvMove, Scan, Memmove, StoreDec, Close,
             ConsoleLine, LoopTest, SendOne, game
    <3>2. shown'[g] \in {shown[g], board}
      <4>1. UNCHANGED shown \/ \E to : Send(to)
        BY DEF Next, Accept, Disconnect, HandlerStep, RecvNick, Check, Store, Load,
               StoreInc, SendBoard, Recv, RecvMove, StoreSymbol, Scan, Memmove, StoreDec,
               Close, ConsoleLine, LoopTest, SendOne, game
      <4> QED
        BY <1>0, <4>1 DEF Send
    <3>3. CASE shown[g] = board
      BY <3>1, <3>2, <3>3
    <3>4. CASE pc[g] = "welcome"
      <4>1. CASE SendBoard(g)
        BY <1>0, <3>1, <4>1 DEF SendBoard, Send
      <4>2. CASE ~ SendBoard(g)
        BY <1>0, <3>4, <4>2, BusySending, OthersKeep
      <4> QED
        BY <4>1, <4>2
    <3>5. ASSUME NEW t \in Handlers, Ahead(t, g)
          PROVE  shown'[g] = board \/ Ahead(t, g)'
      <4>1. PICK j \in 0..(Entries - 1) : i[t] <= j /\ slots[j] = sock[g]
        BY <3>5 DEF Ahead
      <4>2. j \in 0..(Entries' - 1) /\ slots'[j] = sock'[g]
        BY <1>3, <4>1, PlaceKept DEF Calmly
      <4>3. i[t] \in Nat /\ pc[t] \in {"send", "sendSend"} /\ t # Console
        BY <1>0, <3>5 DEF Ahead, Types
      <4>4. CASE LoopTest(t)
        <5>1. i[t] < num_clients
          BY <1>0, <4>1, <4>3
        <5>2. pc'[t] = "sendSend" /\ i'[t] = i[t]
          <6>1. pc[t] \in DOMAIN SendPlace /\ pc'[t] = SendPlace[pc[t]] /\ i'[t] = i[t]
            BY <1>0, <4>4, <5>1 DEF LoopTest, Goto
          <6> QED
            BY <4>3, <6>1, Tables
        <5> QED
          BY <4>1, <4>2, <5>2 DEF Ahead
      <4>5. CASE SendOne(t)
        <5> DEFINE s == IF i[t] \in DOMAIN slots THEN slots[i[t]] ELSE 0
                   to == IF s = Exclude(t) THEN {} ELSE Owner(s)
        <5>1. pc[t] = "sendSend"
          BY <4>3, <4>5, Tables DEF SendOne
        <5>2. pc'[t] = "send" /\ i'[t] = i[t] + 1 /\ Send(to)
          BY <1>0, <4>5, <5>1, Tables DEF SendOne, Goto
        <5>3. CASE i[t] = j
          <6>1. i[t] \in DOMAIN slots
            BY <1>0, <4>1, <4>3, <5>3 DEF Types, ListMatches
          <6>2. s = sock[g] /\ g \in Owner(s)
            BY <1>3, <4>1, <5>3, <6>1 DEF Owner, Listed
          <6>3. Exclude(t) = Nobody /\ sock[g] # Nobody
            BY <1>0 DEF Exclude, Types, Nobody
          <6>4. g \in to
            BY <6>2, <6>3
          <6> HIDE DEF to
          <6> QED
            BY <1>0, <5>2, <6>4 DEF Send
        <5>4. CASE i[t] # j
          <6>1. i'[t] <= j
            BY <1>0, <4>1, <4>3, <5>2, <5>4
          <6> QED
            BY <4>2, <5>2, <6>1 DEF Ahead
        <5> QED
          BY <5>3, <5>4
      <4>6. CASE ~ LoopTest(t) /\ ~ SendOne(t)
        BY <1>3, <3>5, <4>6, StaysAhead
      <4> QED
        BY <4>4, <4>5, <4>6
    <3> QED
      BY <1>0, <1>3, <3>1, <3>3, <3>4, <3>5 DEF BoardComes
  <2> QED
    BY <2>3, <2>4
<1> QED
  BY <1>1, <1>2, <1>3

-----------------------------------------------------------------------------
(* The theorems *)

(* The invariant holds at the start. *)
LEMMA InitChatInv == Init => ChatInv
<1> SUFFICES ASSUME Init PROVE ChatInv
  OBVIOUS
<1>1. Types
  BY InitTypes
<1>2. /\ \A h \in Handlers : pc[h] = "none" /\ peer[h] = "none" /\ h \in Threads
      /\ pc[Console] = "fgets"
  BY ChatThreadsAssumption DEF Init, Threads
<1>3. Peers /\ SocketsDiffer
  BY <1>2 DEF Peers, Removing, SocketsDiffer, Owns
<1>4. Listed = {} /\ Entries = 0 /\ num_clients = 0 /\ met = {} /\ ~ beyond
  BY <1>2 DEF Listed, Entries, Init
<1>5. OneBusy /\ NobodyLeft
  BY <1>2 DEF OneBusy, Busy, Changing, Adding, Removing, NobodyLeft, Messaging, Threads
<1>6. ListMatches
  <2>1. 0..(0 - 1) = {}
    OBVIOUS
  <2> QED
    BY <1>4, <2>1, ChatThreadsAssumption DEF ListMatches
<1>7. \A h \in Handlers : Knows(h)
  BY <1>2 DEF Knows
<1>8. \A t \in Threads : Owed(t)
  <2>1. \A t \in Threads : owed[t] = {}
    BY DEF Init
  <2> QED
    BY <2>1 DEF Owed
<1>9. BoardComes
  BY <1>4 DEF BoardComes
<1>10. Bounded
  BY <1>2, <1>4, ChatThreadsAssumption DEF Bounded, Inserting
<1>11. Apart
  BY <1>2 DEF Apart, Inserting, Deleting, Moving
<1> QED
  BY <1>1, <1>3, <1>4, <1>5, <1>6, <1>7, <1>8, <1>9, <1>10, <1>11
     DEF ChatInv, CalmInv, Orderly

(* Every step keeps the invariant. *)
LEMMA ChatInvStep == ChatInv /\ [Next]_vars => ChatInv'
<1>1. ASSUME ChatInv, UNCHANGED vars
      PROVE  ChatInv'
  <2> USE DEF vars, mode, game, list, locals, history
  <2>1. /\ Types' /\ Peers' /\ SocketsDiffer' /\ calm' = calm /\ met' = met
    BY <1>1 DEF ChatInv, Types, Peers, SocketsDiffer, Owns
  <2>2. Listed' = Listed /\ Entries' = Entries /\ Placed' = Placed
    BY <1>1 DEF Listed, Entries, Placed, Owner
  <2>3. \A t \in Threads : Owed(t)'
    BY <1>1, <2>2 DEF ChatInv, Owed
  <2>4. "adds" \notin met => Bounded'
    BY <1>1 DEF ChatInv, Bounded
  <2>5. "changes" \notin met => Apart' /\ ListMatches' /\ \A h \in Handlers : Knows(h)'
    BY <1>1, <2>2 DEF ChatInv, Orderly, Apart, ListMatches, Knows
  <2>6. calm => met = {} /\ OneBusy' /\ NobodyLeft' /\ BoardComes'
    BY <1>1, <2>2
       DEF ChatInv, CalmInv, OneBusy, Busy, NobodyLeft, NobodyLeaves, BoardComes, Ahead
  <2> QED
    BY <2>1, <2>3, <2>4, <2>5, <2>6 DEF ChatInv, CalmInv, Orderly
<1>2. ASSUME ChatInv, Next
      PROVE  ChatInv'
  <2>1. UNCHANGED mode
    BY <1>2 DEF Next, Accept, Disconnect, HandlerStep, RecvNick, Check, Store, Load,
           StoreInc, SendBoard, Recv, RecvMove, StoreSymbol, Scan, Memmove, StoreDec,
           Close, ConsoleLine, LoopTest, SendOne
  <2>2. Types /\ Peers /\ SocketsDiffer /\ calm' = calm /\ program' = program
    BY <1>2, <2>1 DEF ChatInv, mode
  <2>3. Types' /\ Peers' /\ SocketsDiffer' /\ met \subseteq met'
    BY <1>2, <2>2, TypesStep, PeersStep, SocketsDifferStep, MetGrows
  <2>4. \A t \in Threads : Owed(t)'
    BY <1>2, <2>2, OwedStep DEF ChatInv
  <2>5. "adds" \notin met' => Bounded'
    BY <1>2, <2>2, <2>3, BoundedStep DEF ChatInv
  <2>6. ASSUME "changes" \notin met' PROVE Orderly'
    <3>1. Ordered
      BY <1>2, <2>2, <2>3, <2>6 DEF Ordered, ChatInv
    <3>2. Apart' /\ ListMatches'
      BY <1>2, <2>6, <3>1, ApartStep, ListMatchesStep DEF Ordered, Orderly
    <3>3. \A h \in Handlers : Knows(h)'
      BY <1>2, <3>1, KnowsStep
    <3> QED
      BY <3>2, <3>3 DEF Orderly
  <2>7. ASSUME calm PROVE CalmInv'
    <3>1. Calmly /\ met = {} /\ OneBusy /\ NobodyLeft
      BY <1>2, <2>2, <2>7 DEF Calmly, Ordered, ChatInv, CalmInv
    <3>2. met' = {} /\ OneBusy' /\ NobodyLeft'
      BY <1>2, <2>2, <2>7, <3>1, NothingMeets, OneBusyStep, NobodyLeftStep
    <3>3. BoardComes'
      BY <1>2, <2>2, <3>1, BoardStep DEF BoardComes
    <3> QED
      BY <3>2, <3>3 DEF CalmInv
  <2> QED
    BY <2>2, <2>3, <2>4, <2>5, <2>6, <2>7 DEF ChatInv
<1> QED
  BY <1>1, <1>2

(* The invariant of the threaded chat and the game. *)
LEMMA ChatSafe == Spec => []ChatInv
BY InitChatInv, ChatInvStep, PTL DEF Spec

(* A client is in the list when its socket is one of the first entries. *)
LEMMA InListNow ==
    ASSUME Types, ListMatches, NEW h \in Handlers
    PROVE  InList(h) <=> \E k \in 0..(num_clients - 1) : slots[k] = sock[h]
<1>1. DOMAIN slots = 0..(MAX_CLIENTS - 1)
  BY DEF Types
<1>2. \A k : k \in DOMAIN slots /\ k < num_clients <=> k \in 0..(num_clients - 1)
  BY <1>1, ChatThreadsAssumption DEF Types, ListMatches
<1> QED
  BY <1>2 DEF InList

(* As long as no two changes of the list met, a client is in it exactly from *)
(* its num_clients++ to its removal, for any number of clients that connect, *)
(* send, and leave at any time.                                              *)
THEOREM ListRight == Spec => []ListIsRight
<1>1. ChatInv => ListIsRight
  <2> SUFFICES ASSUME ChatInv, "changes" \notin met PROVE ListIsRight
    BY DEF ListIsRight
  <2>1. /\ Types /\ ListMatches /\ SocketsDiffer /\ \A f \in Handlers : Knows(f)
        /\ num_clients \in Int /\ Entries \in Int /\ Entries <= num_clients
    BY DEF ChatInv, Orderly, Types, Entries
  <2>2. ASSUME NEW h \in Listed PROVE InList(h)
    <3>1. PICK k \in 0..(Entries - 1) : slots[k] = sock[h]
      BY <2>1 DEF ListMatches
    <3>2. k \in 0..(num_clients - 1) /\ h \in Handlers
      BY <2>1 DEF Listed
    <3> QED
      BY <2>1, <3>1, <3>2, InListNow
  <2>3. ASSUME NEW h \in Handlers, pc[h] \in {"leave", "leaveSend", "close"}, InList(h)
        PROVE  FALSE
    <3>1. PICK k \in 0..(num_clients - 1) : slots[k] = sock[h]
      BY <2>1, <2>3, InListNow
    <3>2. \E g \in Handlers : Owns(g) /\ g # h /\ slots[k] = sock[g]
      <4>1. CASE k \in 0..(Entries - 1)
        <5>1. PICK g \in Listed : slots[k] = sock[g]
          BY <2>1, <4>1 DEF ListMatches
        <5> QED
          BY <2>3, <5>1 DEF Listed, Owns
      <4>2. CASE k \notin 0..(Entries - 1)
        <5>1. PICK f \in Handlers : pc[f] \in {"loadDec", "storeDec"}
          BY <3>1, <4>2 DEF Entries
        <5>2. k = num_clients - 1
          BY <2>1, <3>1, <4>2, <5>1 DEF Entries
        <5>3. PICK g \in Listed \cup {f} : slots[k] = sock[g]
          BY <2>1, <5>1, <5>2 DEF Knows
        <5> QED
          BY <2>3, <5>1, <5>3 DEF Listed, Owns
      <4> QED
        BY <4>1, <4>2
    <3> QED
      BY <2>1, <2>3, <3>1, <3>2 DEF SocketsDiffer, Owns
  <2> QED
    BY <2>2, <2>3 DEF ListIsRight, AddedIsListed
<1> QED
  BY <1>1, ChatSafe, PTL

(* As long as no two registrations met, nothing is written behind the end of *)
(* clients[], whatever removals that meet do to num_clients.                 *)
THEOREM FullList == Spec => []FullListCloses
<1>1. ChatInv => FullListCloses
  BY DEF ChatInv, Bounded, FullListCloses
<1> QED
  BY <1>1, ChatSafe, PTL

(* A broadcast that has ended reached every client that kept its place all   *)
(* the time, in every interleaving of registrations, removals and messages.  *)
THEOREM Broadcasts == Spec => []BroadcastReachesAll
<1>1. ChatInv => BroadcastReachesAll
  <2>1. Loops = DOMAIN SendPlace \cup DOMAIN LoopPlace
    BY Tables DEF Loops
  <2> QED
    BY <2>1 DEF ChatInv, Owed, BroadcastReachesAll
<1> QED
  BY <1>1, ChatSafe, PTL

(* The game: when all threads wait, everybody has seen the last board,       *)
(* however the moves of the players interleaved.                             *)
THEOREM BoardSeen == Spec => []BoardShown
<1>1. ChatInv => BoardShown
  <2> SUFFICES ASSUME ChatInv, program = "pr_7_1", calm, \A t \in Threads : Waiting(t),
                      NEW h \in Listed
               PROVE  shown[h] = board
    BY DEF BoardShown
  <2>1. BoardComes /\ \A t \in Handlers : t \in Threads
    BY DEF ChatInv, CalmInv, Threads
  <2>2. /\ h \in Handlers /\ pc[h] # "welcome"
        /\ \A t \in Handlers : pc[t] \notin {"send", "sendSend"}
    BY <2>1 DEF Listed, Waiting
  <2> QED
    BY <2>1, <2>2 DEF BoardComes, Ahead
<1> QED
  BY <1>1, ChatSafe, PTL
=============================================================================
