----------------------------- MODULE ChatMqProofs -----------------------------
(* Proofs about ChatMq, for any number of clients and lines and any size of  *)
(* the queue.                                                                *)
EXTENDS ChatMq, SequenceTheorems, TLAPS

-----------------------------------------------------------------------------
(* The invariant *)

Token == Clients \X Nat
Message == [pid : Clients, type : {0, 1}, text : Seq(Token)]
Shown == [nick : Seq(Token), pid : Clients, text : Seq(Token)]

ChildPlaces ==
    {"none", "prompt", "nick", "register", "recv", "send", "exited", "reaped",
     "refused"}
ClientPlaces == {"start", "connected", "typing", "waiting", "killed"}

Types ==
    /\ pc \in {"reap", "accept", "drain"} /\ revents \subseteq {"listen", "mq"}
    /\ clients \in [DOMAIN clients -> Seq(Token)] /\ DOMAIN clients \subseteq Clients
    /\ backlog \in Seq(Clients) /\ mq \in Seq(Message)
    /\ child \in [Clients -> ChildPlaces] /\ client \in [Clients -> ClientPlaces]
    /\ buf \in [Clients -> Seq(Token)] /\ up \in [Clients -> Seq(Token)]
    /\ handled \in [Clients -> Seq(Token)]
    /\ ends \in [Clients -> SUBSET {"keyboard", "reader"}]
    /\ typed \in [Clients -> Nat]
    /\ down \in [Clients -> Seq(Shown)]

(* A connection waits for its accept once; poll does not report one that is  *)
(* not there.                                                                *)
Queued ==
    /\ \A i, j \in 1..Len(backlog) : backlog[i] = backlog[j] => i = j
    /\ \A i \in 1..Len(backlog) :
          child[backlog[i]] = "none" /\ client[backlog[i]] # "start"
    /\ \A c \in Clients : client[c] = "start" => child[c] = "none"
    /\ pc = "accept" /\ "listen" \in revents => backlog # <<>>

(* The parent knows the children that it has not reaped.                     *)
Mapped ==
    \A c \in Clients :
        c \in DOMAIN clients <=> child[c] \notin {"none", "reaped", "refused"}

(* A child that has sent its nick, or any message, is named, or its nick is  *)
(* in front of the message.                                                  *)
HasNick(map, c) == c \in DOMAIN map /\ map[c] # <<>>
NickBefore(q, c, i) == \E j \in 1..(i - 1) : q[j].pid = c /\ q[j].type = 1
Named ==
    /\ \A c \in Clients :
          child[c] \in {"recv", "send"} => HasNick(clients, c) \/ NickBefore(mq, c, Len(mq) + 1)
    /\ \A c \in Clients : child[c] \in {"register", "send"} => buf[c] # <<>>
    /\ \A i \in 1..Len(mq) :
          LET c == mq[i].pid IN
            /\ mq[i].text # <<>> /\ child[c] \notin {"none", "refused"}
            /\ mq[i].type = 0 => child[c] = "reaped" \/ HasNick(clients, c) \/ NickBefore(mq, c, i)

(* The cut of StreamPreserved, of the tokens of c into what is handled (h),  *)
(* in the queue (m), held by the child (t) and in the socket (r): q is where *)
(* each text of the queue begins, b and u are the ends of t and r.           *)
Cut(c, h, m, t, r, q, b, u) ==
    /\ b \in Nat /\ u \in Nat /\ b <= u /\ q \in [1..(Len(m) + 1) -> 0..b]
    /\ h = Run(c, 0, q[1])
    /\ \A i \in 1..Len(m) :
          /\ q[i] <= q[i + 1]
          /\ m[i].pid = c => m[i].text = Run(c, q[i], q[i + 1])
          /\ m[i].pid # c => q[i + 1] = q[i]
    /\ t = Run(c, q[Len(m) + 1], b) /\ r = Run(c, b, u)
Held(c) == IF child[c] \in {"register", "send"} THEN buf[c] ELSE <<>>
Flows(c) ==
    \E q, b, u :
        /\ Cut(c, handled[c], mq, Held(c), up[c], q, b, u)
        /\ u <= Sent(c) /\ (client[c] # "killed" => u = Sent(c))
Stream == \A c \in Clients : Flows(c)

(* What was shown is of the others and was handled before.                   *)
Past ==
    \A c \in Clients : \A i \in 1..Len(down[c]) :
        LET m == down[c][i] IN
          m.pid # c /\ m.text # <<>> /\ m.text[1][2] \in 0..(Len(handled[m.pid]) - 1)

Distinct ==
    \A c, d \in Clients : \A i, j \in 1..Len(down[c]) :
        i < j => /\ down[c][i] # down[c][j]
                 /\ \A k, l \in 1..Len(down[d]) :
                       k < l => ~(down[d][k] = down[c][j] /\ down[d][l] = down[c][i])

MqInv == Types /\ Queued /\ Mapped /\ Named /\ Stream /\ Past /\ Distinct

-----------------------------------------------------------------------------
(* Sequences *)

(* One more element at the end. *)
LEMMA Appended ==
    ASSUME NEW S, NEW s \in Seq(S), NEW e \in S
    PROVE  /\ Append(s, e) \in Seq(S) /\ Len(Append(s, e)) = Len(s) + 1 /\ Len(s) \in Nat
           /\ Append(s, e)[Len(s) + 1] = e
           /\ \A k \in 1..Len(s) : Append(s, e)[k] = s[k]
           /\ \A k \in 1..(Len(s) + 1) : k \in 1..Len(s) \/ k = Len(s) + 1
BY AppendProperties, LenProperties

(* The first element is taken. *)
LEMMA Shortened ==
    ASSUME NEW S, NEW s \in Seq(S), s # <<>>
    PROVE  /\ Tail(s) \in Seq(S) /\ Len(Tail(s)) = Len(s) - 1
           /\ Len(s) \in Nat /\ Len(s) >= 1
           /\ Head(s) = s[1] /\ 1 \in 1..Len(s) /\ s[1] \in S
           /\ \A k \in 1..(Len(s) - 1) : Tail(s)[k] = s[k + 1] /\ k + 1 \in 1..Len(s)
<1>1. /\ Tail(s) \in Seq(S) /\ Len(Tail(s)) = Len(s) - 1 /\ Head(s) = s[1]
      /\ \A k \in 1..(Len(s) - 1) : Tail(s)[k] = s[k + 1]
  BY HeadTailProperties
<1>2. Len(s) \in Nat /\ Len(s) # 0
  BY EmptySeq, LenProperties
<1>3. 1 \in 1..Len(s) /\ s[1] \in S
  BY <1>2, ElementOfSeq
<1> QED
  BY <1>1, <1>2, <1>3

-----------------------------------------------------------------------------
(* Types *)

(* The types hold at the start. *)
LEMMA InitTypes == Init => Types
BY EmptySeq DEF Init, Types, ChildPlaces, ClientPlaces, parent, users

(* The steps of the parent keep the types. *)
LEMMA ParentTypes ==
    ASSUME Types, Queued, Parent
    PROVE  Types'
<1>0. <<>> \in Seq(Token)
  BY EmptySeq
<1>1. ASSUME NEW c \in Clients, Reap(c)
      PROVE  Types'
  BY <1>1 DEF Reap, Types, users, ChildPlaces
<1>2. CASE Poll \/ NoConnection
  <2>1. revents' \subseteq {"listen", "mq"} /\ pc' \in {"accept", "drain", "reap"}
    BY <1>2 DEF Poll, NoConnection, AfterAccept, Types
  <2> QED
    BY <1>2, <2>1 DEF Poll, NoConnection, Types, users
<1>3. CASE Accept
  <2> DEFINE c == Head(backlog)
  <2>1. c \in Clients /\ backlog' \in Seq(Clients)
    BY <1>3, Shortened DEF Accept, Types, Queued
  <2>2. /\ \E place \in {"prompt", "refused"} : child' = [child EXCEPT ![c] = place]
        /\ clients' = clients \/
           clients' = [d \in DOMAIN clients \cup {c} |-> IF d = c THEN <<>> ELSE clients[d]]
        /\ pc' \in {"drain", "reap"}
    BY <1>3 DEF Accept, AfterAccept
  <2> HIDE DEF c
  <2>3. clients' \in [DOMAIN clients' -> Seq(Token)] /\ DOMAIN clients' \subseteq Clients
    BY <1>0, <2>1, <2>2 DEF Types
  <2>4. child' \in [Clients -> ChildPlaces]
    BY <2>1, <2>2 DEF Types, ChildPlaces
  <2> QED
    BY <1>3, <2>1, <2>2, <2>3, <2>4 DEF Accept, Types, users
<1>4. CASE Receive
  <2> DEFINE m == Head(mq)
  <2>1. m \in Message /\ mq' \in Seq(Message)
    BY <1>4, Shortened DEF Receive, Types
  <2>2. m.pid \in Clients /\ m.text \in Seq(Token)
    BY <2>1 DEF Message
  <2> HIDE DEF m
  <2>3. handled' \in [Clients -> Seq(Token)]
    <3>1. handled[m.pid] \o m.text \in Seq(Token)
      BY <2>2, ConcatProperties DEF Types
    <3> DEFINE h == handled[m.pid] \o m.text
    <3>2. handled' = [handled EXCEPT ![m.pid] = h]
      BY <1>4 DEF Receive, m
    <3> HIDE DEF h
    <3> QED
      BY <2>2, <3>1, <3>2 DEF Types, h
  <2>4. clients' \in [DOMAIN clients' -> Seq(Token)] /\ DOMAIN clients' = DOMAIN clients
    <3>1. \/ UNCHANGED clients
          \/ clients' = [d \in DOMAIN clients |-> IF d = m.pid THEN m.text ELSE clients[d]]
      BY <1>4 DEF Receive, m
    <3> QED
      BY <2>2, <3>1 DEF Types
  <2>5. down' \in [Clients -> Seq(Shown)]
    <3> DEFINE e == [nick |-> Nick(m.pid), pid |-> m.pid, text |-> m.text]
    <3>1. e \in Shown
      BY <1>0, <2>2 DEF Shown, Nick, Types
    <3> HIDE DEF e
    <3>2. \A c \in Clients : Append(down[c], e) \in Seq(Shown) /\ down[c] \in Seq(Shown)
      BY <3>1, Appended DEF Types
    <3>3. \/ UNCHANGED down
          \/ down' = [c \in Clients |->
                        IF c \in DOMAIN clients \ {m.pid} /\ ends[c] # {}
                        THEN Append(down[c], e) ELSE down[c]]
      BY <1>4 DEF Receive, Broadcast, m, e
    <3> QED
      BY <3>2, <3>3 DEF Types
  <2> QED
    BY <1>4, <2>1, <2>3, <2>4, <2>5 DEF Receive, Types, users
<1> QED
  BY <1>1, <1>2, <1>3, <1>4 DEF Parent

(* The steps of a child keep the types. *)
LEMMA ChildTypes ==
    ASSUME Types, NEW c \in Clients, Child(c)
    PROVE  Types'
<1>1. CASE Prompt(c) \/ RecvEnd(c)
  BY <1>1 DEF Prompt, RecvEnd, Types, ChildPlaces, parent, users
<1>2. ASSUME NEW from \in ChildPlaces, NEW to \in ChildPlaces, Recv(c, from, to)
      PROVE  Types'
  <2>1. up[c] \in Seq(Token) /\ <<>> \in Seq(Token)
    BY EmptySeq DEF Types
  <2> QED
    BY <1>2, <2>1 DEF Recv, Types, parent, users
<1>3. ASSUME NEW from, NEW type \in {0, 1}, Send(c, from, type)
      PROVE  Types'
  <2> DEFINE m == [pid |-> c, type |-> type, text |-> buf[c]]
  <2>1. m \in Message
    BY DEF Types, Message
  <2> HIDE DEF m
  <2>2. Append(mq, m) \in Seq(Message)
    BY <2>1, Appended DEF Types
  <2>3. mq' \in Seq(Message)
    BY <1>3, <2>2 DEF Send, m
  <2> QED
    BY <1>3, <2>3 DEF Send, Types, ChildPlaces, parent, users
<1> QED
  BY <1>1, <1>2, <1>3 DEF Child, RecvNick, RecvText, Register, SendText, ChildPlaces

(* The steps of a client keep the types. *)
LEMMA ClientTypes ==
    ASSUME Types, NEW c \in Clients, Client(c)
    PROVE  Types'
<1>1. CASE Connect(c)
  <2>1. backlog' \in Seq(Clients)
    BY <1>1, Appended DEF Connect, Types
  <2> QED
    BY <1>1, <2>1 DEF Connect, Types, ClientPlaces, parent
<1>2. ASSUME NEW n \in Nat, Type(c, n)
      PROVE  up' \in [Clients -> Seq(Token)] /\ typed' \in [Clients -> Nat]
  <2>1. Append(up[c], <<c, n>>) \in Seq(Token)
    BY Appended DEF Types, Token
  <2> DEFINE s == Append(up[c], <<c, n>>)
  <2>2. up' = [up EXCEPT ![c] = s]
    BY <1>2 DEF Type
  <2> HIDE DEF s
  <2>3. s \in Seq(Token)
    BY <2>1 DEF s
  <2> QED
    BY <1>2, <2>2, <2>3 DEF Type, Types
<1>3. CASE SendNick(c)
  BY <1>2, <1>3 DEF SendNick, Types, ClientPlaces, parent
<1>4. CASE TypeLine(c)
  <2>1. typed[c] + 1 \in Nat
    BY DEF Types
  <2> QED
    BY <1>2, <1>4, <2>1 DEF TypeLine, Types, parent
<1>5. CASE EndInput(c)
  BY <1>5 DEF EndInput, Types, ClientPlaces, parent
<1>6. CASE KillClient(c)
  <2>1. up' = up \/ up' = [up EXCEPT ![c] = <<>>]
    BY <1>6 DEF KillClient
  <2>2. up' \in [Clients -> Seq(Token)]
    BY <2>1, EmptySeq DEF Types
  <2> QED
    BY <1>6, <2>2 DEF KillClient, Types, ClientPlaces, parent
<1> QED
  BY <1>1, <1>3, <1>4, <1>5, <1>6 DEF Client

(* Every step keeps the types. *)
LEMMA TypesStep ==
    ASSUME Types, Queued, Next
    PROVE  Types'
BY ParentTypes, ChildTypes, ClientTypes DEF Next

-----------------------------------------------------------------------------
(* The backlog *)

(* Nobody waits to be accepted at the start. *)
LEMMA InitQueued == Init => Queued
BY EmptySeq DEF Init, Queued, parent, users

(* A step that leaves the backlog, starts no child and undoes no connect.    *)
LEMMA QueuedFrame ==
    ASSUME Types, Queued, UNCHANGED backlog,
           \A c \in Clients : child[c] = "none" => child'[c] = "none",
           \A c \in Clients : client'[c] = "start" => client[c] = "start",
           pc' = "accept" /\ "listen" \in revents' => backlog # <<>>
    PROVE  Queued'
<1>1. \A i \in 1..Len(backlog) : backlog[i] \in Clients
  BY ElementOfSeq DEF Types
<1> QED
  BY <1>1 DEF Queued

(* The client that is accepted next is one without a child. *)
LEMMA Oldest ==
    ASSUME Types, Queued, Accept
    PROVE  Head(backlog) \in Clients /\ child[Head(backlog)] = "none"
<1>1. backlog # <<>> /\ backlog \in Seq(Clients)
  BY DEF Accept, Queued, Types
<1> QED
  BY <1>1, Shortened DEF Queued

(* Who is accepted waits no longer. *)
LEMMA QueuedAccept ==
    ASSUME Types, Queued, Accept
    PROVE  Queued'
<1> DEFINE c == Head(backlog)
           n == Len(backlog)
<1>1. backlog # <<>> /\ backlog \in Seq(Clients)
  BY DEF Accept, Queued, Types
<1>2. /\ Len(Tail(backlog)) = n - 1 /\ n \in Nat /\ c = backlog[1] /\ 1 \in 1..n /\ c \in Clients
      /\ \A i \in 1..(n - 1) : Tail(backlog)[i] = backlog[i + 1] /\ i + 1 \in 1..n
  BY <1>1, Shortened
<1>3. \A i \in 1..(n - 1) : i + 1 # 1
  BY <1>2
<1>4. \A i \in 1..(n - 1) : backlog[i + 1] \in Clients \ {c}
  BY <1>1, <1>2, <1>3, ElementOfSeq DEF Queued
<1>5. /\ backlog' = Tail(backlog) /\ UNCHANGED client /\ pc' # "accept"
      /\ \E place \in {"prompt", "refused"} : child' = [child EXCEPT ![c] = place]
  BY DEF Accept, AfterAccept, users
<1>6. \A d \in Clients \ {c} : child'[d] = child[d]
  BY <1>5 DEF Types
<1>7. \A i, j \in 1..(n - 1) : Tail(backlog)[i] = Tail(backlog)[j] => i = j
  <2>1. \A i, j \in 1..(n - 1) : i + 1 = j + 1 => i = j
    BY <1>2
  <2> QED
    BY <1>2, <2>1 DEF Queued
<1>8. \A i \in 1..(n - 1) : child'[Tail(backlog)[i]] = "none" /\ client[Tail(backlog)[i]] # "start"
  BY <1>2, <1>4, <1>6 DEF Queued
<1>9. \A d \in Clients : client[d] = "start" => child'[d] = "none"
  BY <1>2, <1>6 DEF Queued
<1> QED
  BY <1>2, <1>5, <1>7, <1>8, <1>9 DEF Queued

(* A client that connects was not waiting before. *)
LEMMA QueuedConnect ==
    ASSUME Types, Queued, NEW c \in Clients, Connect(c)
    PROVE  Queued'
<1> DEFINE n == Len(backlog)
<1>1. /\ backlog' = Append(backlog, c) /\ UNCHANGED <<child, pc, revents>>
      /\ client[c] = "start" /\ client' = [client EXCEPT ![c] = "connected"]
      /\ backlog \in Seq(Clients)
  BY DEF Connect, Types, parent
<1>2. /\ Len(backlog') = n + 1 /\ backlog'[n + 1] = c /\ n \in Nat
      /\ \A i \in 1..n : backlog'[i] = backlog[i]
      /\ \A i \in 1..(n + 1) : i \in 1..n \/ i = n + 1
  BY <1>1, Appended
<1>3. \A i \in 1..n : backlog[i] \in Clients \ {c}
  BY <1>1, ElementOfSeq DEF Queued
<1>4. /\ \A d \in Clients \ {c} : client'[d] = client[d]
      /\ client'[c] = "connected" /\ child[c] = "none"
  BY <1>1 DEF Types, Queued
<1>5. \A d \in Clients : client'[d] = "start" => child[d] = "none"
  BY <1>4 DEF Queued
<1>6. \A i, j \in 1..(n + 1) : backlog'[i] = backlog'[j] => i = j
  BY <1>2, <1>3 DEF Queued
<1>7. \A i \in 1..(n + 1) : child[backlog'[i]] = "none" /\ client'[backlog'[i]] # "start"
  BY <1>2, <1>3, <1>4 DEF Queued
<1>8. backlog' # <<>>
  BY <1>2, EmptySeq
<1> QED
  BY <1>1, <1>2, <1>5, <1>6, <1>7, <1>8 DEF Queued

(* Every step keeps each client that waits in the backlog once. *)
LEMMA QueuedStep ==
    ASSUME Types, Queued, Next
    PROVE  Queued'
<1>1. CASE Poll \/ NoConnection \/ Receive
  BY <1>1, QueuedFrame DEF Poll, NoConnection, Receive, AfterAccept, users
<1>2. ASSUME NEW c \in Clients, Reap(c)
      PROVE  Queued'
  <2>1. /\ UNCHANGED <<backlog, client, pc, revents>>
        /\ \A d \in Clients : child[d] = "none" => child'[d] = "none"
    BY <1>2 DEF Reap, users, Types
  <2> QED
    BY <1>2, <2>1, QueuedFrame DEF Reap
<1>3. ASSUME NEW c \in Clients, Child(c)
      PROVE  Queued'
  <2>1. /\ UNCHANGED <<backlog, client, pc, revents>>
        /\ \A d \in Clients : child[d] = "none" => child'[d] = "none"
    <3>1. /\ child[c] # "none" /\ UNCHANGED <<backlog, client, pc, revents>>
          /\ \E a : child' = [child EXCEPT ![c] = a]
      BY <1>3 DEF Child, Prompt, RecvNick, Register, RecvText, SendText, RecvEnd, Recv, Send,
                  parent, users
    <3> QED
      BY <3>1 DEF Types
  <2> QED
    BY <2>1, QueuedFrame DEF Queued
<1>4. ASSUME NEW c \in Clients, SendNick(c) \/ TypeLine(c) \/ EndInput(c) \/ KillClient(c)
      PROVE  Queued'
  <2>1. /\ UNCHANGED <<backlog, child, pc, revents>>
        /\ \A d \in Clients : client'[d] = "start" => client[d] = "start"
    BY <1>4 DEF SendNick, TypeLine, EndInput, KillClient, parent, Types
  <2> QED
    BY <2>1, QueuedFrame DEF Queued
<1> QED
  BY <1>1, <1>2, <1>3, <1>4, QueuedAccept, QueuedConnect DEF Next, Parent, Client

-----------------------------------------------------------------------------
(* The map *)

(* The map is empty at the start. *)
LEMMA InitMapped == Init => Mapped
BY DEF Init, Mapped, parent, users

(* Every step keeps in the map the children that are not reaped. *)
LEMMA MappedStep ==
    ASSUME Types, Queued, Mapped, Next
    PROVE  Mapped'
<1>1. CASE Poll \/ NoConnection
  BY <1>1 DEF Poll, NoConnection, Mapped
<1>2. CASE Accept
  <2> DEFINE c == Head(backlog)
  <2>1. c \in Clients /\ child[c] = "none"
    BY <1>2, Oldest
  <2>2. \/ /\ child' = [child EXCEPT ![c] = "prompt"]
           /\ DOMAIN clients' = DOMAIN clients \cup {c}
        \/ child' = [child EXCEPT ![c] = "refused"] /\ UNCHANGED clients
    BY <1>2 DEF Accept
  <2> HIDE DEF c
  <2> QED
    BY <2>1, <2>2 DEF Mapped, Types
<1>3. CASE Receive
  <2>1. DOMAIN clients' = DOMAIN clients /\ UNCHANGED child
    BY <1>3 DEF Receive
  <2> QED
    BY <2>1 DEF Mapped
<1>4. ASSUME NEW c \in Clients, Reap(c)
      PROVE  Mapped'
  BY <1>4 DEF Reap, Mapped, Types
<1>5. ASSUME NEW c \in Clients, Child(c)
      PROVE  Mapped'
  <2>1. /\ child[c] \notin {"none", "reaped", "refused"} /\ UNCHANGED clients
        /\ \E a \in ChildPlaces \ {"none", "reaped", "refused"} :
              child' = [child EXCEPT ![c] = a]
    BY <1>5 DEF Child, Prompt, RecvNick, Register, RecvText, SendText, RecvEnd, Recv, Send,
                parent, ChildPlaces
  <2> QED
    BY <2>1 DEF Mapped, Types
<1>6. ASSUME NEW c \in Clients, Client(c)
      PROVE  Mapped'
  BY <1>6 DEF Client, Connect, SendNick, TypeLine, EndInput, KillClient, parent, Mapped
<1> QED
  BY <1>1, <1>2, <1>3, <1>4, <1>5, <1>6 DEF Next, Parent

-----------------------------------------------------------------------------
(* The nicks *)

(* Nobody has sent a nick at the start. *)
LEMMA InitNamed == Init => Named
BY EmptySeq DEF Init, Named

(* The parts of the messages in the queue. *)
LEMMA Messages ==
    ASSUME Types
    PROVE  /\ Len(mq) \in Nat
           /\ \A i \in 1..Len(mq) : /\ mq[i] \in Message /\ mq[i].pid \in Clients
                                    /\ mq[i].text \in Seq(Token) /\ mq[i].type \in {0, 1}
<1>1. mq \in Seq(Message)
  BY DEF Types
<1>2. \A i \in 1..Len(mq) : mq[i] \in Message
  BY <1>1, ElementOfSeq
<1> QED
  BY <1>1, <1>2, LenProperties DEF Message

(* A step that leaves the queue and the nicks of the children with messages. *)
LEMMA NamedFrame ==
    ASSUME Types, Named, UNCHANGED mq,
           \A c \in Clients : \/ child[c] = "none"
                              \/ child'[c] = "reaped"
                              \/ /\ child[c] # "reaped" \/ child'[c] = child[c]
                                 /\ HasNick(clients', c) <=> HasNick(clients, c),
           \A c \in Clients :
               child'[c] \in {"none", "refused"} => child[c] \in {"none", "refused"},
           \A c \in Clients : child'[c] \in {"recv", "send"} => child[c] \in {"recv", "send"},
           \A c \in Clients : child'[c] \in {"register", "send"} => buf'[c] # <<>>
    PROVE  Named'
<1>1. \A c \in Clients, i \in 1..(Len(mq) + 1) : NickBefore(mq', c, i) <=> NickBefore(mq, c, i)
  BY DEF NickBefore
<1>2. ASSUME NEW c \in Clients, child'[c] \in {"recv", "send"}
      PROVE  HasNick(clients', c) \/ NickBefore(mq', c, Len(mq) + 1)
  <2>1. Len(mq) + 1 \in 1..(Len(mq) + 1)
    BY Messages
  <2>2. HasNick(clients, c) \/ NickBefore(mq, c, Len(mq) + 1)
    BY <1>2 DEF Named
  <2>3. HasNick(clients', c) <=> HasNick(clients, c)
    BY <1>2
  <2> QED
    BY <1>1, <2>1, <2>2, <2>3
<1>3. ASSUME NEW i \in 1..Len(mq)
      PROVE  /\ mq[i].text # <<>> /\ child'[mq[i].pid] \notin {"none", "refused"}
             /\ mq[i].type = 0 => \/ child'[mq[i].pid] = "reaped" \/ HasNick(clients', mq[i].pid)
                                  \/ NickBefore(mq', mq[i].pid, i)
  <2> DEFINE c == mq[i].pid
  <2>1. c \in Clients /\ i \in 1..(Len(mq) + 1)
    BY Messages
  <2>2. /\ mq[i].text # <<>> /\ child[c] \notin {"none", "refused"}
        /\ mq[i].type = 0 => child[c] = "reaped" \/ HasNick(clients, c) \/ NickBefore(mq, c, i)
    BY DEF Named
  <2> HIDE DEF c
  <2>3. child'[c] \notin {"none", "refused"}
    BY <2>1, <2>2
  <2>4. ASSUME mq[i].type = 0
        PROVE  child'[c] = "reaped" \/ HasNick(clients', c) \/ NickBefore(mq', c, i)
    BY <1>1, <2>1, <2>2, <2>4
  <2> QED
    BY <2>2, <2>3, <2>4 DEF c
<1> QED
  BY <1>2, <1>3 DEF Named

(* A nick that is taken from the queue gets into the map before the first    *)
(* text of its client.                                                       *)
LEMMA NamedReceive ==
    ASSUME Types, Mapped, Named, Receive
    PROVE  Named'
<1> DEFINE m == Head(mq)
           n == Len(mq)
<1>1. /\ mq \in Seq(Message) /\ mq # <<>>
  BY DEF Receive, Types
<1>2. /\ Len(Tail(mq)) = n - 1 /\ n \in Nat /\ n >= 1 /\ m = mq[1] /\ 1 \in 1..n /\ m \in Message
      /\ \A i \in 1..(n - 1) : Tail(mq)[i] = mq[i + 1] /\ i + 1 \in 1..n
  BY <1>1, Shortened
<1>3. /\ m.pid \in Clients /\ m.text # <<>> /\ child[m.pid] \notin {"none", "refused"}
  BY <1>2 DEF Message, Named
<1> HIDE DEF m
<1>4. /\ mq' = Tail(mq) /\ UNCHANGED <<child, buf>>
      /\ \/ m.type = 1 /\ clients' = [d \in DOMAIN clients |->
                                        IF d = m.pid THEN m.text ELSE clients[d]]
         \/ m.type = 0 /\ UNCHANGED clients
  BY DEF Receive, m
<1>5. /\ Len(mq') = n - 1 /\ \A i \in 1..(n - 1) : mq'[i] = mq[i + 1]
  BY <1>2, <1>4
<1>6. \A d \in Clients : HasNick(clients, d) => HasNick(clients', d)
  BY <1>3, <1>4 DEF HasNick
<1>7. ASSUME NEW d \in Clients, NEW i \in 1..n, NickBefore(mq, d, i + 1)
      PROVE  child[d] = "reaped" \/ HasNick(clients', d) \/ NickBefore(mq', d, i)
  <2>1. PICK j \in 1..((i + 1) - 1) : mq[j].pid = d /\ mq[j].type = 1
    BY <1>7 DEF NickBefore
  <2>2. CASE j = 1
    <3>1. m.pid = d /\ m.type = 1
      BY <1>2, <2>1, <2>2
    <3>2. child[d] = "reaped" \/ d \in DOMAIN clients
      BY <1>3, <3>1 DEF Mapped
    <3> QED
      BY <1>3, <1>4, <3>1, <3>2 DEF HasNick
  <2>3. CASE j # 1
    <3>1. j - 1 \in 1..(i - 1) /\ j - 1 \in 1..(n - 1) /\ (j - 1) + 1 = j
      BY <1>2, <2>1, <2>3
    <3>2. mq'[j - 1] = mq[j]
      BY <1>5, <3>1
    <3> QED
      BY <2>1, <3>1, <3>2 DEF NickBefore
  <2> QED
    BY <2>2, <2>3
<1>8. ASSUME NEW d \in Clients, child[d] \in {"recv", "send"}
      PROVE  HasNick(clients', d) \/ NickBefore(mq', d, n)
  <2>1. HasNick(clients, d) \/ NickBefore(mq, d, n + 1)
    BY <1>8 DEF Named
  <2>2. n \in 1..n
    BY <1>2
  <2> QED
    BY <1>6, <1>7, <1>8, <2>1, <2>2
<1>9. ASSUME NEW i \in 1..(n - 1)
      PROVE  /\ mq'[i].text # <<>> /\ child[mq'[i].pid] \notin {"none", "refused"}
             /\ mq'[i].type = 0 => \/ child[mq'[i].pid] = "reaped" \/ HasNick(clients', mq'[i].pid)
                                   \/ NickBefore(mq', mq'[i].pid, i)
  <2>1. mq'[i] = mq[i + 1] /\ i + 1 \in 1..n /\ i \in 1..n
    BY <1>2, <1>5
  <2> DEFINE d == mq[i + 1].pid
  <2>2. /\ mq[i + 1].text # <<>> /\ child[d] \notin {"none", "refused"} /\ d \in Clients
        /\ mq[i + 1].type = 0 => \/ child[d] = "reaped" \/ HasNick(clients, d)
                                 \/ NickBefore(mq, d, i + 1)
    BY <2>1, Messages DEF Named
  <2> HIDE DEF d
  <2>3. mq[i + 1].type = 0 => child[d] = "reaped" \/ HasNick(clients', d) \/ NickBefore(mq', d, i)
    BY <1>6, <1>7, <2>1, <2>2
  <2>4. mq'[i].pid = d /\ mq'[i].type = mq[i + 1].type /\ mq'[i].text = mq[i + 1].text
    BY <2>1 DEF d
  <2> QED
    BY <2>2, <2>3, <2>4
<1>10. (n - 1) + 1 = n
  BY <1>2
<1>11. \A d \in Clients : child'[d] \in {"register", "send"} => buf'[d] # <<>>
  BY <1>4 DEF Named
<1> HIDE DEF n
<1> QED
  BY <1>4, <1>5, <1>8, <1>9, <1>10, <1>11 DEF Named

(* A child sends its nick before all texts. *)
LEMMA NamedSend ==
    ASSUME Types, Named, NEW c \in Clients, NEW from, NEW type \in {0, 1}, Send(c, from, type),
           <<from, type>> \in {<<"register", 1>>, <<"send", 0>>}
    PROVE  Named'
<1> DEFINE m == [pid |-> c, type |-> type, text |-> buf[c]]
           n == Len(mq)
<1>1. m \in Message /\ m.pid = c /\ m.type = type /\ m.text = buf[c]
  BY DEF Types, Message
<1> HIDE DEF m
<1>2. mq' = Append(mq, m) /\ mq \in Seq(Message)
  BY DEF Send, Types, m
<1>3. /\ Len(mq') = n + 1 /\ mq'[n + 1] = m /\ n \in Nat
      /\ \A i \in 1..n : mq'[i] = mq[i]
      /\ \A i \in 1..(n + 1) : i \in 1..n \/ i = n + 1
  BY <1>1, <1>2, Appended
<1>4. /\ UNCHANGED <<buf, clients>> /\ child[c] \in {"register", "send"}
      /\ child'[c] = "recv" /\ \A d \in Clients \ {c} : child'[d] = child[d]
      /\ type = 0 => child[c] = "send"
  BY DEF Send, parent, Types
<1>5. \A d \in Clients : (HasNick(clients', d) <=> HasNick(clients, d))
  BY <1>4 DEF HasNick
<1>6. ASSUME NEW d, NEW i \in 1..(n + 1), NickBefore(mq, d, i)
      PROVE  NickBefore(mq', d, i) /\ NickBefore(mq', d, n + 2)
  <2>1. PICK j \in 1..(i - 1) : mq[j].pid = d /\ mq[j].type = 1
    BY <1>6 DEF NickBefore
  <2>2. j \in 1..n /\ j \in 1..((n + 2) - 1)
    BY <1>3, <2>1
  <2>3. mq'[j] = mq[j]
    BY <1>3, <2>2
  <2> QED
    BY <2>1, <2>2, <2>3 DEF NickBefore
<1>7. n + 1 \in 1..(n + 1) /\ n + 1 \in 1..((n + 2) - 1) /\ (n + 1) + 1 = n + 2
  BY <1>3
<1>8. ASSUME NEW d \in Clients, child'[d] \in {"recv", "send"}
      PROVE  HasNick(clients', d) \/ NickBefore(mq', d, n + 2)
  <2>1. CASE d = c /\ type = 1
    BY <1>1, <1>3, <1>7, <2>1 DEF NickBefore
  <2>2. CASE ~ (d = c /\ type = 1)
    <3>1. child[d] \in {"recv", "send"}
      BY <1>4, <1>8, <2>2
    <3>2. HasNick(clients, d) \/ NickBefore(mq, d, n + 1)
      BY <3>1 DEF Named
    <3> QED
      BY <1>5, <1>6, <1>7, <3>2
  <2> QED
    BY <2>1, <2>2
<1>9. ASSUME NEW i \in 1..(n + 1)
      PROVE  /\ mq'[i].text # <<>> /\ child'[mq'[i].pid] \notin {"none", "refused"}
             /\ mq'[i].type = 0 => \/ child'[mq'[i].pid] = "reaped" \/ HasNick(clients', mq'[i].pid)
                                   \/ NickBefore(mq', mq'[i].pid, i)
  <2>1. CASE i \in 1..n
    <3> DEFINE d == mq[i].pid
    <3>1. /\ mq[i].text # <<>> /\ child[d] \notin {"none", "refused"} /\ d \in Clients
          /\ mq[i].type = 0 => child[d] = "reaped" \/ HasNick(clients, d) \/ NickBefore(mq, d, i)
      BY <2>1, Messages DEF Named
    <3>2. mq'[i] = mq[i]
      BY <1>3, <2>1
    <3> HIDE DEF d
    <3>3. child'[d] \notin {"none", "refused"} /\ (child[d] = "reaped" => child'[d] = "reaped")
      BY <1>4, <3>1
    <3>4. mq[i].type = 0 => child'[d] = "reaped" \/ HasNick(clients', d) \/ NickBefore(mq', d, i)
      BY <1>5, <1>6, <3>1, <3>3
    <3> QED
      BY <3>1, <3>2, <3>3, <3>4 DEF d
  <2>2. CASE i = n + 1
    <3>1. mq'[i].text # <<>> /\ mq'[i].pid = c /\ mq'[i].type = type
      BY <1>1, <1>3, <1>4, <2>2 DEF Named
    <3>2. type = 0 => HasNick(clients, c) \/ NickBefore(mq, c, n + 1)
      BY <1>4 DEF Named
    <3> QED
      BY <1>4, <1>5, <1>6, <1>7, <2>2, <3>1, <3>2
  <2> QED
    BY <1>3, <2>1, <2>2
<1>10. \A d \in Clients : child'[d] \in {"register", "send"} => buf'[d] # <<>>
  BY <1>4 DEF Named
<1> HIDE DEF n
<1> QED
  BY <1>3, <1>7, <1>8, <1>9, <1>10 DEF Named

(* Every step keeps the nick of a child known or in front of its texts. *)
LEMMA NamedStep ==
    ASSUME Types, Queued, Mapped, Named, Next
    PROVE  Named'
<1>1. CASE Poll \/ NoConnection
  BY <1>1, NamedFrame DEF Poll, NoConnection, Named, HasNick
<1>2. CASE Accept
  <2> DEFINE c == Head(backlog)
  <2>1. c \in Clients /\ child[c] = "none"
    BY <1>2, Oldest
  <2> HIDE DEF c
  <2>2. /\ UNCHANGED <<mq, buf>>
        /\ \E place \in {"prompt", "refused"} : child' = [child EXCEPT ![c] = place]
        /\ clients' = clients \/
           clients' = [d \in DOMAIN clients \cup {c} |-> IF d = c THEN <<>> ELSE clients[d]]
    BY <1>2 DEF Accept, c
  <2>3. /\ child'[c] \in {"prompt", "refused"} /\ \A d \in Clients \ {c} : child'[d] = child[d]
        /\ \A d \in Clients \ {c} : (HasNick(clients', d) <=> HasNick(clients, d))
    BY <2>1, <2>2 DEF Types, HasNick
  <2> QED
    BY <2>1, <2>2, <2>3, NamedFrame DEF Named
<1>3. ASSUME NEW c \in Clients, Reap(c)
      PROVE  Named'
  <2>1. /\ UNCHANGED <<mq, buf>> /\ child'[c] = "reaped"
        /\ \A d \in Clients \ {c} : child'[d] = child[d]
        /\ \A d \in Clients \ {c} : (HasNick(clients', d) <=> HasNick(clients, d))
    BY <1>3 DEF Reap, Types, HasNick
  <2> QED
    BY <2>1, NamedFrame DEF Named
<1>4. ASSUME NEW c \in Clients, Prompt(c) \/ RecvNick(c) \/ RecvText(c) \/ RecvEnd(c)
      PROVE  Named'
  <2>1. /\ UNCHANGED <<mq, clients>> /\ child[c] \notin {"none", "reaped"}
        /\ child'[c] \in {"nick", "register", "send", "exited"}
        /\ child'[c] \in {"recv", "send"} => child[c] \in {"recv", "send"}
        /\ child'[c] \in {"register", "send"} => buf'[c] # <<>>
        /\ \A d \in Clients \ {c} : child'[d] = child[d] /\ buf'[d] = buf[d]
    BY <1>4 DEF Prompt, RecvNick, RecvText, RecvEnd, Recv, parent, Types
  <2>2. \A d \in Clients : (HasNick(clients', d) <=> HasNick(clients, d))
    BY <2>1 DEF HasNick
  <2> QED
    BY <2>1, <2>2, NamedFrame DEF Named
<1>5. ASSUME NEW c \in Clients, Register(c) \/ SendText(c)
      PROVE  Named'
  BY <1>5, NamedSend DEF Register, SendText
<1>6. ASSUME NEW c \in Clients, Client(c)
      PROVE  Named'
  <2>1. UNCHANGED <<mq, clients, child, buf>>
    BY <1>6 DEF Client, Connect, SendNick, TypeLine, EndInput, KillClient, parent
  <2> QED
    BY <2>1, NamedFrame DEF Named, HasNick
<1> QED
  BY <1>1, <1>2, <1>3, <1>4, <1>5, <1>6, NamedReceive DEF Next, Parent, Child

-----------------------------------------------------------------------------
(* The stream of each client *)

(* The tokens typed from one number up to another. *)
LEMMA RunIs ==
    ASSUME NEW c \in Clients, NEW a \in Nat, NEW b \in Nat, a <= b
    PROVE  /\ Run(c, a, b) \in Seq(Token) /\ Len(Run(c, a, b)) = b - a
           /\ \A k \in 1..(b - a) : Run(c, a, b)[k] = <<c, a + k - 1>>
           /\ Run(c, a, b) = <<>> <=> a = b
<1>1. \A k \in 1..(b - a) : <<c, a + k - 1>> \in Token
  BY DEF Token
<1>2. b - a \in Nat
  OBVIOUS
<1>3. /\ Run(c, a, b) \in Seq(Token) /\ Len(Run(c, a, b)) = b - a
      /\ \A k \in 1..(b - a) : Run(c, a, b)[k] = <<c, a + k - 1>>
  BY <1>1, <1>2 DEF Run
<1>4. Run(c, a, b) = <<>> <=> Len(Run(c, a, b)) = 0
  BY <1>3, EmptySeq
<1> QED
  BY <1>3, <1>4

(* Two runs that meet are one. *)
LEMMA RunJoined ==
    ASSUME NEW c \in Clients, NEW a \in Nat, NEW b \in Nat, NEW d \in Nat, a <= b, b <= d
    PROVE  Run(c, a, b) \o Run(c, b, d) = Run(c, a, d)
<1> DEFINE s == Run(c, a, b)
           t == Run(c, b, d)
           r == Run(c, a, d)
<1>0. a <= d
  OBVIOUS
<1>1. /\ s \in Seq(Token) /\ Len(s) = b - a /\ t \in Seq(Token) /\ Len(t) = d - b
      /\ r \in Seq(Token) /\ Len(r) = d - a
  BY <1>0, RunIs
<1>2. /\ \A k \in 1..(b - a) : s[k] = <<c, a + k - 1>>
      /\ \A k \in 1..(d - b) : t[k] = <<c, b + k - 1>>
      /\ \A k \in 1..(d - a) : r[k] = <<c, a + k - 1>>
  <2>1. \A k \in 1..(b - a) : s[k] = <<c, a + k - 1>>
    BY DEF Run
  <2>2. \A k \in 1..(d - b) : t[k] = <<c, b + k - 1>>
    BY DEF Run
  <2>3. \A k \in 1..(d - a) : r[k] = <<c, a + k - 1>>
    BY DEF Run
  <2> QED
    BY <2>1, <2>2, <2>3
<1> HIDE DEF s, t, r
<1>3. /\ s \o t \in Seq(Token) /\ Len(s \o t) = (b - a) + (d - b)
      /\ \A k \in 1..((b - a) + (d - b)) :
            (s \o t)[k] = IF k <= b - a THEN s[k] ELSE t[k - (b - a)]
  <2>1. /\ s \o t \in Seq(Token) /\ Len(s \o t) = Len(s) + Len(t)
        /\ \A k \in 1..(Len(s) + Len(t)) :
              (s \o t)[k] = IF k <= Len(s) THEN s[k] ELSE t[k - Len(s)]
    BY <1>1, ConcatProperties
  <2> QED
    BY <1>1, <2>1
<1>4. ASSUME NEW k \in 1..(d - a)
      PROVE  (s \o t)[k] = r[k]
  <2>1. k \in 1..((b - a) + (d - b))
    OBVIOUS
  <2>2. CASE k <= b - a
    <3>1. k \in 1..(b - a)
      BY <2>2
    <3> QED
      BY <1>2, <1>3, <2>1, <2>2, <3>1
  <2>3. CASE ~(k <= b - a)
    <3>1. k - (b - a) \in 1..(d - b) /\ b + (k - (b - a)) - 1 = a + k - 1
      BY <2>3
    <3> QED
      BY <1>2, <1>3, <2>1, <2>3, <3>1
  <2> QED
    BY <2>2, <2>3
<1>5. Len(s \o t) = d - a
  BY <1>3
<1>6. s \o t = r
  BY <1>1, <1>3, <1>4, <1>5, SeqEqual
<1> QED
  BY <1>6 DEF s, t, r

(* One more token is typed. *)
LEMMA RunAppended ==
    ASSUME NEW c \in Clients, NEW a \in Nat, NEW b \in Nat, a <= b
    PROVE  Append(Run(c, a, b), <<c, b>>) = Run(c, a, b + 1)
<1> DEFINE s == Run(c, a, b)
           r == Run(c, a, b + 1)
           e == <<c, b>>
<1>0. a <= b + 1 /\ b + 1 \in Nat
  OBVIOUS
<1>1. /\ s \in Seq(Token) /\ Len(s) = b - a /\ r \in Seq(Token) /\ Len(r) = b + 1 - a
      /\ \A k \in 1..(b - a) : s[k] = <<c, a + k - 1>>
      /\ \A k \in 1..(b + 1 - a) : r[k] = <<c, a + k - 1>>
      /\ e \in Token
  <2>1. s \in Seq(Token) /\ Len(s) = b - a /\ r \in Seq(Token) /\ Len(r) = b + 1 - a
    <3>1. \A d \in Nat : a <= d => Run(c, a, d) \in Seq(Token) /\ Len(Run(c, a, d)) = d - a
      BY RunIs
    <3> QED
      BY <1>0, <3>1
  <2>2. /\ \A k \in 1..(b - a) : s[k] = <<c, a + k - 1>>
        /\ \A k \in 1..(b + 1 - a) : r[k] = <<c, a + k - 1>>
    BY DEF Run
  <2> QED
    BY <2>1, <2>2 DEF Token
<1>2. r[b + 1 - a] = e
  <2>1. b + 1 - a \in 1..(b + 1 - a) /\ a + (b + 1 - a) - 1 = b
    OBVIOUS
  <2> QED
    BY <1>1, <2>1
<1> HIDE DEF s, r, e
<1>3. /\ Append(s, e) \in Seq(Token) /\ Len(Append(s, e)) = (b - a) + 1
      /\ Append(s, e)[(b - a) + 1] = e
      /\ \A k \in 1..(b - a) : Append(s, e)[k] = s[k]
  BY <1>1, Appended
<1>4. \A k \in 1..(b + 1 - a) : k \in 1..(b - a) \/ k = (b - a) + 1
  OBVIOUS
<1>5. /\ (b - a) + 1 = b + 1 - a
      /\ \A k \in 1..(b - a) : k \in 1..(b + 1 - a)
  OBVIOUS
<1>6. \A k \in 1..(b + 1 - a) : Append(s, e)[k] = r[k]
  BY <1>1, <1>2, <1>3, <1>4, <1>5
<1>7. Append(s, e) = r
  BY <1>1, <1>3, <1>5, <1>6, SeqEqual
<1> QED
  BY <1>7 DEF s, r, e

(* Where each of the actions that touch a stream moves the cut.              *)
LEMMA CutReceived ==
    ASSUME Types, NEW c \in Clients, NEW h, NEW t, NEW r, NEW q, NEW b, NEW u,
           mq # <<>>, Cut(c, h, mq, t, r, q, b, u)
    PROVE  /\ Head(mq).pid = c =>
                 \E p : Cut(c, h \o Head(mq).text, Tail(mq), t, r, p, b, u)
           /\ Head(mq).pid # c => \E p : Cut(c, h, Tail(mq), t, r, p, b, u)
<1> DEFINE n == Len(mq)
           p == [i \in 1..n |-> q[i + 1]]
<1>1. /\ Tail(mq) \in Seq(Message) /\ Len(Tail(mq)) = n - 1 /\ n \in Nat /\ n >= 1
      /\ Head(mq) = mq[1] /\ 1 \in 1..n
      /\ \A i \in 1..(n - 1) : Tail(mq)[i] = mq[i + 1] /\ i + 1 \in 1..n
  BY Shortened DEF Types
<1>2. /\ b \in Nat /\ u \in Nat /\ b <= u /\ q \in [1..(n + 1) -> 0..b]
      /\ h = Run(c, 0, q[1]) /\ t = Run(c, q[n + 1], b) /\ r = Run(c, b, u)
      /\ \A i \in 1..n : /\ q[i] <= q[i + 1]
                         /\ mq[i].pid = c => mq[i].text = Run(c, q[i], q[i + 1])
                         /\ mq[i].pid # c => q[i + 1] = q[i]
  BY DEF Cut
<1>3. (n - 1) + 1 = n /\ \A i \in 1..n : i + 1 \in 1..(n + 1)
  BY <1>1
<1>4. p \in [1..((n - 1) + 1) -> 0..b] /\ p[(n - 1) + 1] = q[n + 1] /\ p[1] = q[2]
  BY <1>1, <1>2, <1>3
<1>5. \A i \in 1..(n - 1) : /\ i \in 1..n /\ i + 1 \in 1..n
                            /\ p[i] = q[i + 1] /\ p[i + 1] = q[(i + 1) + 1]
  BY <1>1
<1> HIDE DEF p, n
<1>6. \A i \in 1..(n - 1) : /\ p[i] <= p[i + 1]
                            /\ Tail(mq)[i].pid = c => Tail(mq)[i].text = Run(c, p[i], p[i + 1])
                            /\ Tail(mq)[i].pid # c => p[i + 1] = p[i]
  BY SMTT(30), <1>1, <1>2, <1>5
<1>7. ASSUME Head(mq).pid = c
      PROVE  Cut(c, h \o Head(mq).text, Tail(mq), t, r, p, b, u)
  <2>1. q[1] \in Nat /\ q[2] \in Nat /\ q[1] <= q[2] /\ 0 <= q[1] /\ 0 \in Nat /\ 1 + 1 = 2
    BY <1>1, <1>2, <1>3
  <2>2. Head(mq).text = Run(c, q[1], q[2])
    BY <1>1, <1>2, <1>7, <2>1
  <2>3. h \o Head(mq).text = Run(c, 0, p[1])
    <3>1. Run(c, 0, q[1]) \o Run(c, q[1], q[2]) = Run(c, 0, q[2])
      BY <2>1, RunJoined
    <3> QED
      BY <1>2, <1>4, <2>2, <3>1
  <2> QED
    BY <1>1, <1>2, <1>4, <1>6, <2>3 DEF Cut
<1>8. ASSUME Head(mq).pid # c
      PROVE  Cut(c, h, Tail(mq), t, r, p, b, u)
  <2>1. q[2] = q[1]
    <3>1. 1 + 1 = 2
      OBVIOUS
    <3> QED
      BY <1>1, <1>2, <1>8, <3>1
  <2> QED
    BY <1>1, <1>2, <1>4, <1>6, <2>1 DEF Cut
<1> QED
  BY <1>7, <1>8

(* What a child has in its hand goes to the end of the queue, and the cuts   *)
(* of all clients stay.                                                      *)
LEMMA CutSent ==
    ASSUME Types, NEW c \in Clients, NEW h, NEW t, NEW r, NEW q, NEW b, NEW u, NEW m \in Message,
           Cut(c, h, mq, t, r, q, b, u)
    PROVE  /\ m.pid = c /\ m.text = t => \E p : Cut(c, h, Append(mq, m), <<>>, r, p, b, u)
           /\ m.pid # c => \E p : Cut(c, h, Append(mq, m), t, r, p, b, u)
<1> DEFINE n == Len(mq)
           s == Append(mq, m)
           P(x) == [i \in 1..(n + 2) |-> IF i <= n + 1 THEN q[i] ELSE x]
<1>1. /\ s \in Seq(Message) /\ Len(s) = n + 1 /\ s[n + 1] = m /\ n \in Nat
      /\ \A i \in 1..n : s[i] = mq[i]
      /\ \A i \in 1..(n + 1) : i \in 1..n \/ i = n + 1
  BY Appended DEF Types
<1>2. /\ b \in Nat /\ u \in Nat /\ b <= u /\ q \in [1..(n + 1) -> 0..b]
      /\ h = Run(c, 0, q[1]) /\ t = Run(c, q[n + 1], b) /\ r = Run(c, b, u)
      /\ \A i \in 1..n : /\ q[i] <= q[i + 1]
                         /\ mq[i].pid = c => mq[i].text = Run(c, q[i], q[i + 1])
                         /\ mq[i].pid # c => q[i + 1] = q[i]
  BY DEF Cut
<1>3. (n + 1) + 1 = n + 2 /\ n + 1 \in 1..(n + 1) /\ b \in 0..b /\ q[n + 1] \in 0..b
  BY <1>1, <1>2
<1>4. ASSUME NEW x \in 0..b
      PROVE  /\ P(x) \in [1..((n + 1) + 1) -> 0..b] /\ P(x)[1] = q[1]
             /\ P(x)[(n + 1) + 1] = x /\ P(x)[n + 1] = q[n + 1]
             /\ \A i \in 1..n : P(x)[i] = q[i] /\ P(x)[i + 1] = q[i + 1]
  BY <1>1, <1>2, <1>3
<1>5. ASSUME m.pid = c, m.text = t
      PROVE  \E p : Cut(c, h, s, <<>>, r, p, b, u)
  <2> DEFINE p == P(b)
  <2>1. /\ p \in [1..((n + 1) + 1) -> 0..b] /\ p[1] = q[1]
        /\ p[(n + 1) + 1] = b /\ p[n + 1] = q[n + 1]
        /\ \A i \in 1..n : p[i] = q[i] /\ p[i + 1] = q[i + 1]
    BY <1>3, <1>4
  <2> HIDE DEF p, s, n
  <2>2. ASSUME NEW i \in 1..(n + 1)
        PROVE  /\ p[i] <= p[i + 1]
               /\ s[i].pid = c => s[i].text = Run(c, p[i], p[i + 1])
               /\ s[i].pid # c => p[i + 1] = p[i]
    <3>1. CASE i \in 1..n
      BY <1>1, <1>2, <2>1, <3>1
    <3>2. CASE i = n + 1
      BY <1>1, <1>2, <1>3, <1>5, <2>1, <3>2
    <3> QED
      BY <1>1, <3>1, <3>2
  <2>3. Run(c, b, b) = <<>>
    <3>1. b <= b
      BY <1>2
    <3> QED
      BY <1>2, <3>1, RunIs
  <2>4. Cut(c, h, s, <<>>, r, p, b, u)
    BY <1>1, <1>2, <2>1, <2>2, <2>3 DEF Cut
  <2> QED
    BY <2>4
<1>6. ASSUME m.pid # c
      PROVE  \E p : Cut(c, h, s, t, r, p, b, u)
  <2> DEFINE p == P(q[n + 1])
  <2>1. /\ p \in [1..((n + 1) + 1) -> 0..b] /\ p[1] = q[1]
        /\ p[(n + 1) + 1] = q[n + 1] /\ p[n + 1] = q[n + 1]
        /\ \A i \in 1..n : p[i] = q[i] /\ p[i + 1] = q[i + 1]
    BY <1>3, <1>4
  <2> HIDE DEF p, s, n
  <2>2. ASSUME NEW i \in 1..(n + 1)
        PROVE  /\ p[i] <= p[i + 1]
               /\ s[i].pid = c => s[i].text = Run(c, p[i], p[i + 1])
               /\ s[i].pid # c => p[i + 1] = p[i]
    <3>1. CASE i \in 1..n
      BY <1>1, <1>2, <2>1, <3>1
    <3>2. CASE i = n + 1
      BY <1>1, <1>2, <1>3, <1>6, <2>1, <3>2
    <3> QED
      BY <1>1, <3>1, <3>2
  <2>3. Cut(c, h, s, t, r, p, b, u)
    BY <1>1, <1>2, <2>1, <2>2 DEF Cut
  <2> QED
    BY <2>3
<1> QED
  BY <1>5, <1>6

(* Nothing is typed at the start. *)
LEMMA InitStream == Init => Stream
<1>1. ASSUME Init, NEW c \in Clients
      PROVE  Flows(c)
  <2> DEFINE q == [i \in 1..1 |-> 0]
  <2>1. /\ handled[c] = <<>> /\ mq = <<>> /\ Held(c) = <<>> /\ up[c] = <<>> /\ Sent(c) = 0
    BY <1>1 DEF Init, Held, Sent, users
  <2>2. Run(c, 0, 0) = <<>>
    BY RunIs
  <2>3. Len(mq) = 0 /\ q \in [1..1 -> 0..0] /\ q[1] = 0 /\ 0 + 1 = 1
    BY <2>1
  <2>4. Cut(c, <<>>, mq, <<>>, <<>>, q, 0, 0)
    BY <2>2, <2>3 DEF Cut
  <2> QED
    BY <2>1, <2>4 DEF Flows
<1> QED
  BY <1>1 DEF Stream

(* A step that moves nothing of a client keeps its cuts. *)
LEMMA FlowsKept ==
    ASSUME NEW c \in Clients, Flows(c), UNCHANGED mq, handled'[c] = handled[c],
           Held(c)' = Held(c), up'[c] = up[c], Sent(c)' = Sent(c),
           client'[c] # "killed" => client[c] # "killed"
    PROVE  Flows(c)'
BY DEF Flows

(* A message goes from the queue to what was handled. *)
LEMMA StreamReceive ==
    ASSUME Types, Stream, Receive, NEW c \in Clients
    PROVE  Flows(c)'
<1> DEFINE m == Head(mq)
<1>1. mq # <<>> /\ mq' = Tail(mq) /\ m \in Message /\ m.pid \in Clients
  <2>1. mq # <<>> /\ mq' = Tail(mq)
    BY DEF Receive
  <2>2. mq \in Seq(Message)
    BY DEF Types
  <2>3. m \in Message
    BY <2>1, <2>2, Shortened
  <2> QED
    BY <2>1, <2>3 DEF Message
<1>2. /\ handled' = [handled EXCEPT ![m.pid] = @ \o m.text]
      /\ UNCHANGED <<child, buf, up, client, typed>>
  BY DEF Receive, users
<1>3. Held(c)' = Held(c) /\ Sent(c)' = Sent(c)
  BY <1>2 DEF Held, Sent
<1>4. PICK q, b, u : /\ Cut(c, handled[c], mq, Held(c), up[c], q, b, u)
                     /\ u <= Sent(c) /\ (client[c] # "killed" => u = Sent(c))
  BY DEF Stream, Flows
<1>5. CASE m.pid = c
  <2>1. handled'[c] = handled[c] \o m.text
    BY <1>1, <1>2, <1>5 DEF Types
  <2>2. \E p : Cut(c, handled[c] \o m.text, Tail(mq), Held(c), up[c], p, b, u)
    BY <1>1, <1>4, <1>5, CutReceived
  <2> HIDE DEF m
  <2> QED
    BY <1>1, <1>2, <1>3, <1>4, <2>1, <2>2 DEF Flows
<1>6. CASE m.pid # c
  <2>1. handled'[c] = handled[c]
    BY <1>1, <1>2, <1>6 DEF Types
  <2>2. \E p : Cut(c, handled[c], Tail(mq), Held(c), up[c], p, b, u)
    BY <1>1, <1>4, <1>6, CutReceived
  <2> HIDE DEF m
  <2> QED
    BY <1>1, <1>2, <1>3, <1>4, <2>1, <2>2 DEF Flows
<1> QED
  BY <1>5, <1>6

(* A message goes from the child to the queue. *)
LEMMA StreamSend ==
    ASSUME Types, Stream, NEW c \in Clients, NEW from \in {"register", "send"},
           NEW type \in {0, 1}, Send(c, from, type), NEW d \in Clients
    PROVE  Flows(d)'
<1> DEFINE m == [pid |-> c, type |-> type, text |-> buf[c]]
<1>1. m \in Message /\ m.pid = c /\ m.text = buf[c]
  BY DEF Types, Message
<1> HIDE DEF m
<1>2. /\ mq' = Append(mq, m) /\ child[c] \in {"register", "send"}
      /\ child' = [child EXCEPT ![c] = "recv"]
      /\ UNCHANGED <<buf, up, client, typed, handled>>
  BY DEF Send, users, m
<1>3. Sent(d)' = Sent(d)
  BY <1>2 DEF Sent
<1>4. PICK q, b, u : /\ Cut(d, handled[d], mq, Held(d), up[d], q, b, u)
                     /\ u <= Sent(d) /\ (client[d] # "killed" => u = Sent(d))
  BY DEF Stream, Flows
<1>5. CASE d = c
  <2>1. Held(d) = m.text /\ Held(d)' = <<>>
    BY <1>1, <1>2, <1>5 DEF Held, Types
  <2>2. \E p : Cut(d, handled[d], Append(mq, m), <<>>, up[d], p, b, u)
    BY <1>1, <1>4, <1>5, <2>1, CutSent
  <2> QED
    BY <1>2, <1>3, <1>4, <2>1, <2>2 DEF Flows
<1>6. CASE d # c
  <2>1. Held(d)' = Held(d)
    BY <1>2, <1>6 DEF Held, Types
  <2>2. \E p : Cut(d, handled[d], Append(mq, m), Held(d), up[d], p, b, u)
    BY <1>1, <1>4, <1>6, CutSent
  <2> QED
    BY <1>2, <1>3, <1>4, <2>1, <2>2 DEF Flows
<1> QED
  BY <1>5, <1>6

(* A text goes from the socket to the child. *)
LEMMA StreamRecv ==
    ASSUME Types, NEW c \in Clients, Flows(c), RecvNick(c) \/ RecvText(c)
    PROVE  Flows(c)'
<1>1. /\ Held(c) = <<>> /\ Held(c)' = up[c] /\ up'[c] = <<>>
      /\ UNCHANGED <<mq, handled, client, typed>>
  BY DEF RecvNick, RecvText, Recv, Held, users, Types
<1>2. PICK q, b, u : /\ Cut(c, handled[c], mq, Held(c), up[c], q, b, u)
                     /\ u <= Sent(c) /\ (client[c] # "killed" => u = Sent(c))
  BY DEF Flows
<1> DEFINE n == Len(mq)
<1>3. /\ b \in Nat /\ u \in Nat /\ b <= u /\ q \in [1..(n + 1) -> 0..b]
      /\ Held(c) = Run(c, q[n + 1], b) /\ up[c] = Run(c, b, u)
  BY <1>2 DEF Cut
<1>4. n + 1 \in 1..(n + 1) /\ q[n + 1] \in Nat /\ q[n + 1] <= b
  <2>1. n \in Nat
    BY Messages
  <2> QED
    BY <1>3, <2>1
<1>5. q[n + 1] = b
  BY SMTT(30), <1>1, <1>3, <1>4, RunIs
<1>6. Run(c, u, u) = <<>> /\ q \in [1..(n + 1) -> 0..u]
  <2>1. u <= u
    BY <1>3
  <2> QED
    BY <1>3, <2>1, RunIs
<1>7. Cut(c, handled[c], mq, up[c], <<>>, q, u, u)
  BY <1>2, <1>3, <1>5, <1>6 DEF Cut
<1>8. Sent(c)' = Sent(c)
  BY <1>1 DEF Sent
<1> QED
  BY <1>1, <1>2, <1>7, <1>8 DEF Flows

(* A token goes into the socket. *)
LEMMA StreamType ==
    ASSUME Types, NEW c \in Clients, Flows(c), client[c] # "killed", NEW n \in Nat,
           n = Sent(c), Type(c, n), UNCHANGED <<mq, handled, child, buf>>, Sent(c)' = n + 1
    PROVE  Flows(c)'
<1>1. PICK q, b, u : /\ Cut(c, handled[c], mq, Held(c), up[c], q, b, u)
                     /\ u <= Sent(c) /\ (client[c] # "killed" => u = Sent(c))
  BY DEF Flows
<1>2. u = n /\ up'[c] = Append(up[c], <<c, n>>) /\ Held(c)' = Held(c)
  BY <1>1 DEF Type, Types, Held
<1>3. b \in Nat /\ u \in Nat /\ b <= u /\ up[c] = Run(c, b, u)
  BY <1>1 DEF Cut
<1>4. up'[c] = Run(c, b, u + 1)
  BY <1>2, <1>3, RunAppended
<1>5. u + 1 \in Nat /\ b <= u + 1
  BY <1>3
<1>6. Cut(c, handled[c], mq, Held(c), up'[c], q, b, u + 1)
  BY <1>1, <1>4, <1>5 DEF Cut
<1>7. u + 1 <= n + 1 /\ u + 1 = n + 1
  BY <1>2, <1>3
<1> QED
  BY <1>2, <1>6, <1>7 DEF Flows

(* A client that is killed types no more. *)
LEMMA StreamKill ==
    ASSUME Types, NEW c \in Clients, Flows(c), KillClient(c)
    PROVE  Flows(c)'
<1>1. PICK q, b, u : /\ Cut(c, handled[c], mq, Held(c), up[c], q, b, u)
                     /\ u <= Sent(c) /\ (client[c] # "killed" => u = Sent(c))
  BY DEF Flows
<1>2. /\ client'[c] = "killed" /\ Held(c)' = Held(c) /\ UNCHANGED <<mq, handled, typed>>
      /\ up'[c] \in {up[c], <<>>}
  BY DEF KillClient, Types, Held
<1>3. b \in Nat /\ u \in Nat /\ b <= u /\ up[c] = Run(c, b, u) /\ typed[c] \in Nat
  BY <1>1 DEF Cut, Types
<1>4. u <= Sent(c)' /\ b <= Sent(c)'
  <2>1. Sent(c)' = typed[c] + 1 /\ Sent(c) \in {0, typed[c] + 1}
    BY <1>2 DEF Sent
  <2> QED
    BY <1>1, <1>3, <2>1
<1>5. CASE up'[c] = up[c]
  BY <1>1, <1>2, <1>4, <1>5 DEF Flows
<1>6. CASE up'[c] = <<>>
  <2>1. Run(c, b, b) = <<>> /\ b <= b
    <3>1. b <= b
      BY <1>3
    <3> QED
      BY <1>3, <3>1, RunIs
  <2>2. Cut(c, handled[c], mq, Held(c), <<>>, q, b, b)
    BY <1>1, <2>1 DEF Cut
  <2> QED
    BY <1>2, <1>4, <1>6, <2>2 DEF Flows
<1> QED
  BY <1>2, <1>5, <1>6

(* Every step keeps the cuts of all clients. *)
LEMMA StreamStep ==
    ASSUME Types, Queued, Stream, Next
    PROVE  Stream'
<1>1. SUFFICES ASSUME NEW d \in Clients
               PROVE  Flows(d)'
  BY DEF Stream
<1>0. Flows(d)
  BY DEF Stream
<1>2. CASE Poll \/ NoConnection
  <2>1. UNCHANGED <<mq, handled, child, buf, up, client, typed>>
    BY <1>2 DEF Poll, NoConnection, users
  <2> QED
    BY <1>0, <2>1, FlowsKept DEF Held, Sent
<1>3. ASSUME Accept \/ \E c \in Clients : Reap(c) \/ Prompt(c) \/ RecvEnd(c)
      PROVE  Flows(d)'
  <2>1. UNCHANGED <<mq, handled, buf, up, client, typed>>
    BY <1>3 DEF Accept, Reap, Prompt, RecvEnd, users
  <2>2. \/ /\ child[d] \notin {"register", "send"}
           /\ child'[d] \notin {"register", "send"}
        \/ child'[d] = child[d]
    BY <1>3, Oldest DEF Accept, Reap, Prompt, RecvEnd, Types
  <2> QED
    BY <1>0, <2>1, <2>2, FlowsKept DEF Held, Sent
<1>4. CASE Receive
  BY <1>4, StreamReceive
<1>5. ASSUME NEW c \in Clients, Register(c) \/ SendText(c)
      PROVE  Flows(d)'
  BY <1>5, StreamSend DEF Register, SendText
<1>6. ASSUME NEW c \in Clients, RecvNick(c) \/ RecvText(c) \/ Client(c), d # c
      PROVE  Flows(d)'
  <2>1. /\ UNCHANGED <<mq, handled>> /\ child'[d] = child[d] /\ buf'[d] = buf[d]
        /\ up'[d] = up[d] /\ client'[d] = client[d] /\ typed'[d] = typed[d]
    BY <1>6 DEF RecvNick, RecvText, Recv, Client, Connect, SendNick, TypeLine, EndInput,
                KillClient, Type, users, Types
  <2> QED
    BY <1>0, <2>1, FlowsKept DEF Held, Sent
<1>7. CASE RecvNick(d) \/ RecvText(d)
  BY <1>0, <1>7, StreamRecv
<1>8. CASE Connect(d) \/ EndInput(d)
  <2>1. /\ UNCHANGED <<mq, handled, child, buf, up, typed>> /\ client'[d] # "killed"
        /\ client[d] # "killed"
        /\ client'[d] \in {"start", "connected"} <=> client[d] \in {"start", "connected"}
    BY <1>8 DEF Connect, EndInput, Types
  <2> QED
    BY <1>0, <2>1, FlowsKept DEF Held, Sent
<1>9. CASE SendNick(d)
  <2>1. /\ Sent(d) = 0 /\ Sent(d)' = 0 + 1 /\ client[d] # "killed" /\ Type(d, 0)
        /\ UNCHANGED <<mq, handled, child, buf>>
    BY <1>9 DEF SendNick, Sent, Type, Types
  <2> QED
    BY <1>0, <2>1, StreamType
<1>10. CASE TypeLine(d)
  <2>1. /\ Sent(d) = typed[d] + 1 /\ client[d] # "killed" /\ Type(d, typed[d] + 1)
        /\ UNCHANGED <<mq, handled, child, buf>> /\ typed[d] + 1 \in Nat
    BY <1>10 DEF TypeLine, Sent, Types
  <2>2. Sent(d)' = (typed[d] + 1) + 1
    BY <1>10 DEF TypeLine, Sent, Type, Types
  <2> QED
    BY <1>0, <2>1, <2>2, StreamType
<1>11. CASE KillClient(d)
  BY <1>0, <1>11, StreamKill
<1> QED
  BY <1>2, <1>3, <1>4, <1>5, <1>6, <1>7, <1>8, <1>9, <1>10, <1>11
     DEF Next, Parent, Child, Client

-----------------------------------------------------------------------------
(* The broadcasts *)

(* The broadcasts a client was sent. *)
LEMMA ShownIs ==
    ASSUME Types, NEW c \in Clients
    PROVE  /\ down[c] \in Seq(Shown) /\ Len(down[c]) \in Nat
           /\ \A i \in 1..Len(down[c]) : /\ down[c][i].pid \in Clients
                                         /\ down[c][i].text \in Seq(Token)
<1>1. down[c] \in Seq(Shown)
  BY DEF Types
<1>2. \A i \in 1..Len(down[c]) : down[c][i] \in Shown
  BY <1>1, ElementOfSeq
<1> QED
  BY <1>1, <1>2, LenProperties DEF Shown

(* The message in front begins with the first token of its author that was   *)
(* not handled yet.                                                          *)
LEMMA FrontIsNew ==
    ASSUME Types, Named, Stream, Receive
    PROVE  LET m == Head(mq) IN
             /\ m \in Message /\ m.pid \in Clients /\ m.text \in Seq(Token) /\ m.text # <<>>
             /\ m.text[1][2] = Len(handled[m.pid])
             /\ Len(handled[m.pid]) \in Nat /\ Len(m.text) \in Nat /\ Len(m.text) >= 1
             /\ handled'[m.pid] = handled[m.pid] \o m.text
             /\ Len(handled'[m.pid]) = Len(handled[m.pid]) + Len(m.text)
             /\ \A c \in Clients \ {m.pid} : handled'[c] = handled[c]
<1> DEFINE m == Head(mq)
           c == m.pid
<1>1. mq \in Seq(Message) /\ mq # <<>>
  BY DEF Receive, Types
<1>2. m = mq[1] /\ 1 \in 1..Len(mq) /\ m \in Message
  BY <1>1, Shortened
<1>3. c \in Clients /\ m.text \in Seq(Token) /\ m.text # <<>>
  BY <1>2 DEF Message, Named
<1>4. PICK q, b, u : Cut(c, handled[c], mq, Held(c), up[c], q, b, u)
  BY <1>3 DEF Stream, Flows
<1>5. PICK x \in Nat, y \in Nat : /\ x <= y /\ handled[c] = Run(c, 0, x)
                                 /\ m.text = Run(c, x, y)
  <2>1. 1 + 1 = 2 /\ 1 \in 1..(Len(mq) + 1) /\ 2 \in 1..(Len(mq) + 1)
    BY <1>2, Messages
  <2>2. /\ q[1] \in Nat /\ q[2] \in Nat /\ q[1] <= q[2]
        /\ handled[c] = Run(c, 0, q[1]) /\ m.text = Run(c, q[1], q[2])
    BY <1>2, <1>4, <2>1 DEF Cut
  <2> QED
    BY <2>2
<1> HIDE DEF m, c
<1>6. 0 <= x /\ 0 \in Nat
  BY <1>5
<1>7. Len(handled[c]) = x
  <2>1. Len(Run(c, 0, x)) = x - 0
    BY <1>3, <1>6, RunIs
  <2> QED
    BY <1>5, <2>1
<1>8. Len(m.text) = y - x /\ x # y
  BY <1>3, <1>5, RunIs
<1>9. m.text[1] = <<c, x>>
  <2>1. 1 \in 1..(y - x) /\ x + 1 - 1 = x
    BY <1>5, <1>8
  <2> QED
    BY <1>5, <2>1 DEF Run
<1>10. handled' = [handled EXCEPT ![c] = @ \o m.text] /\ handled \in [Clients -> Seq(Token)]
  BY DEF Receive, m, c, Types
<1>11. handled'[c] = handled[c] \o m.text /\ \A d \in Clients \ {c} : handled'[d] = handled[d]
  BY <1>3, <1>10
<1>12. Len(handled'[c]) = Len(handled[c]) + Len(m.text)
  BY <1>3, <1>10, <1>11, ConcatProperties
<1>13. /\ m.text[1][2] = Len(handled[c]) /\ Len(handled[c]) \in Nat
       /\ Len(m.text) \in Nat /\ Len(m.text) >= 1
  BY <1>5, <1>7, <1>8, <1>9
<1> QED
  BY <1>2, <1>3, <1>11, <1>12, <1>13 DEF m, c

(* No broadcast was sent at the start. *)
LEMMA InitPast == Init => Past /\ Distinct
<1>1. ASSUME Init, NEW c \in Clients
      PROVE  Len(down[c]) = 0
  BY <1>1 DEF Init
<1> QED
  BY <1>1 DEF Past, Distinct

(* A broadcast is younger than all that were sent. *)
LEMMA BroadcastStep ==
    ASSUME Types, Named, Stream, Past, Distinct, Receive
    PROVE  Past' /\ Distinct'
<1> DEFINE m == Head(mq)
           e == [nick |-> Nick(m.pid), pid |-> m.pid, text |-> m.text]
<1>1. /\ m.pid \in Clients /\ m.text # <<>> /\ m.text[1][2] = Len(handled[m.pid])
      /\ Len(handled[m.pid]) \in Nat /\ Len(m.text) \in Nat /\ Len(m.text) >= 1
      /\ Len(handled'[m.pid]) = Len(handled[m.pid]) + Len(m.text)
      /\ \A c \in Clients \ {m.pid} : handled'[c] = handled[c]
  BY FrontIsNew
<1>2. e \in Shown
  <2>1. m.text \in Seq(Token)
    BY FrontIsNew
  <2>2. Nick(m.pid) \in Seq(Token)
    BY EmptySeq DEF Nick, Types
  <2> QED
    BY <1>1, <2>1, <2>2 DEF Shown
<1>3. e.pid = m.pid /\ e.text = m.text
  OBVIOUS
<1>4. \A c \in Clients : \/ down'[c] = down[c]
                         \/ c # m.pid /\ down'[c] = Append(down[c], e)
  BY DEF Receive, Broadcast, Types
<1> HIDE DEF m, e
<1>5. ASSUME NEW c \in Clients
      PROVE  /\ Len(down[c]) \in Nat
             /\ \A i \in 1..Len(down'[c]) :
                  \/ i \in 1..Len(down[c]) /\ down'[c][i] = down[c][i]
                  \/ i = Len(down[c]) + 1 /\ down'[c][i] = e /\ c # m.pid
  <2>1. down[c] \in Seq(Shown) /\ Len(down[c]) \in Nat
    BY ShownIs
  <2>2. CASE down'[c] = down[c]
    BY <2>1, <2>2
  <2>3. CASE c # m.pid /\ down'[c] = Append(down[c], e)
    BY <1>2, <2>1, <2>3, Appended
  <2> QED
    BY <1>4, <2>2, <2>3
<1>6. ASSUME NEW c \in Clients, NEW i \in 1..Len(down[c])
      PROVE  /\ down[c][i].pid # c /\ down[c][i].text # <<>>
             /\ down[c][i].text[1][2] \in 0..(Len(handled[down[c][i].pid]) - 1)
             /\ down[c][i].pid \in Clients
  BY ShownIs DEF Past
<1>7. ASSUME NEW c \in Clients, NEW i \in 1..Len(down[c])
      PROVE  down[c][i] # e
  <2> DEFINE h == Len(handled[m.pid])
  <2>1. e.text[1][2] = h /\ h \in Nat
    BY <1>1, <1>3
  <2>2. ASSUME down[c][i] = e
        PROVE  e.text[1][2] \in 0..(h - 1)
    BY <1>3, <1>6, <2>2
  <2> HIDE DEF h
  <2> QED
    BY <2>1, <2>2
<1>8. ASSUME NEW p \in Clients, NEW k \in 0..(Len(handled[p]) - 1)
      PROVE  k \in 0..(Len(handled'[p]) - 1)
  <2>1. CASE p = m.pid
    <3> DEFINE h == Len(handled[m.pid])
               h2 == Len(handled'[m.pid])
               l == Len(m.text)
    <3>1. h \in Nat /\ l \in Nat /\ h2 = h + l /\ k \in 0..(h - 1)
      BY <1>1, <2>1
    <3>2. h2 = Len(handled'[p])
      BY <2>1
    <3> HIDE DEF h, h2, l
    <3>3. k \in 0..(h2 - 1)
      BY <3>1
    <3> QED
      BY <3>2, <3>3
  <2>2. CASE p # m.pid
    BY <1>1, <2>2
  <2> QED
    BY <2>1, <2>2
<1>9. Past'
  <2>1. ASSUME NEW c \in Clients, NEW i \in 1..Len(down'[c])
        PROVE  /\ down'[c][i].pid # c /\ down'[c][i].text # <<>>
               /\ down'[c][i].text[1][2] \in 0..(Len(handled'[down'[c][i].pid]) - 1)
    <3>1. CASE i \in 1..Len(down[c]) /\ down'[c][i] = down[c][i]
      BY <1>6, <1>8, <3>1
    <3>2. CASE down'[c][i] = e /\ c # m.pid
      <4>1. e.text[1][2] \in 0..(Len(handled'[m.pid]) - 1)
        <5> DEFINE h == Len(handled[m.pid])
                   h2 == Len(handled'[m.pid])
                   l == Len(m.text)
        <5>1. e.text[1][2] = h /\ h \in Nat /\ l \in Nat /\ l >= 1 /\ h2 = h + l
          BY <1>1, <1>3
        <5>2. h2 - 1 = h + (l - 1) /\ h <= h2 - 1 /\ h2 - 1 \in Int
          <6> HIDE DEF h, h2, l
          <6> QED
            BY <5>1
        <5>3. h \in 0..(h2 - 1)
          <6> HIDE DEF h, h2, l
          <6> QED
            BY <5>1, <5>2
        <5> QED
          BY <5>1, <5>3
      <4> QED
        BY <1>1, <1>3, <3>2, <4>1
    <3> QED
      BY <1>5, <3>1, <3>2
  <2> QED
    BY <2>1 DEF Past
<1>10. Distinct'
  <2>1. ASSUME NEW c \in Clients, NEW d \in Clients,
               NEW i \in 1..Len(down'[c]), NEW j \in 1..Len(down'[c]), i < j
        PROVE  /\ down'[c][i] # down'[c][j]
               /\ \A k, l \in 1..Len(down'[d]) :
                     k < l => ~(down'[d][k] = down'[c][j] /\ down'[d][l] = down'[c][i])
    <3>1. i \in 1..Len(down[c]) /\ down'[c][i] = down[c][i]
      BY <1>5, <2>1
    <3>2. CASE j \in 1..Len(down[c]) /\ down'[c][j] = down[c][j]
      <4>1. down[c][i] # down[c][j]
        BY <2>1, <3>1, <3>2 DEF Distinct
      <4>2. ASSUME NEW k \in 1..Len(down'[d]), NEW l \in 1..Len(down'[d]), k < l,
                   down'[d][k] = down'[c][j], down'[d][l] = down'[c][i]
            PROVE  FALSE
        <5>1. k \in 1..Len(down[d]) /\ down'[d][k] = down[d][k]
          BY SMTT(30), <1>5, <4>2
        <5>2. l \in 1..Len(down[d]) /\ down'[d][l] = down[d][l]
          BY <1>5, <1>7, <3>1, <4>2
        <5>3. down[d][k] = down[c][j] /\ down[d][l] = down[c][i]
          BY <3>1, <3>2, <4>2, <5>1, <5>2
        <5>4. \A k1, l1 \in 1..Len(down[d]) :
                 k1 < l1 => ~(down[d][k1] = down[c][j] /\ down[d][l1] = down[c][i])
          BY <2>1, <3>1, <3>2 DEF Distinct
        <5> QED
          BY <4>2, <5>1, <5>2, <5>3, <5>4
      <4> QED
        BY <3>1, <3>2, <4>1, <4>2
    <3>3. CASE down'[c][j] = e
      <4>1. down'[c][i] # e
        BY <1>7, <3>1
      <4>2. ASSUME NEW k \in 1..Len(down'[d]), NEW l \in 1..Len(down'[d]), k < l,
                   down'[d][k] = e
            PROVE  FALSE
        <5>1. k \in 1..Len(down[d]) /\ down'[d][k] = down[d][k]
          BY <1>5, <4>2
        <5> QED
          BY <1>7, <4>2, <5>1
      <4> QED
        BY <3>3, <4>1, <4>2
    <3> QED
      BY <1>5, <3>2, <3>3
  <2> QED
    BY <2>1 DEF Distinct
<1> QED
  BY <1>9, <1>10

(* Every step keeps the broadcasts different and in one order. *)
LEMMA PastStep ==
    ASSUME Types, Named, Stream, Past, Distinct, Next
    PROVE  Past' /\ Distinct'
<1>1. CASE Receive
  BY <1>1, BroadcastStep
<1>2. CASE UNCHANGED <<down, handled>>
  BY <1>2 DEF Past, Distinct
<1>3. Receive \/ UNCHANGED <<down, handled>>
  BY DEF Next, Parent, Reap, Poll, Accept, NoConnection, Child, Prompt, RecvNick, Register,
         RecvText, SendText, RecvEnd, Recv, Send, Client, Connect, SendNick, TypeLine, EndInput,
         KillClient
<1> QED
  BY <1>1, <1>2, <1>3

-----------------------------------------------------------------------------
(* The invariant and the properties *)

(* The invariant holds at the start. *)
LEMMA InitMqInv == Init => MqInv
<1>1. ASSUME Init
      PROVE  Queued
  <2>1. /\ Len(backlog) = 0 /\ pc = "reap"
        /\ \A c \in Clients : child[c] = "none"
    BY <1>1 DEF Init
  <2> QED
    BY <2>1 DEF Queued
<1> QED
  BY <1>1, InitTypes, InitMapped, InitNamed, InitStream, InitPast DEF MqInv

(* Every step keeps the invariant. *)
LEMMA MqInvStep == MqInv /\ [Next]_vars => MqInv'
<1>1. ASSUME MqInv, Next
      PROVE  MqInv'
  <2>1. Types'
    BY <1>1, TypesStep DEF MqInv
  <2> QED
    BY <1>1, <2>1, QueuedStep, MappedStep, NamedStep, StreamStep, PastStep DEF MqInv
<1>2. ASSUME MqInv, UNCHANGED vars
      PROVE  MqInv'
  <2>1. /\ UNCHANGED <<pc, revents, clients, backlog, mq, child, buf>>
        /\ UNCHANGED <<client, ends, typed, up, down, handled>>
    BY <1>2 DEF vars, parent, users
  <2>2. Stream'
    <3>1. ASSUME NEW c \in Clients
          PROVE  Flows(c)'
      <4>1. Held(c)' = Held(c) /\ Sent(c)' = Sent(c)
        BY <2>1 DEF Held, Sent
      <4> QED
        BY <1>2, <2>1, <4>1, FlowsKept DEF MqInv, Stream
    <3> QED
      BY <3>1 DEF Stream
  <2>3. Types' /\ Queued' /\ Mapped'
    BY <1>2, <2>1 DEF MqInv, Types, Queued, Mapped
  <2>4. Named'
    BY <1>2, <2>1 DEF MqInv, Named, HasNick
  <2>5. Past' /\ Distinct'
    <3>1. Past /\ Distinct
      BY <1>2 DEF MqInv
    <3>2. down' = down /\ handled' = handled
      BY <2>1
    <3>3. Past'
      BY <3>1, <3>2, SMTT(30) DEF Past
    <3>4. Distinct'
      BY <3>1, <3>2, SMTT(30) DEF Distinct
    <3> QED
      BY <3>3, <3>4
  <2> QED
    BY <2>2, <2>3, <2>4, <2>5 DEF MqInv
<1> QED
  BY <1>1, <1>2

(* The invariant of the message-queue chat. *)
LEMMA MqInvariant == Spec => []MqInv
BY InitMqInv, MqInvStep, PTL DEF Spec

(* Nothing that a client types is lost, doubled or reordered on its way      *)
(* through the socket, the child and the message queue to the parent, except *)
(* what was not read yet of a client that was killed.                        *)
THEOREM TextsArrive == Spec => []StreamPreserved
<1>1. ASSUME MqInv, NEW c \in Clients
      PROVE  \E cut \in [0..(Len(mq) + 3) -> 0..Sent(c)] :
                /\ cut[0] = 0
                /\ \A i \in 0..(Len(mq) + 2) :
                      cut[i] <= cut[i + 1] /\ Piece(c, i) = Run(c, cut[i], cut[i + 1])
                /\ client[c] # "killed" => cut[Len(mq) + 3] = Sent(c)
  <2> DEFINE n == Len(mq)
  <2>0. n \in Nat /\ Sent(c) \in Nat
    <3>1. Types
      BY <1>1 DEF MqInv
    <3>2. typed[c] \in Nat
      BY <3>1 DEF Types
    <3> QED
      BY <3>1, <3>2, Messages DEF Sent
  <2>1. PICK q, b, u : /\ Cut(c, handled[c], mq, Held(c), up[c], q, b, u)
                       /\ u <= Sent(c) /\ (client[c] # "killed" => u = Sent(c))
    BY <1>1 DEF MqInv, Stream, Flows
  <2>2. /\ b \in Nat /\ u \in Nat /\ b <= u /\ u <= Sent(c)
        /\ \A i \in 1..(n + 1) : q[i] \in Nat /\ q[i] <= b
    BY <2>0, <2>1 DEF Cut
  <2> DEFINE cut == [i \in 0..(n + 3) |-> IF i = 0 THEN 0
                                          ELSE IF i <= n + 1 THEN q[i]
                                          ELSE IF i = n + 2 THEN b ELSE u]
  <2>3. cut \in [0..(n + 3) -> 0..Sent(c)]
    BY <2>0, <2>2
  <2>4. /\ cut[0] = 0 /\ cut[1] = q[1] /\ cut[n + 1] = q[n + 1]
        /\ cut[n + 2] = b /\ cut[n + 3] = u
        /\ \A i \in 1..n : cut[i] = q[i] /\ cut[i + 1] = q[i + 1]
    BY <2>0
  <2>5. cut[0] <= cut[1] /\ Piece(c, 0) = Run(c, cut[0], cut[1])
    BY <2>0, <2>1, <2>2, <2>4 DEF Cut, Piece
  <2>6. ASSUME NEW i \in 1..n
        PROVE  cut[i] <= cut[i + 1] /\ Piece(c, i) = Run(c, cut[i], cut[i + 1])
    <3>1. q[i] <= q[i + 1] /\ q[i] \in Nat
      BY <2>0, <2>1, <2>2 DEF Cut
    <3>2. i \in Nat /\ i # 0 /\ i <= n
      BY <2>0
    <3>3. CASE mq[i].pid = c
      BY <2>1, <2>4, <3>1, <3>2, <3>3 DEF Cut, Piece
    <3>4. CASE mq[i].pid # c
      <4>1. q[i + 1] = q[i]
        BY <2>1, <3>4 DEF Cut
      <4>2. Run(c, q[i], q[i]) = <<>>
        <5>1. q[i] <= q[i]
          BY <3>1
        <5> QED
          BY ZenonT(60), <3>1, <5>1, RunIs
      <4> QED
        BY <2>4, <3>1, <3>2, <3>4, <4>1, <4>2 DEF Piece
    <3> QED
      BY <3>3, <3>4
  <2>7. cut[n + 1] <= cut[n + 2] /\ Piece(c, n + 1) = Run(c, cut[n + 1], cut[n + 2])
    <3>1. Piece(c, n + 1) = Held(c)
      BY <2>0 DEF Piece, Held
    <3> QED
      BY <2>0, <2>1, <2>2, <2>4, <3>1 DEF Cut
  <2>8. cut[n + 2] <= cut[n + 3] /\ Piece(c, n + 2) = Run(c, cut[n + 2], cut[n + 3])
    <3>1. Piece(c, n + 2) = up[c]
      BY <2>0 DEF Piece
    <3> QED
      BY <2>1, <2>2, <2>4, <3>1 DEF Cut
  <2> HIDE DEF cut
  <2>9. ASSUME NEW i \in 0..(n + 2)
        PROVE  cut[i] <= cut[i + 1] /\ Piece(c, i) = Run(c, cut[i], cut[i + 1])
    <3>1. i = 0 \/ i \in 1..n \/ i = n + 1 \/ i = n + 2
      BY <2>0
    <3>2. 0 + 1 = 1 /\ (n + 1) + 1 = n + 2 /\ (n + 2) + 1 = n + 3
      BY <2>0
    <3> QED
      BY <2>5, <2>6, <2>7, <2>8, <3>1, <3>2
  <2> QED
    BY <2>1, <2>3, <2>4, <2>9
<1>2. ASSUME MqInv
      PROVE  StreamPreserved
  BY <1>1, <1>2 DEF StreamPreserved
<1> QED
  BY <1>2, MqInvariant, PTL

(* The parent broadcasts no message under an empty nick unless its sender    *)
(* was reaped before the parent took the message.                            *)
THEOREM BroadcastsNamed == Spec => []SenderIsNamed
<1>1. ASSUME MqInv, mq # <<>>, Head(mq).type = 0
      PROVE  Nick(Head(mq).pid) # <<>> \/ child[Head(mq).pid] = "reaped"
  <2> DEFINE c == Head(mq).pid
  <2>1. Head(mq) = mq[1] /\ 1 \in 1..Len(mq)
    BY <1>1, Shortened DEF MqInv, Types
  <2>2. child[c] = "reaped" \/ HasNick(clients, c) \/ NickBefore(mq, c, 1)
    BY <1>1, <2>1 DEF MqInv, Named
  <2>3. ~NickBefore(mq, c, 1)
    BY DEF NickBefore
  <2> QED
    BY <2>2, <2>3 DEF HasNick, Nick
<1>2. ASSUME MqInv
      PROVE  SenderIsNamed
  BY <1>1, <1>2 DEF SenderIsNamed
<1> QED
  BY <1>2, MqInvariant, PTL

(* Any two clients see the broadcasts they share in one order, nobody sees   *)
(* one twice or its own.                                                     *)
THEOREM OneOrder == Spec => []SameOrder
<1>1. ASSUME MqInv
      PROVE  SameOrder
  <2>1. ASSUME NEW c \in Clients, NEW d \in Clients,
               NEW i \in DOMAIN down[c], NEW j \in DOMAIN down[c], i < j
        PROVE  /\ ~Before(d, down[c][j], down[c][i])
               /\ down[c][i] # down[c][j] /\ down[c][i].pid # c
    <3>1. DOMAIN down[c] = 1..Len(down[c]) /\ DOMAIN down[d] = 1..Len(down[d])
      BY <1>1, ShownIs, LenProperties DEF MqInv
    <3>2. /\ down[c][i] # down[c][j]
          /\ \A k, l \in 1..Len(down[d]) :
                k < l => ~(down[d][k] = down[c][j] /\ down[d][l] = down[c][i])
      BY <1>1, <2>1, <3>1 DEF MqInv, Distinct
    <3>3. down[c][i].pid # c
      BY <1>1, <3>1 DEF MqInv, Past
    <3> QED
      BY <3>1, <3>2, <3>3 DEF Before
  <2> QED
    BY <2>1 DEF SameOrder
<1> QED
  BY <1>1, MqInvariant, PTL
=============================================================================
