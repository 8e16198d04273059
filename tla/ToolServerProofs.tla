--------------------------- MODULE ToolServerProofs ---------------------------
(* Proofs about ToolServer, for any number of clients, names, pieces of an   *)
(* image and failures.                                                       *)
EXTENDS ToolServer, SequenceTheorems, TLAPS

-----------------------------------------------------------------------------
(* The invariant *)

Working == {"start", "read", "wait"}
Places == Working \cup {"none", "poll", "close", "spin"} \cup Ended
Token == (Nat \ {0}) \X (Kinds \cup Resolutions)
Text == {Junk, <<>>} \cup ({1, 2} \X Seq(Token)) \cup ({1, 2} \X Seq(Token) \X {"cut"})
Item == Nat \cup [hash : Text, type : Text]

ToolPlaces == {"none", "running", "exited"}
ClientPlaces == {"start", "open", "closed", "done"}

Servers == [at : Places, stage : {1, 2}, request : Seq(Token), buf : Text, word : Text,
            ends : Nat]
Tools == [at : ToolPlaces, pipe : Text, wrote : Nat]
Users == [at : ClientPlaces, sent : Nat, got : Seq(Item)]
Nets == [up : Seq(Token), down : Seq(Item)]

Types ==
    /\ program \in {"hash", "resize"} /\ parent \in {"loop", "done"}
    /\ backlog \in Seq(Clients)
    /\ srv \in [Clients -> Servers] /\ tool \in [Clients -> Tools]
    /\ cl \in [Clients -> Users] /\ net \in [Clients -> Nets]
    /\ failures \in [Clients -> Nat]

(* A pipe is open while the output of a program is read. *)
Ends == \A c \in Clients : srv[c].at # "read" => srv[c].ends = 0

(* A client waits for its accept once. *)
Queued ==
    /\ \A i, j \in 1..Len(backlog) : backlog[i] = backlog[j] => i = j
    /\ \A i \in 1..Len(backlog) :
          srv[backlog[i]].at = "none" /\ cl[backlog[i]].at # "start"
    /\ \A c \in Clients :
          cl[c].at = "start" => srv[c].at = "none"

(* Resize server: one line is on its way at most.  What a client that stays  *)
(* gets is what convert wrote, and it has a process at the other end until   *)
(* convert has written everything, or its child has read "close".            *)
Stays(c) == cl[c].at # "closed"
Ask(kinds) == {<<<<1, kind>>>> : kind \in kinds}
Asked(c) ==
    /\ net[c].up = <<>> \/ net[c].up \in Ask(Resolutions)
    /\ cl[c].sent = 0 => net[c].up = <<>>
ImageOf(c) ==
    /\ srv[c].at \in {"none", "poll", "start", "wait", "spin", "close"} \cup Ended
    /\ Answers(c) = [k \in 1..tool[c].wrote |-> k]
    /\ srv[c].at = "start" => srv[c].request \in Ask({"size", "refused", "empty"})
    /\ srv[c].at \in {"wait", "spin"} =>
         srv[c].request \in Ask({"size", "refused"}) /\ tool[c].wrote <= Output(c)
    /\ srv[c].at \notin {"wait", "spin"} => tool[c].wrote = 0
    /\ srv[c].at \in {"close", "exited", "reaped"} => srv[c].request \in Ask({"close"})
    /\ srv[c].at = "refused" => failures[c] > 0
    /\ tool[c].at = "running" => srv[c].at = "wait"
    /\ srv[c].at = "wait" => tool[c].at # "none"
    /\ srv[c].at \in {"poll", "start", "wait"} => <<Child(c), c>> \in holds
    /\ srv[c].at = "none" /\ cl[c].at = "open" => c \in ToSet(backlog)
    /\ (srv[c].at = "wait" /\ tool[c].at = "exited") \/ srv[c].at = "spin" =>
         tool[c].wrote = Output(c) \/ failures[c] > 0
    /\ cl[c].at = "done" =>
         net[c].down = <<>> /\ srv[c].at \in {"spin", "close"} \cup Ended
Image ==
    program = "resize" => \A c \in Clients : Asked(c) /\ (Stays(c) => ImageOf(c))

(* Hash server: the number of the first name of a request grows from the     *)
(* answers on their way to the names that wait.                              *)
Number(c, i) == Answers(c)[i].type[2][1][1]
Grows(c) ==
    /\ \A i \in 1..Len(Answers(c)) :
         /\ Answers(c)[i].type[1] = 2
         /\ \A j \in 1..(i - 1) : Number(c, j) < Number(c, i)
         /\ Number(c, i) \in 0..cl[c].sent
         /\ \A k \in 1..Len(net[c].up) : Number(c, i) < net[c].up[k][1]
    /\ \A k \in 1..Len(net[c].up) :
         /\ net[c].up[k][1] \in 0..cl[c].sent
         /\ \A j \in 1..(k - 1) : net[c].up[j][1] < net[c].up[k][1]
    /\ srv[c].at \in Working =>
         /\ srv[c].request # <<>>
         /\ srv[c].request[1][1] \in 0..cl[c].sent
         /\ \A i \in 1..Len(Answers(c)) : Number(c, i) < srv[c].request[1][1]
         /\ \A k \in 1..Len(net[c].up) : srv[c].request[1][1] < net[c].up[k][1]

(* What a request finds in the pipe is its own.  While nothing fails for the *)
(* client, so is the hash in the buffers, if it asked for a file, and there  *)
(* is none otherwise; whatever fails, the second stage never answers with a  *)
(* text but its own.                                                         *)
Sum(c) == <<1, srv[c].request>>
Word(c) == <<1, srv[c].request, "cut">>
Kind(c) == <<2, srv[c].request>>
NoSum(text) == text[1] # 1
Piped(c) ==
    /\ srv[c].at = "read" =>
         tool[c].at \in {"running", "exited"} /\ (tool[c].at = "running" => tool[c].pipe = <<>>)
    /\ srv[c].at = "read" /\ tool[c].at = "exited" =>
         /\ tool[c].pipe \in {<<>>, <<srv[c].stage, srv[c].request>>}
         /\ srv[c].stage = 1 /\ ~ Is("file", srv[c].request) => tool[c].pipe = <<>>
         /\ failures[c] = 0 /\ Is("file", srv[c].request) => tool[c].pipe # <<>>
Clean(c) ==
    /\ srv[c].at \in {"none", "poll"} => NoSum(srv[c].buf)
    /\ srv[c].at \in {"start", "read"} /\ srv[c].stage = 1 => NoSum(srv[c].buf)
    /\ srv[c].at = "wait" /\ srv[c].stage = 1 =>
         IF Is("file", srv[c].request) THEN srv[c].buf = Sum(c) ELSE NoSum(srv[c].buf)
    /\ srv[c].at \in Working /\ srv[c].stage = 2 =>
         IF Is("file", srv[c].request) THEN srv[c].word = Word(c) ELSE NoSum(srv[c].word)
Own(c) ==
    /\ Piped(c)
    /\ failures[c] = 0 => Clean(c)
    /\ srv[c].at \in Working /\ srv[c].stage = 2 =>
         Len(srv[c].buf) # 2 \/ (srv[c].at = "wait" /\ srv[c].buf = Kind(c))
HashOf(hash, request) ==
    IF Is("file", request) THEN hash = <<1, request, "cut">> ELSE NoSum(hash)
Right(c) ==
    failures[c] = 0 =>
        \A i \in 1..Len(Answers(c)) : HashOf(Answers(c)[i].hash, Answers(c)[i].type[2])
Hashed == program = "hash" => \A c \in Clients : Grows(c) /\ Own(c) /\ Right(c)

ToolInv == Types /\ Ends /\ Queued /\ Image /\ Hashed

-----------------------------------------------------------------------------
(* Sequences *)

(* Two sequences one behind the other. *)
LEMMA Joined ==
    ASSUME NEW S, NEW s \in Seq(S), NEW t \in Seq(S)
    PROVE  /\ s \o t \in Seq(S)
           /\ Len(s \o t) = Len(s) + Len(t)
           /\ \A k \in 1..Len(s) : (s \o t)[k] = s[k]
           /\ s \o <<>> = s /\ (s \o t) \o <<>> = s \o t
<1>1. s \o t \in Seq(S)
  BY ConcatProperties
<1> QED
  BY <1>1, ConcatProperties, ConcatEmptySeq

(* Appending to the second of two sequences. *)
LEMMA JoinedAppend ==
    ASSUME NEW S, NEW s \in Seq(S), NEW t \in Seq(S), NEW e \in S
    PROVE  s \o Append(t, e) = Append(s \o t, e)
<1>1. s \o t \in Seq(S) /\ <<e>> \in Seq(S)
  BY ConcatProperties
<1>2. Append(s \o t, e) = (s \o t) \o <<e>> /\ Append(t, e) = t \o <<e>>
  BY <1>1, AppendIsConcat
<1>3. (s \o t) \o <<e>> = s \o (t \o <<e>>)
  BY <1>1, ConcatAssociative
<1> QED
  BY <1>2, <1>3

(* One more element at the end. *)
LEMMA Appended ==
    ASSUME NEW S, NEW s \in Seq(S), NEW e \in S
    PROVE  /\ Append(s, e) \in Seq(S) /\ Len(Append(s, e)) = Len(s) + 1
           /\ Append(s, e)[Len(s) + 1] = e
           /\ \A k \in 1..Len(s) : Append(s, e)[k] = s[k]
BY AppendProperties

(* What a read takes, and what it leaves. *)
LEMMA Cut ==
    ASSUME NEW S, NEW s \in Seq(S), NEW k \in 1..Len(s)
    PROVE  /\ SubSeq(s, 1, k) \in Seq(S) /\ Len(SubSeq(s, 1, k)) = k
           /\ SubSeq(s, 1, k)[1] = s[1]
           /\ SubSeq(s, k + 1, Len(s)) \in Seq(S)
           /\ Len(SubSeq(s, k + 1, Len(s))) = Len(s) - k
           /\ \A j \in 1..(Len(s) - k) : SubSeq(s, k + 1, Len(s))[j] = s[k + j]
<1>1. Len(s) \in Nat /\ k \in Nat /\ k >= 1 /\ k <= Len(s)
  OBVIOUS
<1>2. \A j \in 1..Len(s) : s[j] \in S
  OBVIOUS
<1>3. /\ SubSeq(s, 1, k) \in Seq(S) /\ Len(SubSeq(s, 1, k)) = k
      /\ SubSeq(s, 1, k)[1] = s[1]
  BY <1>1, <1>2, SubSeqProperties
<1>4. /\ SubSeq(s, k + 1, Len(s)) \in Seq(S)
      /\ Len(SubSeq(s, k + 1, Len(s))) = Len(s) - k
      /\ \A j \in 1..(Len(s) - k) : SubSeq(s, k + 1, Len(s))[j] = s[k + j]
  BY <1>1, <1>2, SubSeqProperties
<1> QED
  BY <1>3, <1>4

(* The pieces up to w, and one more. *)
LEMMA Counted ==
    ASSUME NEW w \in Nat
    PROVE  Append([k \in 1..w |-> k], w + 1) = [k \in 1..(w + 1) |-> k]
<1> DEFINE s == [k \in 1..w |-> k]
           t == [k \in 1..(w + 1) |-> k]
<1>1. s \in Seq(Nat) /\ Len(s) = w /\ t \in Seq(Nat) /\ Len(t) = w + 1
  OBVIOUS
<1>2. Append(s, w + 1) \in Seq(Nat) /\ Len(Append(s, w + 1)) = w + 1
  BY <1>1, AppendProperties
<1>3. \A k \in 1..(w + 1) : Append(s, w + 1)[k] = t[k]
  BY <1>1, AppendProperties
<1> QED
  BY <1>1, <1>2, <1>3, SeqEqual

-----------------------------------------------------------------------------
(* Types *)

(* The values that the actions use are of the types. *)
LEMMA Members ==
    /\ "none" \in Places /\ "poll" \in Places /\ "start" \in Places /\ "read" \in Places
    /\ "wait" \in Places /\ "close" \in Places /\ "spin" \in Places
    /\ "exited" \in Places /\ "reaped" \in Places /\ "refused" \in Places
    /\ "none" \in ToolPlaces /\ "running" \in ToolPlaces /\ "exited" \in ToolPlaces
    /\ "start" \in ClientPlaces /\ "open" \in ClientPlaces
    /\ "closed" \in ClientPlaces /\ "done" \in ClientPlaces
    /\ Junk \in Text /\ <<>> \in Text
    /\ <<>> \in Seq(Token) /\ <<>> \in Seq(Item) /\ <<>> \in Seq(Clients)
BY EmptySeq DEF Places, Working, Ended, ToolPlaces, ClientPlaces, Text

(* The forms of a text, and what is left of each before its first space. *)
LEMMA Cuts ==
    ASSUME NEW text \in Text
    PROVE  /\ FirstWord(text) \in Text
           /\ Len(FirstWord(text)) # 2
           /\ NoSum(text) => NoSum(FirstWord(text))
<1>1. CASE text \in {Junk, <<>>}
  <2>1. Len(text) # 2
    BY <1>1 DEF Junk
  <2> QED
    BY <1>1, <2>1 DEF FirstWord, Text
<1>2. CASE text \in {1, 2} \X Seq(Token)
  <2>1. PICK s \in {1, 2}, r \in Seq(Token) : text = <<s, r>>
    BY <1>2
  <2>2. FirstWord(text) = <<s, r, "cut">>
    BY <2>1 DEF FirstWord
  <2>3. <<s, r, "cut">> \in {1, 2} \X Seq(Token) \X {"cut"}
    OBVIOUS
  <2>4. Len(<<s, r, "cut">>) # 2
    OBVIOUS
  <2> QED
    BY <2>1, <2>2, <2>3, <2>4 DEF NoSum, Text
<1>3. CASE text \in {1, 2} \X Seq(Token) \X {"cut"}
  <2>1. PICK s \in {1, 2}, r \in Seq(Token) : text = <<s, r, "cut">>
    BY <1>3
  <2>2. Len(text) # 2
    BY <2>1
  <2> QED
    BY <1>3, <2>2 DEF FirstWord
<1> QED
  BY <1>1, <1>2, <1>3 DEF Text

(* The types hold at the start. *)
LEMMA InitTypes == Init => Types
BY ToolServerAssumption, Members DEF Init, Types, Servers, Tools, Users, Nets

(* Every step keeps the types of the children. *)
LEMMA SrvTypes ==
    ASSUME Types, Next
    PROVE  srv' \in [Clients -> Servers]
<1>0. /\ \A c \in Clients : /\ tool[c].pipe \in Text
                            /\ srv[c].buf \in Text
                            /\ srv[c] \in Servers
      /\ srv \in [Clients -> Servers]
  BY DEF Types, Tools, Servers
<1>1. CASE Accept
  <2> DEFINE c == Head(backlog)
  <2>1. c \in Clients
    BY <1>1, HeadTailProperties DEF Accept, Types
  <2>2. \/ \E z \in Clients :
              srv' = [[srv EXCEPT ![z].at = "reaped"] EXCEPT ![c].at = "poll"]
        \/ srv' = [srv EXCEPT ![c].at = "refused"]
    BY <1>1, <2>1 DEF Accept, Zombies
  <2> HIDE DEF c
  <2>3. ASSUME NEW z \in Clients,
               srv' = [[srv EXCEPT ![z].at = "reaped"] EXCEPT ![c].at = "poll"]
        PROVE  srv' \in [Clients -> Servers]
    <3> DEFINE s == [srv EXCEPT ![z].at = "reaped"]
    <3>1. s \in [Clients -> Servers]
      BY <1>0, Members DEF Servers
    <3> HIDE DEF s
    <3>2. [s EXCEPT ![c].at = "poll"] \in [Clients -> Servers]
      BY <2>1, <3>1, Members DEF Servers
    <3> QED
      BY <2>3, <3>2 DEF s
  <2>4. CASE srv' = [srv EXCEPT ![c].at = "refused"]
    BY <1>0, <2>1, <2>4, Members DEF Servers
  <2> QED
    BY <2>2, <2>3, <2>4
<1>2. CASE Quit
  <2>1. srv' = [c \in Clients |-> IF c \in Zombies THEN [srv[c] EXCEPT !.at = "reaped"]
                                  ELSE srv[c]]
    BY <1>2 DEF Quit
  <2>2. \A c \in Clients : [srv[c] EXCEPT !.at = "reaped"] \in Servers
    BY <1>0, Members DEF Servers
  <2> QED
    BY <1>0, <2>1, <2>2
<1>3. ASSUME NEW c \in Clients, Read(c)
      PROVE  srv' \in [Clients -> Servers]
  <2>1. PICK k \in 1..Len(net[c].up) :
           srv' = [srv EXCEPT ![c].request = SubSeq(net[c].up, 1, k), ![c].stage = 1,
                     ![c].at = IF SubSeq(net[c].up, 1, k)[1][2] = "close" THEN "close"
                               ELSE "start"]
    BY <1>3 DEF Read
  <2> DEFINE r == SubSeq(net[c].up, 1, k)
             a == IF r[1][2] = "close" THEN "close" ELSE "start"
  <2>2. r \in Seq(Token) /\ a \in Places
    BY Cut, Members DEF Types, Nets
  <2>3. srv' = [srv EXCEPT ![c].request = r, ![c].stage = 1, ![c].at = a]
    BY <2>1
  <2> HIDE DEF r, a
  <2> QED
    BY ZenonT(60), <1>0, <2>2, <2>3 DEF Servers
<1>4. ASSUME NEW c \in Clients, EndOfStream(c) \/ StartConvert(c) \/ EndConvert(c)
      PROVE  srv' \in [Clients -> Servers]
  <2>1. PICK a \in Places : srv' = [srv EXCEPT ![c].at = a]
    BY <1>4, Members DEF EndOfStream, StartConvert, EndConvert
  <2> QED
    BY <1>0, <2>1 DEF Servers
<1>5. ASSUME NEW c \in Clients, Close(c) \/ StartHash(c) \/ EndFile(c)
      PROVE  srv' \in [Clients -> Servers]
  <2>1. PICK a \in Places : \/ srv' = [srv EXCEPT ![c].at = a]
                            \/ srv' = [srv EXCEPT ![c].at = a, ![c].ends = 0]
                            \/ srv' = [srv EXCEPT ![c].at = a, ![c].ends = 1]
    BY <1>5, Members DEF Close, StartHash, EndFile, Exit
  <2>2. CASE srv' = [srv EXCEPT ![c].at = a]
    BY <1>0, <2>2 DEF Servers
  <2>3. CASE srv' = [srv EXCEPT ![c].at = a, ![c].ends = 0]
    BY <1>0, <2>3 DEF Servers
  <2>4. CASE srv' = [srv EXCEPT ![c].at = a, ![c].ends = 1]
    BY <1>0, <2>4 DEF Servers
  <2> QED
    BY <2>1, <2>2, <2>3, <2>4
<1>6. ASSUME NEW c \in Clients, ReadHash(c)
      PROVE  srv' \in [Clients -> Servers]
  <2>1. PICK text \in IF tool[c].pipe # <<>> THEN {tool[c].pipe}
                      ELSE IF srv[c].stage = 1 THEN {srv[c].buf, Junk}
                      ELSE {srv[c].buf} :
           srv' = [srv EXCEPT ![c].at = "wait", ![c].ends = 0, ![c].buf = text]
    BY <1>6 DEF ReadHash
  <2>2. text \in Text
    BY <1>0, Members
  <2> DEFINE s == [srv EXCEPT ![c].at = "wait", ![c].ends = 0]
  <2>3. srv' = [s EXCEPT ![c].buf = text]
    BY <1>0, <2>1 DEF Servers
  <2>4. "wait" \in Places
    BY Members
  <2>5. s \in [Clients -> Servers]
    BY <1>0, <2>4 DEF Servers
  <2> HIDE DEF s
  <2> QED
    BY <2>2, <2>3, <2>5 DEF Servers
<1>7. ASSUME NEW c \in Clients, EndSum(c)
      PROVE  srv' \in [Clients -> Servers]
  <2> DEFINE b == FirstWord(srv[c].buf)
  <2>1. b \in Text
    BY <1>0, Cuts
  <2> DEFINE s == [srv EXCEPT ![c].at = "start", ![c].stage = 2]
  <2>2. srv' = [s EXCEPT ![c].word = b, ![c].buf = b]
    BY <1>0, <1>7 DEF EndSum, Servers
  <2>3. s \in [Clients -> Servers]
    BY <1>0, Members DEF Servers
  <2> HIDE DEF b, s
  <2> QED
    BY <2>1, <2>2, <2>3 DEF Servers
<1>8. ASSUME NEW c \in Clients, ToolStep(c) \/ Connect(c) \/ ClientStep(c) \/ Leave(c)
      PROVE  UNCHANGED srv
  BY <1>8 DEF ToolStep, RunHash, RunConvert, Connect, ClientStep, SendName, SendResolution,
              Receive, ServerGone, Leave
<1> QED
  BY <1>0, <1>1, <1>2, <1>3, <1>4, <1>5, <1>6, <1>7, <1>8
     DEF Next, ParentStep, ChildStep, HashStep

(* Every step keeps the types of the sockets. *)
LEMMA NetTypes ==
    ASSUME Types, Next
    PROVE  net' \in [Clients -> Nets]
<1>0. /\ \A c \in Clients : /\ net[c].up \in Seq(Token) /\ net[c].down \in Seq(Item)
                            /\ srv[c].word \in Text /\ srv[c].buf \in Text
                            /\ tool[c].wrote \in Nat /\ cl[c].sent \in Nat
      /\ net \in [Clients -> Nets]
  BY DEF Types, Tools, Servers, Nets, Users
<1>1. SUFFICES \/ UNCHANGED net
               \/ \E c \in Clients : \E s \in Seq(Token) : net' = [net EXCEPT ![c].up = s]
               \/ \E c \in Clients : \E s \in Seq(Item) : net' = [net EXCEPT ![c].down = s]
  BY <1>0 DEF Nets
<1>2. ASSUME NEW c \in Clients, Read(c)
      PROVE  \E s \in Seq(Token) : net' = [net EXCEPT ![c].up = s]
  <2>1. PICK k \in 1..Len(net[c].up) :
           net' = [net EXCEPT ![c].up = SubSeq(net[c].up, k + 1, Len(net[c].up))]
    BY <1>2 DEF Read
  <2>2. SubSeq(net[c].up, k + 1, Len(net[c].up)) \in Seq(Token)
    BY <1>0, Cut
  <2> QED
    BY <2>1, <2>2
<1>3. ASSUME NEW c \in Clients, Close(c) \/ Receive(c)
      PROVE  UNCHANGED net \/ \E s \in Seq(Item) : net' = [net EXCEPT ![c].down = s]
  <2>1. UNCHANGED net \/ net' = [net EXCEPT ![c].down = <<>>]
    BY <1>3 DEF Close, Receive
  <2> QED
    BY <2>1, Members
<1>4. ASSUME NEW c \in Clients, EndFile(c)
      PROVE  UNCHANGED net \/ \E s \in Seq(Item) : net' = [net EXCEPT ![c].down = s]
  <2> DEFINE e == [hash |-> srv[c].word, type |-> srv[c].buf]
  <2>1. UNCHANGED net \/ net' = [net EXCEPT ![c].down = Append(net[c].down, e)]
    BY <1>4 DEF EndFile
  <2>2. e \in Item
    BY <1>0 DEF Item
  <2> HIDE DEF e
  <2>3. Append(net[c].down, e) \in Seq(Item)
    BY <1>0, <2>2, Appended
  <2> QED
    BY <2>1, <2>3
<1>5. ASSUME NEW c \in Clients, RunConvert(c)
      PROVE  UNCHANGED net \/ \E s \in Seq(Item) : net' = [net EXCEPT ![c].down = s]
  <2>1. \/ UNCHANGED net
        \/ net' = [net EXCEPT ![c].down = Append(net[c].down, tool[c].wrote + 1)]
    BY <1>5 DEF RunConvert
  <2>2. tool[c].wrote + 1 \in Item
    BY <1>0 DEF Item
  <2>3. Append(net[c].down, tool[c].wrote + 1) \in Seq(Item)
    BY <1>0, <2>2, Appended
  <2> QED
    BY <2>1, <2>3
<1>6. ASSUME NEW c \in Clients, SendName(c) \/ SendResolution(c)
      PROVE  \E s \in Seq(Token) : net' = [net EXCEPT ![c].up = s]
  <2>1. \E k \in Nat : \E kind \in Kinds \cup Resolutions :
           net' = [net EXCEPT ![c].up = Append(net[c].up, <<k + 1, kind>>)]
    <3>1. CASE SendName(c)
      BY <1>0, <3>1 DEF SendName
    <3>2. CASE SendResolution(c)
      <4>1. 1 = 0 + 1 /\ 0 \in Nat
        OBVIOUS
      <4> QED
        BY <3>2, <4>1 DEF SendResolution
    <3> QED
      BY <1>6, <3>1, <3>2
  <2>2. \A k \in Nat : \A kind \in Kinds \cup Resolutions : <<k + 1, kind>> \in Token
    BY DEF Token
  <2>3. \A k \in Nat : \A kind \in Kinds \cup Resolutions :
           Append(net[c].up, <<k + 1, kind>>) \in Seq(Token)
    BY <1>0, <2>2, Appended
  <2> QED
    BY <2>1, <2>3
<1>7. ASSUME \/ ParentStep
             \/ \E c \in Clients :
                  \/ EndOfStream(c) \/ StartHash(c) \/ ReadHash(c) \/ EndSum(c)
                  \/ StartConvert(c) \/ EndConvert(c) \/ RunHash(c) \/ Connect(c)
                  \/ ServerGone(c) \/ Leave(c)
      PROVE  UNCHANGED net
  BY <1>7 DEF ParentStep, Accept, Quit, EndOfStream, StartHash, ReadHash, EndSum,
              StartConvert, EndConvert, RunHash, Connect, ServerGone, Leave
<1> QED
  BY <1>2, <1>3, <1>4, <1>5, <1>6, <1>7
     DEF Next, ChildStep, HashStep, ToolStep, ClientStep

(* Every step keeps the types of the tools. *)
LEMMA ToolTypes ==
    ASSUME Types, Next
    PROVE  tool' \in [Clients -> Tools]
<1>0. /\ tool \in [Clients -> Tools]
      /\ \A c \in Clients : <<srv[c].stage, srv[c].request>> \in Text
  BY DEF Types, Text, Servers
<1>1. ASSUME NEW c \in Clients, StartHash(c)
      PROVE  tool' \in [Clients -> Tools]
  <2>1. \/ UNCHANGED tool
        \/ tool' = [tool EXCEPT ![c] = [at |-> "running", pipe |-> <<>>, wrote |-> 0]]
    BY <1>1 DEF StartHash
  <2>2. [at |-> "running", pipe |-> <<>>, wrote |-> 0] \in Tools
    BY Members DEF Tools
  <2> QED
    BY <1>0, <2>1, <2>2
<1>2. ASSUME NEW c \in Clients, RunHash(c)
      PROVE  tool' \in [Clients -> Tools]
  <2> DEFINE text == IF srv[c].stage = 2 \/ Is("file", srv[c].request)
                     THEN <<srv[c].stage, srv[c].request>> ELSE <<>>
  <2>1. text \in Text
    BY <1>0, Members
  <2>2. \/ tool' = [tool EXCEPT ![c].at = "exited", ![c].pipe = text]
        \/ tool' = [tool EXCEPT ![c].at = "exited"]
    BY <1>2 DEF RunHash
  <2> HIDE DEF text
  <2>3. CASE tool' = [tool EXCEPT ![c].at = "exited", ![c].pipe = text]
    BY <1>0, <2>1, <2>3, Members DEF Tools
  <2>4. CASE tool' = [tool EXCEPT ![c].at = "exited"]
    BY <1>0, <2>4, Members DEF Tools
  <2> QED
    BY <2>2, <2>3, <2>4
<1>3. ASSUME NEW c \in Clients,
             EndSum(c) \/ EndFile(c) \/ StartConvert(c) \/ EndConvert(c) \/ RunConvert(c)
      PROVE  tool' \in [Clients -> Tools]
  <2>1. \/ UNCHANGED tool
        \/ \E a \in ToolPlaces : tool' = [tool EXCEPT ![c].at = a]
        \/ tool' = [tool EXCEPT ![c].wrote = tool[c].wrote + 1]
    BY <1>3, Members DEF EndSum, EndFile, StartConvert, EndConvert, RunConvert
  <2>2. ASSUME NEW a \in ToolPlaces, tool' = [tool EXCEPT ![c].at = a]
        PROVE  tool' \in [Clients -> Tools]
    BY <1>0, <2>2 DEF Tools
  <2>3. CASE tool' = [tool EXCEPT ![c].wrote = tool[c].wrote + 1]
    BY <1>0, <2>3 DEF Tools
  <2> QED
    BY <1>0, <2>1, <2>2, <2>3
<1>4. ASSUME \/ ParentStep
             \/ \E c \in Clients :
                  \/ Read(c) \/ EndOfStream(c) \/ Close(c) \/ ReadHash(c)
                  \/ Connect(c) \/ ClientStep(c) \/ Leave(c)
      PROVE  UNCHANGED tool
  BY <1>4 DEF ParentStep, Accept, Quit, Read, EndOfStream, Close, ReadHash, Connect,
              ClientStep, SendName, SendResolution, Receive, ServerGone, Leave
<1> QED
  BY <1>0, <1>1, <1>2, <1>3, <1>4 DEF Next, ChildStep, HashStep, ToolStep

(* Every step keeps the types of the clients. *)
LEMMA ClientTypes ==
    ASSUME Types, Next
    PROVE  cl' \in [Clients -> Users]
<1>0. /\ cl \in [Clients -> Users] /\ \A c \in Clients : cl[c] \in Users
      /\ \A c \in Clients : cl[c].got \o net[c].down \in Seq(Item)
  BY Joined DEF Types, Users, Nets
<1>1. ASSUME NEW c \in Clients, Receive(c)
      PROVE  cl' \in [Clients -> Users]
  <2> DEFINE all == cl[c].got \o net[c].down
  <2>1. cl' = [cl EXCEPT ![c].got = all]
    BY <1>1 DEF Receive
  <2>2. all \in Seq(Item)
    BY <1>0
  <2> HIDE DEF all
  <2> QED
    BY <1>0, <2>1, <2>2 DEF Users
<1>2. CASE Quit
  <2>1. cl' = [c \in Clients |-> IF c \in ToSet(backlog) THEN [cl[c] EXCEPT !.at = "closed"]
                                 ELSE cl[c]]
    BY <1>2 DEF Quit
  <2>2. \A c \in Clients : [cl[c] EXCEPT !.at = "closed"] \in Users
    BY <1>0, Members DEF Users
  <2> QED
    BY <1>0, <2>1, <2>2
<1>3. ASSUME NEW c \in Clients, SendName(c) \/ SendResolution(c)
      PROVE  cl' \in [Clients -> Users]
  <2>1. \E k \in Nat : cl' = [cl EXCEPT ![c].sent = k]
    <3>1. cl[c].sent + 1 \in Nat
      BY <1>0 DEF Users
    <3>2. cl' = [cl EXCEPT ![c].sent = cl[c].sent + 1] \/ cl' = [cl EXCEPT ![c].sent = 1]
      BY <1>3 DEF SendName, SendResolution
    <3> QED
      BY <3>1, <3>2
  <2>2. PICK k \in Nat : cl' = [cl EXCEPT ![c].sent = k]
    BY <2>1
  <2> QED
    BY <1>0, <2>2 DEF Users
<1>4. ASSUME NEW c \in Clients, Connect(c) \/ ServerGone(c) \/ Leave(c)
      PROVE  cl' \in [Clients -> Users]
  <2>1. PICK a \in ClientPlaces : cl' = [cl EXCEPT ![c].at = a]
    BY <1>4, Members DEF Connect, ServerGone, Leave
  <2> QED
    BY <1>0, <2>1 DEF Users
<1>5. ASSUME Accept \/ \E c \in Clients : ChildStep(c) \/ ToolStep(c)
      PROVE  UNCHANGED cl
  BY <1>5 DEF Accept, ChildStep, Read, EndOfStream, Close, HashStep, StartHash, ReadHash,
              EndSum, EndFile, StartConvert, EndConvert, ToolStep, RunHash, RunConvert
<1> QED
  BY <1>0, <1>1, <1>2, <1>3, <1>4, <1>5 DEF Next, ParentStep, ClientStep

(* A step counts one failure at most, and none is taken back. *)
LEMMA Onwards ==
    ASSUME Types, Next
    PROVE  /\ program' = program /\ parent' \in {"loop", "done"}
           /\ backlog' \in Seq(Clients)
           /\ failures' \in [Clients -> Nat]
           /\ \A d \in Clients : failures'[d] = 0 => failures[d] = 0
<1>0. /\ program \in {"hash", "resize"} /\ parent \in {"loop", "done"}
      /\ failures \in [Clients -> Nat] /\ backlog \in Seq(Clients)
  BY DEF Types
<1>1. CASE ParentStep
  <2>1. /\ program' = program /\ parent' \in {"loop", "done"}
        /\ backlog' = <<>> \/ (backlog # <<>> /\ backlog' = Tail(backlog))
    BY <1>0, <1>1 DEF ParentStep, Accept, Quit
  <2>2. UNCHANGED failures \/ \E e \in Clients : MayFail(e)
    <3>1. CASE Accept
      <4>1. Head(backlog) \in Clients
        BY <1>0, <3>1, HeadTailProperties DEF Accept
      <4> QED
        BY <3>1, <4>1 DEF Accept
    <3>2. CASE Quit
      BY <3>2 DEF Quit
    <3> QED
      BY <1>1, <3>1, <3>2 DEF ParentStep
  <2>3. backlog' \in Seq(Clients)
    BY <1>0, <2>1, Members, HeadTailProperties
  <2> QED
    BY <1>0, <2>1, <2>2, <2>3 DEF MayFail
<1>2. ASSUME NEW c \in Clients,
             ChildStep(c) \/ ToolStep(c) \/ Connect(c) \/ ClientStep(c) \/ Leave(c)
      PROVE  /\ program' = program /\ parent' = parent
             /\ UNCHANGED failures \/ MayFail(c)
             /\ backlog' = backlog \/ backlog' = Append(backlog, c)
  <2>1. CASE ChildStep(c)
    <3>1. CASE HashStep(c)
      BY <3>1 DEF HashStep, StartHash, ReadHash, EndSum, EndFile
    <3>2. CASE ChildStep(c) /\ ~ HashStep(c)
      BY <3>2 DEF ChildStep, Read, EndOfStream, Close, StartConvert, EndConvert
    <3> QED
      BY <2>1, <3>1, <3>2
  <2>2. CASE ToolStep(c)
    BY <2>2 DEF ToolStep, RunHash, RunConvert
  <2>3. CASE Connect(c) \/ ClientStep(c) \/ Leave(c)
    BY <2>3 DEF Connect, ClientStep, SendName, SendResolution, Receive, ServerGone, Leave
  <2> QED
    BY <1>2, <2>1, <2>2, <2>3
<1>3. CASE \E c \in Clients :
             ChildStep(c) \/ ToolStep(c) \/ Connect(c) \/ ClientStep(c) \/ Leave(c)
  <2>1. PICK c \in Clients :
          /\ program' = program /\ parent' = parent
          /\ UNCHANGED failures \/ MayFail(c)
          /\ backlog' = backlog \/ backlog' = Append(backlog, c)
    BY <1>2, <1>3
  <2>2. Append(backlog, c) \in Seq(Clients)
    BY <1>0, Appended
  <2>3. backlog' \in Seq(Clients)
    BY <1>0, <2>1, <2>2
  <2> QED
    BY <1>0, <2>1, <2>3 DEF MayFail
<1> QED
  BY <1>1, <1>3 DEF Next

(* Every step keeps the types. *)
LEMMA TypesStep ==
    ASSUME Types, Next
    PROVE  Types'
<1>1. program \in {"hash", "resize"}
  BY DEF Types
<1> QED
  BY <1>1, Onwards, SrvTypes, NetTypes, ToolTypes, ClientTypes DEF Types

-----------------------------------------------------------------------------
(* What a step leaves alone *)

StepOf(c) == ChildStep(c) \/ ToolStep(c) \/ Connect(c) \/ ClientStep(c) \/ Leave(c)

(* A step of a client or its processes does not touch what the others have.  *)
LEMMA OthersLeft ==
    ASSUME Types, NEW c \in Clients, StepOf(c), NEW d \in Clients, d # c
    PROVE  /\ srv'[d] = srv[d] /\ tool'[d] = tool[d]
           /\ cl'[d] = cl[d] /\ net'[d] = net[d]
<1>1. CASE ChildStep(c)
  <2>1. CASE HashStep(c)
    BY <2>1 DEF HashStep, StartHash, ReadHash, EndSum, EndFile, Exit, Types
  <2>2. CASE Read(c) \/ EndOfStream(c) \/ Close(c) \/ StartConvert(c) \/ EndConvert(c)
    BY <2>2 DEF Read, EndOfStream, Close, StartConvert, EndConvert, Exit, Types
  <2> QED
    BY <1>1, <2>1, <2>2 DEF ChildStep
<1>2. CASE ToolStep(c)
  BY <1>2 DEF ToolStep, RunHash, RunConvert, Types
<1>3. CASE Connect(c) \/ ClientStep(c) \/ Leave(c)
  BY <1>3 DEF Connect, ClientStep, SendName, SendResolution, Receive, ServerGone, Leave, Types
<1> QED
  BY <1>1, <1>2, <1>3 DEF StepOf

(* Nor does it start a child or undo a connect. *)
LEMMA BeforeAccept ==
    ASSUME Types, NEW c \in Clients, StepOf(c), NEW d \in Clients
    PROVE  /\ srv[d].at = "none" => srv'[d].at = "none"
           /\ cl'[d].at = "start" => cl[d].at = "start"
<1>0. srv \in [Clients -> Servers] /\ cl \in [Clients -> Users]
  BY DEF Types
<1>1. CASE d # c
  BY <1>1, OthersLeft
<1>2. CASE d = c
  <2>1. CASE ChildStep(c)
    <3>1. srv[c].at # "none" /\ UNCHANGED cl
      BY <2>1 DEF ChildStep, HashStep, Read, EndOfStream, Close, StartHash, ReadHash, EndSum,
                  EndFile, StartConvert, EndConvert
    <3> QED
      BY <1>2, <3>1
  <2>2. CASE ToolStep(c)
    BY <2>2 DEF ToolStep, RunHash, RunConvert
  <2>3. CASE Connect(c) \/ ClientStep(c) \/ Leave(c)
    <3>1. UNCHANGED srv /\ (UNCHANGED cl \/ cl[c].at \in {"start", "open"})
      BY <2>3 DEF Connect, ClientStep, SendName, SendResolution, Receive, ServerGone, Leave
    <3>2. cl[c].at = "start" => cl'[c].at = "open"
      BY <1>0, <2>3 DEF Connect, ClientStep, SendName, SendResolution, Receive, ServerGone,
                        Leave, Users
    <3>3. cl[c].at = "open" => cl'[c].at # "start"
      <4>1. CASE SendName(c) \/ SendResolution(c) \/ Receive(c)
        BY ZenonT(60), <1>0, <4>1 DEF SendName, SendResolution, Receive, Users
      <4>2. CASE Connect(c) \/ ServerGone(c) \/ Leave(c)
        BY <1>0, <4>2 DEF Connect, ServerGone, Leave, Users
      <4> QED
        BY <2>3, <4>1, <4>2 DEF ClientStep
    <3> QED
      BY <1>2, <3>1, <3>2, <3>3
  <2> QED
    BY <2>1, <2>2, <2>3 DEF StepOf
<1> QED
  BY <1>1, <1>2

(* Only the sockets of its own child and tool are opened and closed.         *)
LEMMA HeldByOthers ==
    ASSUME NEW c \in Clients, StepOf(c), NEW d \in Clients, d # c
    PROVE  <<Child(d), d>> \in holds' <=> <<Child(d), d>> \in holds
<1>1. /\ Child(d) # Child(c) /\ Child(d) # Tool(c) 
  BY DEF Child, Tool
<1>2. \/ UNCHANGED holds
      \/ holds' = {h \in holds : h[1] # Child(c)}
      \/ holds' = holds \cup {<<Tool(c), c>>}
      \/ holds' = holds \ {<<Tool(c), c>>}
      \/ holds' = holds \ {<<Child(c), c>>}
  <2>1. CASE ChildStep(c)
    BY <2>1 DEF ChildStep, HashStep, Read, EndOfStream, Close, StartHash, ReadHash, EndSum,
                EndFile, StartConvert, EndConvert, Exit
  <2>2. CASE ToolStep(c)
    BY <2>2 DEF ToolStep, RunHash, RunConvert
  <2>3. CASE Connect(c) \/ ClientStep(c) \/ Leave(c)
    BY <2>3 DEF Connect, ClientStep, SendName, SendResolution, Receive, ServerGone, Leave
  <2> QED
    BY <2>1, <2>2, <2>3 DEF StepOf
<1> QED
  BY <1>1, <1>2

(* The client that is accepted next is one without a child. *)
LEMMA Oldest ==
    ASSUME Types, Queued, Accept
    PROVE  /\ Head(backlog) \in Clients /\ srv[Head(backlog)].at = "none"
           /\ cl[Head(backlog)].at # "start" /\ Head(backlog) = backlog[1]
           /\ Len(backlog) \in Nat /\ Len(backlog) >= 1
<1>1. backlog # <<>> /\ backlog \in Seq(Clients)
  BY DEF Accept, Types
<1>2. /\ Head(backlog) = backlog[1] /\ 1 \in 1..Len(backlog)
      /\ Len(backlog) \in Nat /\ Len(backlog) >= 1 /\ backlog[1] \in Clients
  BY <1>1, EmptySeq, LenProperties, ElementOfSeq
<1> QED
  BY <1>2 DEF Queued

(* The parent changes the place of a child that is not there yet or no more. *)
LEMMA ParentLeaves ==
    ASSUME Types, Queued, ParentStep, NEW d \in Clients
    PROVE  \/ srv'[d] = srv[d] /\ (Accept => d # Head(backlog))
           \/ /\ srv[d].at = "exited"
              /\ srv'[d] = [srv[d] EXCEPT !.at = "reaped"]
           \/ /\ Accept /\ d = Head(backlog) /\ srv[d].at = "none"
              /\ \/ srv'[d] = [srv[d] EXCEPT !.at = "poll"]
                 \/ /\ srv'[d] = [srv[d] EXCEPT !.at = "refused"]
                    /\ failures'[d] = failures[d] + 1
<1>0. srv \in [Clients -> Servers] /\ failures \in [Clients -> Nat]
  BY DEF Types
<1>1. CASE Accept
  <2> DEFINE c == Head(backlog)
  <2>1. c \in Clients /\ srv[c].at = "none"
    BY <1>1, Oldest
  <2>2. \/ \E z \in Clients : /\ z = c \/ srv[z].at = "exited"
                             /\ srv' = [[srv EXCEPT ![z].at = "reaped"] EXCEPT ![c].at = "poll"]
        \/ /\ srv' = [srv EXCEPT ![c].at = "refused"]
           /\ failures'[c] = failures[c] + 1
    BY <1>0, <1>1, <2>1 DEF Accept, Zombies, MayFail
  <2> HIDE DEF c
  <2>3. \/ d # c /\ srv'[d] = srv[d]
        \/ srv[d].at = "exited" /\ srv'[d] = [srv[d] EXCEPT !.at = "reaped"]
        \/ /\ d = c
           /\ \/ srv'[d] = [srv[d] EXCEPT !.at = "poll"]
              \/ /\ srv'[d] = [srv[d] EXCEPT !.at = "refused"]
                 /\ failures'[d] = failures[d] + 1
    <3>1. ASSUME NEW z \in Clients, z = c \/ srv[z].at = "exited",
                 srv' = [[srv EXCEPT ![z].at = "reaped"] EXCEPT ![c].at = "poll"]
          PROVE  \/ d # c /\ srv'[d] = srv[d]
                 \/ srv[d].at = "exited" /\ srv'[d] = [srv[d] EXCEPT !.at = "reaped"]
                 \/ d = c /\ srv'[d] = [srv[d] EXCEPT !.at = "poll"]
      <4> DEFINE s == [srv EXCEPT ![z].at = "reaped"]
      <4>1. DOMAIN s = Clients /\ s[z] = [srv[z] EXCEPT !.at = "reaped"]
            /\ \A e \in Clients \ {z} : s[e] = srv[e]
        BY <1>0
      <4>2. srv' = [s EXCEPT ![c].at = "poll"]
        BY <3>1
      <4> HIDE DEF s
      <4>3. srv'[c] = [s[c] EXCEPT !.at = "poll"] /\ (d # c => srv'[d] = s[d])
        BY <2>1, <4>1, <4>2
      <4>4. CASE d = c
        <5>1. CASE z = c
          <6>1. [[srv[c] EXCEPT !.at = "reaped"] EXCEPT !.at = "poll"]
                   = [srv[c] EXCEPT !.at = "poll"]
            BY <1>0, <2>1 DEF Servers
          <6> QED
            BY <4>1, <4>3, <4>4, <5>1, <6>1
        <5>2. CASE z # c
          BY <2>1, <4>1, <4>3, <4>4, <5>2
        <5> QED
          BY <5>1, <5>2
      <4>5. CASE d # c
        BY <3>1, <4>1, <4>3, <4>5
      <4> QED
        BY <4>4, <4>5
    <3>2. ASSUME srv' = [srv EXCEPT ![c].at = "refused"], failures'[c] = failures[c] + 1
          PROVE  \/ d # c /\ srv'[d] = srv[d]
                 \/ /\ d = c /\ srv'[d] = [srv[d] EXCEPT !.at = "refused"]
                    /\ failures'[d] = failures[d] + 1
      BY <1>0, <2>1, <3>2
    <3> QED
      BY <2>2, <3>1, <3>2
  <2> QED
    BY <1>1, <2>1, <2>3 DEF c
<1>2. CASE Quit
  BY <1>2 DEF Accept, Quit, Zombies
<1> QED
  BY <1>1, <1>2 DEF ParentStep

-----------------------------------------------------------------------------
(* Ends *)

(* No pipe is open at the start. *)
LEMMA InitEnds == Init => Ends
BY DEF Init, Ends

(* Every step keeps Ends. *)
LEMMA EndsStep ==
    ASSUME Types, Queued, Ends, Next
    PROVE  Ends'
<1>0. srv \in [Clients -> Servers] /\ \A c \in Clients : srv[c] \in Servers
  BY DEF Types
<1>1. CASE ParentStep
  <2>1. ASSUME NEW d \in Clients, srv'[d].at # "read"
        PROVE  srv'[d].ends = 0
    <3>1. srv[d].at # "read"
      BY <1>0, <1>1, <2>1, ParentLeaves DEF Servers
    <3>2. srv'[d].ends = srv[d].ends
      <4>1. srv'[d] = srv[d] \/ \E a : srv'[d] = [srv[d] EXCEPT !.at = a]
        BY <1>1, ParentLeaves
      <4> QED
        BY <1>0, <4>1 DEF Servers
    <3> QED
      BY <3>1, <3>2 DEF Ends
  <2> QED
    BY <2>1 DEF Ends
<1>2. ASSUME NEW c \in Clients, StepOf(c)
      PROVE  Ends'
  <2>1. \A d \in Clients : d # c => srv'[d] = srv[d]
    BY <1>2, OthersLeft
  <2>2. srv'[c].at # "read" => srv'[c].ends = 0
    <3>1. CASE ChildStep(c)
      <4>1. CASE HashStep(c)
        BY <1>0, <4>1 DEF HashStep, StartHash, ReadHash, EndSum, EndFile, Exit, Servers, Ends
      <4>2. CASE Read(c) \/ EndOfStream(c) \/ Close(c) \/ StartConvert(c) \/ EndConvert(c)
        <5>1. CASE Read(c)
          <6>1. srv[c].ends = 0 /\ \E a \in {"close", "start"} : \E r : 
                   srv' = [srv EXCEPT ![c].request = r, ![c].stage = 1, ![c].at = a]
            BY <5>1 DEF Read, Ends
          <6> QED
            BY <1>0, <6>1 DEF Servers
        <5>2. CASE EndOfStream(c) \/ StartConvert(c) \/ EndConvert(c)
          BY <1>0, <5>2 DEF EndOfStream, StartConvert, EndConvert, Servers, Ends
        <5>3. CASE Close(c)
          BY <1>0, <5>3 DEF Close, Exit, Servers, Ends
        <5> QED
          BY <4>2, <5>1, <5>2, <5>3
      <4> QED
        BY <3>1, <4>1, <4>2 DEF ChildStep
    <3>2. CASE ToolStep(c) \/ Connect(c) \/ ClientStep(c) \/ Leave(c)
      BY <3>2 DEF ToolStep, RunHash, RunConvert, Connect, ClientStep, SendName, SendResolution,
                  Receive, ServerGone, Leave, Ends
    <3> QED
      BY <1>2, <3>1, <3>2 DEF StepOf
  <2> QED
    BY <2>1, <2>2 DEF Ends
<1> QED
  BY <1>1, <1>2 DEF Next, StepOf

-----------------------------------------------------------------------------
(* The backlog *)

(* Nobody waits to be accepted at the start. *)
LEMMA InitQueued == Init => Queued
BY EmptySeq DEF Init, Queued

(* Who is accepted waits no longer. *)
LEMMA QueuedAccept ==
    ASSUME Types, Queued, Accept
    PROVE  Queued'
<1> DEFINE c == Head(backlog)
           n == Len(backlog)
<1>1. backlog # <<>> /\ backlog \in Seq(Clients) /\ srv \in [Clients -> Servers]
  BY DEF Accept, Types
<1>2. n \in Nat /\ n >= 1 /\ c = backlog[1] /\ c \in Clients
      /\ srv[c].at = "none" /\ cl[c].at # "start"
  BY Oldest
<1>3. /\ Len(Tail(backlog)) = n - 1
      /\ \A i \in 1..(n - 1) : Tail(backlog)[i] = backlog[i + 1]
  BY <1>1, HeadTailProperties
<1>4. \A i \in 1..(n - 1) : i + 1 \in 1..n /\ i + 1 # 1
  BY <1>2
<1>5. \A i \in 1..(n - 1) : backlog[i + 1] \in Clients \ {c}
  BY <1>1, <1>2, <1>4, ElementOfSeq DEF Queued
<1>6. ASSUME NEW d \in Clients \ {c}, srv[d].at = "none"
      PROVE  srv'[d].at = "none"
  BY <1>6, ParentLeaves DEF ParentStep
<1>7. backlog' = Tail(backlog) /\ UNCHANGED cl
  BY DEF Accept
<1>8. \A i, j \in 1..(n - 1) : Tail(backlog)[i] = Tail(backlog)[j] => i = j
  <2>1. \A i, j \in 1..(n - 1) : i + 1 = j + 1 => i = j
    BY <1>2
  <2> QED
    BY <1>3, <1>4, <2>1 DEF Queued
<1>9. \A i \in 1..(n - 1) :
         srv'[Tail(backlog)[i]].at = "none" /\ cl[Tail(backlog)[i]].at # "start"
  BY <1>3, <1>4, <1>5, <1>6 DEF Queued
<1>10. \A d \in Clients : cl[d].at = "start" => srv'[d].at = "none"
  BY <1>2, <1>6 DEF Queued
<1>11. Len(backlog') = n - 1
  BY <1>3, <1>7
<1> QED
  BY <1>7, <1>8, <1>9, <1>10, <1>11 DEF Queued

(* The backlog is empty when the server quits. *)
LEMMA QueuedQuit ==
    ASSUME Types, Queued, Quit
    PROVE  Queued'
<1>1. ASSUME NEW d \in Clients, cl'[d].at = "start"
      PROVE  cl[d].at = "start"
  BY <1>1 DEF Quit, Types, Users
<1>2. ASSUME NEW d \in Clients, srv[d].at = "none"
      PROVE  srv'[d].at = "none"
  BY <1>2 DEF Quit, Types, Zombies
<1>3. backlog' = <<>>
  BY DEF Quit
<1> QED
  BY <1>1, <1>2, <1>3, EmptySeq DEF Queued

(* A client that connects was not waiting before. *)
LEMMA QueuedConnect ==
    ASSUME Types, Queued, NEW c \in Clients, Connect(c)
    PROVE  Queued'
<1> DEFINE n == Len(backlog)
<1>1. /\ backlog' = Append(backlog, c) /\ UNCHANGED srv
      /\ cl[c].at = "start" /\ cl' = [cl EXCEPT ![c].at = "open"]
      /\ backlog \in Seq(Clients) /\ n \in Nat
      /\ cl \in [Clients -> Users]
  BY LenProperties DEF Connect, Types
<1>2. /\ Len(backlog') = n + 1
      /\ \A i \in 1..n : backlog'[i] = backlog[i]
      /\ backlog'[n + 1] = c
  BY <1>1, Appended
<1>3. \A i \in 1..(n + 1) : i \in 1..n \/ i = n + 1
  BY <1>1
<1>4. \A i \in 1..n : backlog[i] \in Clients \ {c}
  BY <1>1, ElementOfSeq DEF Queued
<1>5. /\ \A d \in Clients \ {c} : cl'[d] = cl[d]
      /\ cl'[c].at = "open"
  BY <1>1 DEF Users
<1>6. srv[c].at = "none"
  BY <1>1 DEF Queued
<1>7. \A d \in Clients : cl'[d].at = "start" => srv[d].at = "none"
  BY <1>1, <1>5 DEF Queued
<1>8. \A i, j \in 1..(n + 1) : backlog'[i] = backlog'[j] => i = j
  BY <1>2, <1>3, <1>4 DEF Queued
<1>9. \A i \in 1..(n + 1) : srv[backlog'[i]].at = "none" /\ cl'[backlog'[i]].at # "start"
  BY <1>2, <1>3, <1>4, <1>5, <1>6 DEF Queued
<1> QED
  BY <1>1, <1>2, <1>7, <1>8, <1>9 DEF Queued

(* Every step keeps each client that waits in the backlog once. *)
LEMMA QueuedStep ==
    ASSUME Types, Queued, Next
    PROVE  Queued'
<1>1. ASSUME NEW c \in Clients, StepOf(c), UNCHANGED backlog
      PROVE  Queued'
  <2>1. \A i \in 1..Len(backlog) : backlog[i] \in Clients
    BY ElementOfSeq DEF Types
  <2>2. \A d \in Clients : /\ srv[d].at = "none" => srv'[d].at = "none"
                           /\ cl'[d].at = "start" => cl[d].at = "start"
    BY <1>1, BeforeAccept
  <2> QED
    BY <1>1, <2>1, <2>2 DEF Queued
<1>2. ASSUME NEW c \in Clients, ChildStep(c) \/ ToolStep(c) \/ ClientStep(c) \/ Leave(c)
      PROVE  UNCHANGED backlog
  <2>1. CASE ChildStep(c)
    BY <2>1 DEF ChildStep, HashStep, Read, EndOfStream, Close, StartHash, ReadHash, EndSum,
                EndFile, StartConvert, EndConvert
  <2>2. CASE ToolStep(c) \/ ClientStep(c) \/ Leave(c)
    BY <2>2 DEF ToolStep, RunHash, RunConvert, ClientStep, SendName, SendResolution, Receive,
                ServerGone, Leave
  <2> QED
    BY <1>2, <2>1, <2>2
<1> QED
  BY <1>1, <1>2, QueuedAccept, QueuedQuit, QueuedConnect DEF Next, ParentStep, StepOf

-----------------------------------------------------------------------------
(* The image *)

(* No piece of an image is sent at the start. *)
LEMMA InitImage == Init => Image
<1>1. ASSUME Init, NEW c \in Clients
      PROVE  Asked(c) /\ ImageOf(c)
  <2>1. /\ srv[c].at = "none" /\ tool[c].at = "none" /\ tool[c].wrote = 0
        /\ cl[c].at = "start" /\ cl[c].got = <<>> /\ net[c].up = <<>> /\ net[c].down = <<>>
    BY <1>1 DEF Init
  <2>2. <<>> \o <<>> = [k \in 1..0 |-> k]
    BY EmptySeq, ConcatEmptySeq
  <2>3. Answers(c) = [k \in 1..tool[c].wrote |-> k]
    BY <2>1, <2>2 DEF Answers
  <2> QED
    BY <2>1, <2>3 DEF ImageOf, Asked
<1> QED
  BY <1>1 DEF Image

(* A client that waits still does after a step of another. *)
LEMMA StillQueued ==
    ASSUME Types, NEW c \in Clients, StepOf(c), NEW d \in Clients, d \in ToSet(backlog)
    PROVE  d \in ToSet(backlog')
<1>1. PICK i \in 1..Len(backlog) : backlog[i] = d
  BY DEF ToSet, Types
<1>2. CASE UNCHANGED backlog
  BY <1>2
<1>3. CASE backlog' = Append(backlog, c)
  <2>1. /\ Len(backlog') = Len(backlog) + 1 /\ Len(backlog) \in Nat
        /\ \A k \in 1..Len(backlog) : backlog'[k] = backlog[k]
        /\ backlog' \in Seq(Clients)
    BY <1>3, Appended, LenProperties DEF Types
  <2>2. i \in 1..Len(backlog') /\ backlog'[i] = d
    BY <1>1, <2>1
  <2>3. i \in DOMAIN backlog'
    BY <2>1, <2>2
  <2> QED
    BY <2>2, <2>3 DEF ToSet
<1>4. UNCHANGED backlog \/ backlog' = Append(backlog, c)
  <2>1. CASE ChildStep(c)
    BY <2>1 DEF ChildStep, HashStep, Read, EndOfStream, Close, StartHash, ReadHash, EndSum,
                EndFile, StartConvert, EndConvert
  <2>2. CASE ToolStep(c) \/ Connect(c) \/ ClientStep(c) \/ Leave(c)
    BY <2>2 DEF ToolStep, RunHash, RunConvert, Connect, ClientStep, SendName, SendResolution,
                Receive, ServerGone, Leave
  <2> QED
    BY <2>1, <2>2 DEF StepOf
<1> QED
  BY <1>2, <1>3, <1>4

(* So do all but the one that is accepted. *)
LEMMA NotOldest ==
    ASSUME Types, Accept, NEW d \in Clients, d # Head(backlog), d \in ToSet(backlog)
    PROVE  d \in ToSet(backlog')
<1> DEFINE n == Len(backlog)
<1>1. backlog # <<>> /\ backlog \in Seq(Clients) /\ n \in Nat
  BY LenProperties DEF Accept, Types
<1>2. /\ Tail(backlog) \in Seq(Clients) /\ Len(Tail(backlog)) = n - 1
      /\ \A i \in 1..(n - 1) : Tail(backlog)[i] = backlog[i + 1]
      /\ Head(backlog) = backlog[1]
  BY <1>1, HeadTailProperties
<1>3. PICK i \in 1..n : backlog[i] = d
  BY <1>1 DEF ToSet
<1>4. i - 1 \in 1..(n - 1) /\ (i - 1) + 1 = i
  BY <1>1, <1>2, <1>3
<1>5. Tail(backlog)[i - 1] = d /\ i - 1 \in DOMAIN Tail(backlog)
  BY <1>2, <1>3, <1>4
<1> QED
  BY <1>5 DEF ToSet, Accept

(* A child of the resize server takes the one line of its client. *)
LEMMA ReadOne ==
    ASSUME Types, NEW c \in Clients, Asked(c), Read(c)
    PROVE  /\ \E kind \in Resolutions :
                /\ srv'[c].request = <<<<1, kind>>>>
                /\ srv'[c].at = IF kind = "close" THEN "close" ELSE "start"
           /\ net'[c].up = <<>> /\ net'[c].down = net[c].down
<1>0. /\ srv \in [Clients -> Servers] /\ srv[c] \in Servers
      /\ net \in [Clients -> Nets] /\ net[c] \in Nets /\ net[c].up \in Seq(Token)
  BY DEF Types, Nets
<1>1. PICK k \in 1..Len(net[c].up) :
         /\ net' = [net EXCEPT ![c].up = SubSeq(net[c].up, k + 1, Len(net[c].up))]
         /\ srv' = [srv EXCEPT ![c].request = SubSeq(net[c].up, 1, k), ![c].stage = 1,
                      ![c].at = IF SubSeq(net[c].up, 1, k)[1][2] = "close" THEN "close"
                                ELSE "start"]
  BY DEF Read
<1>2. Len(net[c].up) # 0
  BY <1>1
<1>3. PICK kind \in Resolutions : net[c].up = <<<<1, kind>>>>
  BY <1>2 DEF Asked, Ask
<1>4. Len(net[c].up) = 1 /\ k = 1 /\ net[c].up[1] = <<1, kind>>
  BY <1>1, <1>3
<1> DEFINE r == SubSeq(net[c].up, 1, k)
           rest == SubSeq(net[c].up, k + 1, Len(net[c].up))
           a == IF kind = "close" THEN "close" ELSE "start"
<1>5. /\ r \in Seq(Token) /\ Len(r) = 1 /\ r[1] = <<1, kind>>
      /\ rest \in Seq(Token) /\ Len(rest) = 0
  BY <1>0, <1>4, Cut
<1>6. rest = <<>> /\ r[1][2] = kind
  <2>1. \A s \in Seq(Token) : Len(s) = 0 => s = <<>>
    BY EmptySeq
  <2> HIDE DEF r, rest
  <2> QED
    BY <1>5, <2>1
<1>7. r = <<<<1, kind>>>>
  <2> HIDE DEF r
  <2>1. <<<<1, kind>>>> \in Seq(Token) /\ Len(<<<<1, kind>>>>) = 1
    BY <1>0, <1>3
  <2>2. \A k1 \in 1..1 : r[k1] = <<<<1, kind>>>>[k1]
    BY <1>5
  <2> QED
    BY <1>5, <2>1, <2>2, SeqEqual
<1>8. srv' = [srv EXCEPT ![c].request = r, ![c].stage = 1, ![c].at = a]
  BY <1>1, <1>6
<1>9. net' = [net EXCEPT ![c].up = rest]
  BY <1>1
<1> HIDE DEF r, rest, a
<1>10. srv'[c].request = r /\ srv'[c].at = a /\ net'[c].up = rest /\ net'[c].down = net[c].down
  BY <1>0, <1>8, <1>9 DEF Servers, Nets
<1> QED
  BY <1>6, <1>7, <1>10 DEF a

(* A step of one client, its child or its tool leaves the image of another   *)
(* alone.                                                                    *)
LEMMA ImageOthers ==
    ASSUME Types, Next, NEW c \in Clients, StepOf(c), NEW d \in Clients, d # c, ImageOf(d)
    PROVE  ImageOf(d)'
<1>1. /\ srv'[d] = srv[d] /\ tool'[d] = tool[d] /\ cl'[d] = cl[d] /\ net'[d] = net[d]
  BY OthersLeft
<1>2. <<Child(d), d>> \in holds' <=> <<Child(d), d>> \in holds
  BY HeldByOthers
<1>3. failures[d] > 0 => failures'[d] > 0
  BY Onwards DEF Types
<1>4. d \in ToSet(backlog) => d \in ToSet(backlog')
  BY StillQueued
<1>5. Answers(d)' = Answers(d) /\ Output(d)' = Output(d)
  BY <1>1 DEF Answers, Output, Is
<1>6. (<<Child(d), d>>)' = <<Child(d), d>>
  BY DEF Child
<1> QED
  BY <1>1, <1>2, <1>3, <1>4, <1>5, <1>6 DEF ImageOf, Ask

(* The parent keeps the images of all. *)
LEMMA ImageParent ==
    ASSUME Types, Queued, ParentStep, NEW d \in Clients, Stays(d)', Stays(d) => ImageOf(d)
    PROVE  ImageOf(d)'
<1>0. srv \in [Clients -> Servers] /\ cl \in [Clients -> Users] /\ srv[d] \in Servers
  BY DEF Types
<1>1. UNCHANGED <<tool, net>> /\ (failures[d] > 0 => failures'[d] > 0)
  <2>1. UNCHANGED <<tool, net>>
    BY DEF ParentStep, Accept, Quit
  <2>2. Next
    BY DEF Next
  <2>3. failures[d] \in Nat /\ failures'[d] \in Nat /\ (failures'[d] = 0 => failures[d] = 0)
    BY <2>2, Onwards DEF Types
  <2> QED
    BY <2>1, <2>3
<1>2. cl'[d] = cl[d] /\ (Quit => d \notin ToSet(backlog))
  <2>1. CASE Accept
    BY <2>1 DEF Accept, Quit
  <2>2. CASE Quit
    BY <1>0, <2>2 DEF Quit, Stays, Users
  <2> QED
    BY <2>1, <2>2 DEF ParentStep
<1>3. ImageOf(d)
  BY <1>2 DEF Stays
<1>4. Answers(d)' = Answers(d)
  BY <1>1, <1>2 DEF Answers
<1>5. <<Child(d), d>> \in holds => <<Child(d), d>> \in holds'
  BY DEF ParentStep, Accept, Quit
<1>6. CASE srv'[d] = srv[d] /\ (Accept => d # Head(backlog))
  <2>1. srv[d].at = "none" /\ d \in ToSet(backlog) => d \in ToSet(backlog')
    <3>1. CASE Quit
      BY <1>2, <3>1
    <3>2. CASE Accept
      BY <1>6, <3>2, NotOldest
    <3> QED
      BY <3>1, <3>2 DEF ParentStep
  <2>2. Output(d)' = Output(d) /\ (<<Child(d), d>>)' = <<Child(d), d>>
    BY <1>6 DEF Output, Is, Child
  <2> QED
    BY <1>1, <1>2, <1>3, <1>4, <1>5, <1>6, <2>1, <2>2 DEF ImageOf, Ask
<1>7. CASE srv[d].at = "exited" /\ srv'[d] = [srv[d] EXCEPT !.at = "reaped"]
  <2>1. srv'[d].at = "reaped" /\ srv'[d].request = srv[d].request
    BY <1>0, <1>7 DEF Servers
  <2> QED
    BY <1>1, <1>2, <1>3, <1>4, <1>7, <2>1 DEF ImageOf, Ask, Ended
<1>8. CASE /\ Accept /\ d = Head(backlog) /\ srv[d].at = "none"
           /\ srv'[d] = [srv[d] EXCEPT !.at = "poll"]
  <2>1. srv'[d].at = "poll" /\ tool[d].at # "running"
    BY <1>0, <1>3, <1>8 DEF ImageOf, Servers
  <2>2. <<Child(d), d>> \in holds'
    <3> DEFINE c == Head(backlog)
               own == {c} \cup {e \in Clients : <<Parent, e>> \in holds}
    <3>1. \/ srv' = [srv EXCEPT ![c].at = "refused"]
          \/ holds' = holds \cup {<<Child(c), e>> : e \in own}
      <4>1. Accept
        BY <1>8
      <4> QED
        BY <4>1 DEF Accept
    <3>2. srv' # [srv EXCEPT ![c].at = "refused"]
      <4>1. [srv EXCEPT ![d].at = "refused"][d].at = "refused"
        BY <1>0 DEF Servers
      <4> QED
        BY <1>8, <2>1, <4>1
    <3>3. d \in own /\ d = c
      BY <1>8
    <3> HIDE DEF own, c
    <3> QED
      BY <3>1, <3>2, <3>3
  <2>3. cl[d].at # "done" /\ tool[d].wrote = 0
    BY <1>3, <1>8 DEF ImageOf, Ended
  <2>4. (<<Child(d), d>>)' = <<Child(d), d>>
    BY DEF Child
  <2> QED
    BY <1>1, <1>2, <1>3, <1>4, <2>1, <2>2, <2>3, <2>4 DEF ImageOf
<1>9. CASE /\ Accept /\ d = Head(backlog) /\ srv[d].at = "none"
           /\ srv'[d] = [srv[d] EXCEPT !.at = "refused"]
           /\ failures'[d] = failures[d] + 1
  <2>1. srv'[d].at = "refused" /\ failures'[d] > 0 /\ tool[d].at # "running"
    <3>1. srv'[d].at = "refused"
      BY <1>0, <1>9 DEF Servers
    <3>2. failures[d] \in Nat
      BY DEF Types
    <3>3. failures'[d] > 0
      BY <1>9, <3>2
    <3>4. tool[d].at # "running"
      BY <1>3, <1>9 DEF ImageOf
    <3> QED
      BY <3>1, <3>3, <3>4
  <2>2. cl[d].at # "done" /\ tool[d].wrote = 0
    BY <1>3, <1>9 DEF ImageOf, Ended
  <2> QED
    BY <1>1, <1>2, <1>3, <1>4, <2>1, <2>2 DEF ImageOf, Ended
<1> QED
  BY <1>6, <1>7, <1>8, <1>9, ParentLeaves

(* A child keeps the image of its client. *)
LEMMA ImageChild ==
    ASSUME Types, program = "resize", NEW c \in Clients, Asked(c), ChildStep(c),
           Stays(c)', Stays(c) => ImageOf(c)
    PROVE  ImageOf(c)'
<1>0. /\ srv \in [Clients -> Servers] /\ tool \in [Clients -> Tools]
      /\ srv[c] \in Servers /\ tool[c] \in Tools /\ failures \in [Clients -> Nat]
      /\ net \in [Clients -> Nets] /\ net[c] \in Nets
  BY DEF Types
<1>1. UNCHANGED <<cl, backlog>> /\ ImageOf(c)
  <2>1. UNCHANGED <<cl, backlog>>
    BY DEF ChildStep, Read, EndOfStream, Close, HashStep, StartHash, ReadHash, EndSum, EndFile,
           StartConvert, EndConvert
  <2> QED
    BY <2>1 DEF Stays
<1>2. failures[c] > 0 => failures'[c] > 0
  BY Onwards DEF Next, Types
<1>a. (<<Child(c), c>>)' = <<Child(c), c>>
  BY DEF Child
<1>3. CASE Read(c)
  <2>1. PICK kind \in Resolutions :
           /\ srv'[c].request = <<<<1, kind>>>>
           /\ srv'[c].at = IF kind = "close" THEN "close" ELSE "start"
    BY <1>3, ReadOne
  <2>2. net'[c].down = net[c].down
    BY <1>3, ReadOne
  <2>3. /\ srv'[c].at = "start" => srv'[c].request \in Ask({"size", "refused", "empty"})
        /\ srv'[c].at = "close" => srv'[c].request \in Ask({"close"})
        /\ srv'[c].at \in {"start", "close"}
    BY <2>1, ToolServerAssumption DEF Ask
  <2>4. UNCHANGED <<tool, holds, failures>> /\ srv[c].at = "poll"
    BY <1>3 DEF Read
  <2>5. Answers(c)' = Answers(c)
    BY <1>1, <2>2 DEF Answers
  <2>6. cl[c].at # "done" /\ tool[c].wrote = 0 /\ tool[c].at # "running"
    BY <1>1, <2>4 DEF ImageOf, Ended
  <2> QED
    BY <1>a, <1>1, <2>3, <2>4, <2>5, <2>6 DEF ImageOf
<1>4. CASE EndOfStream(c) \/ HashStep(c)
  BY <1>1, <1>4
     DEF EndOfStream, HashStep, StartHash, ReadHash, EndSum, EndFile, Stays, ImageOf, Ended
<1>5. CASE Close(c)
  <2>1. /\ srv[c].at = "close" /\ UNCHANGED <<tool, failures>>
        /\ srv'[c].at \in {"exited", "reaped"} /\ srv'[c].request = srv[c].request
    BY <1>0, <1>5 DEF Close, Exit, Servers
  <2>2. net'[c].down = net[c].down \/ net'[c].down = <<>>
    BY <1>0, <1>5 DEF Close, Nets
  <2>3. tool[c].wrote = 0 /\ tool[c].at # "running"
    BY <1>1, <2>1 DEF ImageOf
  <2>4. Answers(c)' = Answers(c) /\ (cl[c].at = "done" => net'[c].down = <<>>)
    <3>1. CASE net'[c].down = net[c].down
      BY <1>1, <3>1 DEF Answers, ImageOf
    <3>2. CASE net'[c].down = <<>>
      <4>1. cl[c].got \in Seq(Item) /\ net[c].down \in Seq(Item)
        BY DEF Types, Users, Nets
      <4>2. Len(cl[c].got \o net[c].down) = 0
        BY <1>1, <2>3 DEF ImageOf, Answers
      <4>3. Len(cl[c].got) + Len(net[c].down) = 0
        <5>1. \A s, t \in Seq(Item) : Len(s \o t) = Len(s) + Len(t)
          BY Joined
        <5> QED
          BY <4>1, <4>2, <5>1
      <4>4. Len(cl[c].got) \in Nat /\ Len(net[c].down) \in Nat
        BY <4>1, LenProperties
      <4>5. Len(cl[c].got) = 0 /\ Len(net[c].down) = 0
        <5>1. \A m, n \in Nat : m + n = 0 => m = 0 /\ n = 0
          OBVIOUS
        <5> QED
          BY <4>3, <4>4, <5>1
      <4>6. net[c].down = <<>>
        BY <4>1, <4>5, EmptySeq
      <4> QED
        BY <1>1, <3>2, <4>6 DEF Answers
    <3> QED
      BY <2>2, <3>1, <3>2
  <2> QED
    BY <1>1, <2>1, <2>3, <2>4 DEF ImageOf, Ask, Ended
<1>6. CASE StartConvert(c)
  <2>1. /\ srv[c].at = "start" /\ UNCHANGED net
        /\ srv'[c].request = srv[c].request
        /\ tool'[c].wrote = tool[c].wrote
        /\ \/ srv'[c].at = "wait" /\ tool'[c].at = "running" /\ srv[c].request[1][2] # "empty"
           \/ srv'[c].at = "poll" /\ tool'[c].at = tool[c].at
    BY <1>0, <1>6 DEF StartConvert, Servers, Tools
  <2>2. <<Child(c), c>> \in holds'
    BY <1>1, <1>6, <2>1 DEF StartConvert, ImageOf
  <2>3. Answers(c)' = Answers(c)
    BY <1>1, <2>1 DEF Answers
  <2>4. /\ tool[c].wrote = 0 /\ tool[c].at # "running" /\ cl[c].at # "done"
        /\ srv[c].request \in Ask({"size", "refused", "empty"})
    BY <1>1, <2>1 DEF ImageOf, Ended
  <2>5. srv'[c].at = "wait" => srv[c].request \in Ask({"size", "refused"})
    BY <2>1, <2>4 DEF Ask
  <2>6. 0 <= Output(c)'
    BY ToolServerAssumption DEF Output
  <2> QED
    BY <1>a, <1>1, <1>2, <2>1, <2>2, <2>3, <2>4, <2>5, <2>6 DEF ImageOf, Ask
<1>7. CASE EndConvert(c)
  <2>1. /\ srv[c].at = "wait" /\ tool[c].at = "exited" /\ UNCHANGED <<net, failures>>
        /\ srv'[c].at = "spin" /\ tool'[c].at = "none" /\ tool'[c].wrote = tool[c].wrote
        /\ srv'[c].request = srv[c].request
    BY <1>0, <1>7 DEF EndConvert, Servers, Tools
  <2>2. Answers(c)' = Answers(c) /\ Output(c)' = Output(c)
    BY <1>1, <2>1 DEF Answers, Output, Is
  <2>3. cl[c].at # "done"
    BY <1>1, <2>1 DEF ImageOf, Ended
  <2> QED
    BY <1>1, <2>1, <2>2, <2>3 DEF ImageOf, Ask
<1> QED
  BY <1>3, <1>4, <1>5, <1>6, <1>7 DEF ChildStep

(* convert keeps the image of its client. *)
LEMMA ImageTool ==
    ASSUME Types, program = "resize", NEW c \in Clients, ToolStep(c),
           Stays(c)', Stays(c) => ImageOf(c)
    PROVE  ImageOf(c)'
<1>0. /\ tool \in [Clients -> Tools] /\ tool[c] \in Tools /\ tool[c].wrote \in Nat
      /\ net \in [Clients -> Nets] /\ net[c].down \in Seq(Item) /\ cl[c].got \in Seq(Item)
      /\ failures \in [Clients -> Nat] /\ Output(c) \in Nat
  BY ToolServerAssumption DEF Types, Tools, Nets, Users, Output
<1>1. UNCHANGED <<cl, backlog, srv>> /\ RunConvert(c)
  BY DEF ToolStep, RunHash, RunConvert
<1>2. ImageOf(c)
  BY <1>1 DEF Stays
<1>3. /\ tool[c].at = "running" /\ srv[c].at = "wait" /\ cl[c].at # "done"
      /\ <<Child(c), c>> \in holds
  BY <1>1, <1>2 DEF RunConvert, ImageOf, Ended
<1>a. (<<Child(c), c>>)' = <<Child(c), c>> /\ Output(c)' = Output(c)
  BY <1>1 DEF Child, Output, Is
<1>4. CASE /\ tool[c].wrote < Output(c)
           /\ tool' = [tool EXCEPT ![c].wrote = @ + 1]
           /\ net' = [net EXCEPT ![c].down = Append(@, tool[c].wrote + 1)]
           /\ UNCHANGED <<holds, failures>>
  <2> DEFINE w == tool[c].wrote
  <2>1. tool'[c].wrote = w + 1 /\ tool'[c].at = "running"
    BY <1>0, <1>3, <1>4 DEF Tools
  <2>2. net'[c].down = Append(net[c].down, w + 1)
    BY <1>0, <1>4 DEF Nets
  <2>3. w + 1 \in Item
    BY <1>0 DEF Item
  <2>4. cl[c].got \o Append(net[c].down, w + 1) = Append(cl[c].got \o net[c].down, w + 1)
    <3>1. \A s, t \in Seq(Item), e \in Item : s \o Append(t, e) = Append(s \o t, e)
      BY JoinedAppend
    <3> QED
      BY <1>0, <2>3, <3>1
  <2>5. cl[c].got \o net[c].down = [k \in 1..w |-> k]
    BY <1>2 DEF ImageOf, Answers
  <2>6. Append([k \in 1..w |-> k], w + 1) = [k \in 1..(w + 1) |-> k]
    BY <1>0, Counted
  <2>7. Answers(c)' = [k \in 1..(w + 1) |-> k]
    BY <1>1, <2>2, <2>4, <2>5, <2>6 DEF Answers
  <2>8. w + 1 <= Output(c)
    BY <1>0, <1>4
  <2> HIDE DEF w
  <2> QED
    BY <1>a, <1>1, <1>2, <1>3, <1>4, <2>1, <2>7, <2>8 DEF ImageOf, Ask
<1>5. CASE /\ \/ tool[c].wrote = Output(c) /\ UNCHANGED failures
              \/ cl[c].at = "closed" /\ UNCHANGED failures
              \/ MayFail(c)
           /\ tool' = [tool EXCEPT ![c].at = "exited"]
           /\ holds' = holds \ {<<Tool(c), c>>}
           /\ UNCHANGED net
  <2>1. tool'[c].wrote = tool[c].wrote /\ tool'[c].at = "exited"
    BY <1>0, <1>5 DEF Tools
  <2>2. tool[c].wrote = Output(c) \/ failures'[c] > 0
    <3>1. cl[c].at # "closed"
      BY <1>1 DEF Stays
    <3>2. MayFail(c) => failures'[c] > 0
      BY <1>0 DEF MayFail
    <3> QED
      BY <1>5, <3>1, <3>2
  <2>3. <<Child(c), c>> \in holds'
    BY <1>3, <1>5 DEF Child, Tool
  <2>4. Answers(c)' = Answers(c)
    BY <1>1, <1>5 DEF Answers
  <2> QED
    BY <1>a, <1>1, <1>2, <1>3, <1>5, <2>1, <2>2, <2>3, <2>4 DEF ImageOf, Ask
<1> QED
  BY <1>1, <1>4, <1>5 DEF RunConvert

(* A client keeps its own image. *)
LEMMA ImageClient ==
    ASSUME Types, program = "resize", NEW c \in Clients,
           Connect(c) \/ ClientStep(c) \/ Leave(c),
           Stays(c)', Stays(c) => ImageOf(c), Queued
    PROVE  ImageOf(c)'
<1>0. /\ cl \in [Clients -> Users] /\ cl[c] \in Users /\ cl[c].got \in Seq(Item)
      /\ net \in [Clients -> Nets] /\ net[c] \in Nets /\ net[c].down \in Seq(Item)
      /\ backlog \in Seq(Clients)
  BY DEF Types, Users, Nets
<1>1. UNCHANGED <<srv, tool, holds, failures>>
  BY DEF Connect, ClientStep, SendName, SendResolution, Receive, ServerGone, Leave
<1>2. (<<Child(c), c>>)' = <<Child(c), c>> /\ Output(c)' = Output(c)
  BY <1>1 DEF Child, Output, Is
<1>3. CASE Connect(c)
  <2>1. cl'[c].at = "open" /\ cl'[c].got = cl[c].got /\ UNCHANGED net /\ cl[c].at = "start"
    BY <1>0, <1>3 DEF Connect, Users
  <2>2. ImageOf(c) /\ Answers(c)' = Answers(c)
    BY <2>1 DEF Stays, Answers
  <2>3. c \in ToSet(backlog')
    <3>1. /\ backlog' = Append(backlog, c) /\ Len(backlog) \in Nat
      BY <1>0, <1>3, LenProperties DEF Connect
    <3>2. /\ backlog' \in Seq(Clients) /\ Len(backlog') = Len(backlog) + 1
          /\ backlog'[Len(backlog) + 1] = c
      BY <1>0, <3>1, Appended
    <3>3. Len(backlog) + 1 \in DOMAIN backlog'
      BY <3>1, <3>2
    <3> QED
      BY <3>2, <3>3 DEF ToSet
  <2> QED
    BY <1>1, <1>2, <2>1, <2>2, <2>3 DEF ImageOf, Ask
<1>4. CASE SendResolution(c)
  <2>1. /\ cl'[c].at = "open" /\ cl[c].at = "open" /\ cl'[c].got = cl[c].got
        /\ net'[c].down = net[c].down /\ UNCHANGED backlog
    BY <1>0, <1>4 DEF SendResolution, Users, Nets
  <2>2. ImageOf(c) /\ Answers(c)' = Answers(c)
    BY <2>1 DEF Stays, Answers
  <2> QED
    BY <1>1, <1>2, <2>1, <2>2 DEF ImageOf, Ask
<1>5. CASE Receive(c)
  <2>1. /\ cl'[c].at = "open" /\ cl[c].at = "open" /\ cl'[c].got = cl[c].got \o net[c].down
        /\ net'[c].down = <<>> /\ UNCHANGED backlog
    BY <1>0, <1>5 DEF Receive, Users, Nets
  <2>2. (cl[c].got \o net[c].down) \o <<>> = cl[c].got \o net[c].down
    BY <1>0, Joined
  <2>3. ImageOf(c) /\ Answers(c)' = Answers(c)
    BY <2>1, <2>2 DEF Stays, Answers
  <2> QED
    BY <1>1, <1>2, <2>1, <2>3 DEF ImageOf, Ask
<1>6. CASE ServerGone(c)
  <2>1. /\ cl'[c].at = "done" /\ cl[c].at = "open" /\ cl'[c].got = cl[c].got
        /\ UNCHANGED <<net, backlog>> /\ net[c].down = <<>>
        /\ c \notin ToSet(backlog) /\ <<Child(c), c>> \notin holds
    BY <1>0, <1>6 DEF ServerGone, Users
  <2>2. ImageOf(c) /\ Answers(c)' = Answers(c)
    BY <2>1 DEF Stays, Answers
  <2>3. srv[c].at \in {"spin", "close"} \cup Ended
    BY <2>1, <2>2 DEF ImageOf
  <2> QED
    BY <1>1, <1>2, <2>1, <2>2, <2>3 DEF ImageOf, Ask
<1>7. CASE SendName(c)
  BY <1>7 DEF SendName
<1>8. CASE Leave(c)
  BY <1>0, <1>8 DEF Leave, Stays, Users
<1> QED
  BY <1>3, <1>4, <1>5, <1>6, <1>7, <1>8 DEF ClientStep

(* After a step there is still one line on its way at most. *)
LEMMA AskedStep ==
    ASSUME Types, program = "resize", NEW c \in Clients, Asked(c), Next
    PROVE  Asked(c)'
<1>0. /\ net \in [Clients -> Nets] /\ net[c] \in Nets
      /\ cl \in [Clients -> Users] /\ cl[c] \in Users
  BY DEF Types
<1>1. CASE net'[c].up = net[c].up /\ cl'[c].sent = cl[c].sent
  BY <1>1 DEF Asked, Ask
<1>2. CASE Read(c)
  BY <1>2, ReadOne DEF Asked
<1>3. CASE SendResolution(c)
  <2>1. PICK kind \in Resolutions :
           net' = [net EXCEPT ![c].up = Append(net[c].up, <<1, kind>>)]
    BY <1>3 DEF SendResolution
  <2>2. net[c].up = <<>> /\ Append(<<>>, <<1, kind>>) = <<<<1, kind>>>>
    BY <1>3 DEF SendResolution, Asked
  <2>3. net'[c].up = <<<<1, kind>>>>
    BY <1>0, <2>1, <2>2 DEF Nets
  <2>4. cl'[c].sent = 1
    BY <1>0, <1>3 DEF SendResolution, Users
  <2> QED
    BY <2>3, <2>4 DEF Asked, Ask
<1>4. \/ Read(c) \/ SendResolution(c)
      \/ net'[c].up = net[c].up /\ cl'[c].sent = cl[c].sent
  <2>1. CASE ParentStep
    BY ZenonT(60), <1>0, <2>1 DEF ParentStep, Accept, Quit, Users
  <2>2. ASSUME NEW d \in Clients, StepOf(d), d # c
        PROVE  net'[c] = net[c] /\ cl'[c] = cl[c]
    BY <2>2, OthersLeft
  <2>3. ASSUME StepOf(c)
        PROVE  \/ Read(c) \/ SendResolution(c)
               \/ net'[c].up = net[c].up /\ cl'[c].sent = cl[c].sent
    <3>1. CASE ChildStep(c)
      BY <1>0, <3>1 DEF ChildStep, EndOfStream, Close, HashStep, StartHash, ReadHash, EndSum,
                        EndFile, StartConvert, EndConvert, Nets
    <3>2. CASE ToolStep(c)
      BY <1>0, <3>2 DEF ToolStep, RunHash, RunConvert, Nets
    <3>3. CASE Receive(c)
      BY <1>0, <3>3 DEF Receive, Nets, Users
    <3>4. CASE Connect(c) \/ ServerGone(c) \/ Leave(c)
      BY <1>0, <3>4 DEF Connect, ServerGone, Leave, Users
    <3>5. ~ SendName(c)
      BY DEF SendName
    <3> QED
      BY <2>3, <3>1, <3>2, <3>3, <3>4, <3>5 DEF StepOf, ClientStep
  <2> QED
    BY <2>1, <2>2, <2>3 DEF Next, StepOf
<1> QED
  BY <1>1, <1>2, <1>3, <1>4

(* Every step keeps the images of all clients. *)
LEMMA ImageStep ==
    ASSUME Types, Queued, Image, Next
    PROVE  Image'
<1>1. CASE program # "resize"
  BY <1>1, Onwards DEF Image
<1>2. CASE program = "resize"
  <2>1. \A d \in Clients : Asked(d) /\ (Stays(d) => ImageOf(d))
    BY <1>2 DEF Image
  <2>2. ASSUME NEW d \in Clients
        PROVE  Asked(d)'
    BY <1>2, <2>1, AskedStep
  <2>3. ASSUME NEW d \in Clients, Stays(d)'
        PROVE  ImageOf(d)'
    <3>1. CASE ParentStep
      BY <2>1, <2>3, <3>1, ImageParent
    <3>2. ASSUME NEW c \in Clients, StepOf(c), c # d
          PROVE  ImageOf(d)'
      <4>1. Stays(d)
        BY <2>3, <3>2, OthersLeft DEF Stays
      <4> QED
        BY <2>1, <3>2, <4>1, ImageOthers
    <3>3. CASE StepOf(d)
      BY <1>2, <2>1, <2>3, <3>3, ImageChild, ImageTool, ImageClient DEF StepOf
    <3> QED
      BY <3>1, <3>2, <3>3 DEF Next, StepOf
  <2> QED
    BY <1>2, <2>2, <2>3, Onwards DEF Image
<1> QED
  BY <1>1, <1>2

-----------------------------------------------------------------------------
(* The answers of the hash server *)

(* No request is sent at the start. *)
LEMMA InitHashed == Init => Hashed
<1>1. ASSUME Init, NEW c \in Clients
      PROVE  Grows(c) /\ Own(c) /\ Right(c)
  <2>1. /\ srv[c].at = "none" /\ cl[c].got = <<>> /\ net[c].up = <<>> /\ net[c].down = <<>>
    BY <1>1 DEF Init
  <2>2. <<>> \o <<>> = <<>>
    BY EmptySeq, ConcatEmptySeq
  <2>3. Len(Answers(c)) = 0 /\ Len(net[c].up) = 0
    BY <2>1, <2>2 DEF Answers
  <2>4. NoSum(srv[c].buf)
    BY <1>1 DEF Init, NoSum, Junk
  <2> QED
    BY <2>1, <2>3, <2>4 DEF Grows, Own, Right, Working, Piped, Clean
<1> QED
  BY <1>1 DEF Hashed

(* Nothing of the order changes while the same request is worked on, or      *)
(* none is any more.                                                         *)
LEMMA GrowsKept ==
    ASSUME NEW c \in Clients, Grows(c), Answers(c)' = Answers(c),
           cl'[c].sent = cl[c].sent, net'[c].up = net[c].up,
           srv'[c].at \in Working => srv[c].at \in Working /\ srv'[c].request = srv[c].request
    PROVE  Grows(c)'
<1>1. \A i \in 1..Len(Answers(c)) :
         /\ Answers(c)[i].type[1] = 2
         /\ \A j \in 1..(i - 1) :
               Answers(c)[j].type[2][1][1] < Answers(c)[i].type[2][1][1]
         /\ Answers(c)[i].type[2][1][1] \in 0..cl[c].sent
         /\ \A k \in 1..Len(net[c].up) : Answers(c)[i].type[2][1][1] < net[c].up[k][1]
  BY DEF Grows, Number
<1>2. \A k \in 1..Len(net[c].up) :
         /\ net[c].up[k][1] \in 0..cl[c].sent
         /\ \A j \in 1..(k - 1) : net[c].up[j][1] < net[c].up[k][1]
  BY DEF Grows
<1>3. srv'[c].at \in Working =>
         /\ srv'[c].request # <<>>
         /\ srv'[c].request[1][1] \in 0..cl[c].sent
         /\ \A i \in 1..Len(Answers(c)) :
               Answers(c)[i].type[2][1][1] < srv'[c].request[1][1]
         /\ \A k \in 1..Len(net[c].up) : srv'[c].request[1][1] < net[c].up[k][1]
  BY DEF Grows, Number
<1> QED
  BY <1>1, <1>2, <1>3 DEF Grows, Number

(* A step that answers nothing keeps the answers right. *)
LEMMA RightKept ==
    ASSUME NEW c \in Clients, Right(c), Answers(c)' = Answers(c),
           failures'[c] = 0 => failures[c] = 0
    PROVE  Right(c)'
BY DEF Right, HashOf, NoSum, Is

(* A step that moves nothing of a request at work keeps the requests in      *)
(* order.                                                                    *)
LEMMA HashKept ==
    ASSUME Types, NEW c \in Clients, Grows(c), Own(c), Right(c), Answers(c)' = Answers(c),
           cl'[c].sent = cl[c].sent, net'[c].up = net[c].up,
           \/ srv'[c].at \notin Working \cup {"none", "poll"}
           \/ srv'[c] = srv[c] /\ tool'[c] = tool[c]
           \/ srv[c].at = "none" /\ srv'[c] = [srv[c] EXCEPT !.at = "poll"],
           failures'[c] = 0 => failures[c] = 0
    PROVE  Grows(c)' /\ Own(c)' /\ Right(c)'
<1>1. CASE srv'[c].at \notin Working \cup {"none", "poll"}
  <2>1. Own(c)'
    BY <1>1 DEF Own, Piped, Clean, Working
  <2> QED
    BY <1>1, <2>1, GrowsKept, RightKept
<1>2. CASE srv'[c] = srv[c] /\ tool'[c] = tool[c]
  <2>1. Piped(c)'
    BY <1>2 DEF Own, Piped, Is
  <2>2. failures'[c] = 0 => Clean(c)'
    BY <1>2 DEF Own, Clean, Sum, Word, NoSum, Is, Working
  <2>3. Own(c)'
    BY <1>2, <2>1, <2>2 DEF Own, Kind, Working
  <2> QED
    BY <1>2, <2>3, GrowsKept, RightKept
<1>3. CASE srv[c].at = "none" /\ srv'[c] = [srv[c] EXCEPT !.at = "poll"]
  <2>1. srv[c] \in Servers
    BY DEF Types
  <2>2. srv'[c].at = "poll" /\ srv'[c].buf = srv[c].buf
    BY <1>3, <2>1 DEF Servers
  <2>3. Own(c)'
    BY <1>3, <2>2 DEF Own, Piped, Clean, NoSum, Working
  <2>4. srv'[c].at \notin Working
    BY <2>2 DEF Working
  <2> QED
    BY <2>3, <2>4, GrowsKept, RightKept
<1> QED
  BY <1>1, <1>2, <1>3

(* The parent does not touch requests. *)
LEMMA HashParent ==
    ASSUME Types, Queued, ParentStep, NEW c \in Clients, Grows(c), Own(c), Right(c)
    PROVE  Grows(c)' /\ Own(c)' /\ Right(c)'
<1>1. UNCHANGED <<net, tool>> /\ (failures'[c] = 0 => failures[c] = 0)
  BY Onwards DEF ParentStep, Accept, Quit, Next
<1>2. cl'[c].sent = cl[c].sent /\ cl'[c].got = cl[c].got
  BY ZenonT(60) DEF ParentStep, Accept, Quit, Types, Users
<1>3. \/ srv'[c].at \notin Working \cup {"none", "poll"}
      \/ srv'[c] = srv[c]
      \/ srv[c].at = "none" /\ srv'[c] = [srv[c] EXCEPT !.at = "poll"]
  <2>1. srv[c] \in Servers
    BY DEF Types
  <2> QED
    BY <2>1, ParentLeaves DEF Servers, Working
<1>4. Answers(c)' = Answers(c)
  BY <1>1, <1>2 DEF Answers
<1> QED
  BY <1>1, <1>2, <1>3, <1>4, HashKept

(* A step of one client, its child or its tool leaves the requests of        *)
(* another alone.                                                            *)
LEMMA HashOthers ==
    ASSUME Types, Next, NEW d \in Clients, StepOf(d), NEW c \in Clients, c # d,
           Grows(c), Own(c), Right(c)
    PROVE  Grows(c)' /\ Own(c)' /\ Right(c)'
<1>1. /\ srv'[c] = srv[c] /\ tool'[c] = tool[c] /\ cl'[c] = cl[c] /\ net'[c] = net[c]
  BY OthersLeft
<1>2. Answers(c)' = Answers(c)
  BY <1>1 DEF Answers
<1> QED
  BY <1>1, <1>2, Onwards, HashKept

(* The steps of stage 1 and 2 before the answer. *)
LEMMA HashStage ==
    ASSUME Types, Next, NEW c \in Clients, Grows(c), Own(c), Right(c),
           StartHash(c) \/ RunHash(c) \/ ReadHash(c) \/ EndSum(c)
    PROVE  Grows(c)' /\ Own(c)' /\ Right(c)'
<1>0. /\ srv \in [Clients -> Servers] /\ tool \in [Clients -> Tools]
      /\ failures \in [Clients -> Nat]
      /\ srv[c] \in Servers /\ tool[c] \in Tools /\ srv[c].buf \in Text
  BY DEF Types, Servers
<1>1. UNCHANGED <<cl, net>> /\ (failures'[c] = 0 => failures[c] = 0)
  BY Onwards DEF StartHash, RunHash, ReadHash, EndSum
<1>2. Answers(c)' = Answers(c)
  BY <1>1 DEF Answers
<1>3. \/ /\ srv[c].at \in {"start", "read", "wait"}
         /\ srv'[c].request = srv[c].request
      \/ UNCHANGED srv
  BY <1>0 DEF StartHash, RunHash, ReadHash, EndSum, Servers
<1>4. Grows(c)'
  BY <1>1, <1>2, <1>3, GrowsKept DEF Working
<1>5. Right(c)'
  BY <1>1, <1>2, RightKept
<1> SUFFICES Own(c)'
  BY <1>4, <1>5
<1>6. CASE StartHash(c)
  <2>1. srv[c].at = "start" /\ srv'[c].buf = srv[c].buf /\ srv'[c].word = srv[c].word
        /\ srv'[c].stage = srv[c].stage /\ srv'[c].request = srv[c].request
    BY <1>0, <1>6 DEF StartHash, Servers
  <2>2. \/ srv'[c].at = "poll" /\ failures'[c] # 0
        \/ srv'[c].at = "read" /\ tool'[c].at = "running" /\ tool'[c].pipe = <<>>
    BY <1>0, <1>6 DEF StartHash, MayFail, Servers, Tools
  <2>3. Piped(c)'
    BY <2>2 DEF Piped
  <2>4. failures'[c] = 0 => Clean(c)'
    BY <1>1, <2>1, <2>2 DEF Own, Clean, Word, NoSum, Is, Working
  <2> QED
    BY <2>1, <2>2, <2>3, <2>4 DEF Own, Working
<1>7. CASE RunHash(c)
  <2>1. UNCHANGED srv /\ tool[c].at = "running" /\ tool'[c].at = "exited"
    BY <1>0, <1>7 DEF RunHash, Tools
  <2>2. \/ tool'[c].pipe = IF srv[c].stage = 2 \/ Is("file", srv[c].request)
                           THEN <<srv[c].stage, srv[c].request>> ELSE <<>>
        \/ tool'[c].pipe = tool[c].pipe /\ failures'[c] # 0
    <3>1. MayFail(c) => failures'[c] # 0
      BY <1>0 DEF MayFail
    <3> QED
      BY ZenonT(60), <1>0, <1>7, <3>1 DEF RunHash, Tools
  <2>3. <<srv[c].stage, srv[c].request>> # <<>>
    OBVIOUS
  <2>4. Piped(c)'
    BY <2>1, <2>2, <2>3 DEF Own, Piped, Is
  <2>5. failures'[c] = 0 => Clean(c)'
    BY <1>1, <2>1 DEF Own, Clean, Sum, Word, NoSum, Is, Working
  <2> QED
    BY <2>1, <2>4, <2>5 DEF Own, Kind, Working
<1>8. CASE ReadHash(c)
  <2>1. PICK text \in IF tool[c].pipe # <<>> THEN {tool[c].pipe}
                      ELSE IF srv[c].stage = 1 THEN {srv[c].buf, Junk}
                      ELSE {srv[c].buf} :
           srv' = [srv EXCEPT ![c].at = "wait", ![c].ends = 0, ![c].buf = text]
    BY <1>8 DEF ReadHash
  <2>2. /\ srv'[c].at = "wait" /\ srv'[c].buf = text /\ srv'[c].word = srv[c].word
        /\ srv'[c].stage = srv[c].stage /\ srv'[c].request = srv[c].request
    BY <1>0, <2>1 DEF Servers
  <2>3. srv[c].at = "read" /\ tool[c].at = "exited" /\ UNCHANGED failures
        /\ srv[c].stage \in {1, 2}
    BY <1>0, <1>8 DEF ReadHash, Servers
  <2>4. /\ \/ text = tool[c].pipe
           \/ tool[c].pipe = <<>> /\ text = srv[c].buf
           \/ tool[c].pipe = <<>> /\ text = Junk /\ srv[c].stage = 1
        /\ tool[c].pipe # <<>> => text = <<srv[c].stage, srv[c].request>>
    BY <2>3 DEF Own, Piped
  <2>5. text = <<2, srv[c].request>> => NoSum(text)
    BY DEF NoSum
  <2>6. NoSum(Junk)
    BY DEF NoSum, Junk
  <2>7. Piped(c)'
    BY <2>2 DEF Piped
  <2>8. failures[c] = 0 /\ srv[c].stage = 1 =>
           IF Is("file", srv[c].request) THEN text = Sum(c) ELSE NoSum(text)
    <3>1. ASSUME failures[c] = 0, srv[c].stage = 1, Is("file", srv[c].request)
          PROVE  text = Sum(c)
      BY <2>3, <2>4, <3>1 DEF Own, Piped, Sum
    <3>2. ASSUME failures[c] = 0, srv[c].stage = 1, ~ Is("file", srv[c].request)
          PROVE  NoSum(text)
      <4>1. tool[c].pipe = <<>> /\ NoSum(srv[c].buf)
        BY <2>3, <3>2 DEF Own, Piped, Clean
      <4>2. text \in {srv[c].buf, Junk}
        BY <2>1, <4>1
      <4> QED
        BY <2>6, <4>1, <4>2
    <3> QED
      BY <3>1, <3>2
  <2>9. failures'[c] = 0 => Clean(c)'
    <3>1. failures[c] = 0 /\ srv[c].stage = 2 =>
             IF Is("file", srv[c].request) THEN srv[c].word = Word(c) ELSE NoSum(srv[c].word)
      BY <2>3 DEF Own, Clean, Working
    <3> QED
      BY <2>2, <2>3, <2>8, <3>1 DEF Clean, Sum, Word, NoSum, Is, Working
  <2>10. srv[c].stage = 2 => Len(text) # 2 \/ text = Kind(c)
    <3>1. srv[c].stage = 2 => Len(srv[c].buf) # 2
      BY <2>3 DEF Own, Working
    <3> QED
      BY <2>3, <2>4, <3>1 DEF Kind
  <2> QED
    BY <2>2, <2>7, <2>9, <2>10 DEF Own, Kind, Working
<1>9. CASE EndSum(c)
  <2>1. /\ srv[c].at = "wait" /\ srv[c].stage = 1 /\ UNCHANGED failures
        /\ srv'[c].at = "start" /\ srv'[c].stage = 2 /\ srv'[c].buf = FirstWord(srv[c].buf)
        /\ srv'[c].word = FirstWord(srv[c].buf) /\ srv'[c].request = srv[c].request
    BY <1>0, <1>9 DEF EndSum, Servers
  <2>2. FirstWord(Sum(c)) = Word(c)
    BY DEF FirstWord, Sum, Word
  <2>3. Len(FirstWord(srv[c].buf)) # 2
        /\ (NoSum(srv[c].buf) => NoSum(FirstWord(srv[c].buf)))
    BY <1>0, Cuts
  <2>4. Piped(c)'
    BY <2>1 DEF Piped
  <2>5. failures'[c] = 0 => Clean(c)'
    <3>1. failures[c] = 0 =>
             IF Is("file", srv[c].request) THEN srv[c].buf = Sum(c) ELSE NoSum(srv[c].buf)
      BY <2>1 DEF Own, Clean
    <3>2. failures[c] = 0 =>
             IF Is("file", srv[c].request) THEN FirstWord(srv[c].buf) = Word(c)
             ELSE NoSum(FirstWord(srv[c].buf))
      BY <2>2, <2>3, <3>1
    <3> QED
      BY <2>1, <3>2 DEF Clean, Word, NoSum, Is
  <2> QED
    BY <2>1, <2>3, <2>4, <2>5 DEF Own
<1> QED
  BY <1>6, <1>7, <1>8, <1>9

(* The types of what is on its way to and from a client. *)
LEMMA Answered ==
    ASSUME Types, NEW c \in Clients
    PROVE  /\ cl[c].got \in Seq(Item) /\ net[c].down \in Seq(Item) /\ net[c].up \in Seq(Token)
           /\ Answers(c) \in Seq(Item) /\ Len(Answers(c)) \in Nat /\ Len(net[c].up) \in Nat
           /\ srv[c].request \in Seq(Token) /\ cl[c].sent \in Nat
           /\ srv \in [Clients -> Servers] /\ net \in [Clients -> Nets]
           /\ cl \in [Clients -> Users] /\ srv[c] \in Servers
<1>1. cl[c].got \in Seq(Item) /\ net[c].down \in Seq(Item) /\ net[c].up \in Seq(Token)
  BY DEF Types, Users, Nets
<1>2. Answers(c) \in Seq(Item)
  BY <1>1, Joined DEF Answers
<1>3. srv[c].request \in Seq(Token) /\ cl[c].sent \in Nat
  BY DEF Types, Servers, Users
<1> QED
  BY <1>1, <1>2, <1>3, LenProperties DEF Types

(* A child takes the next request, which is later than all answered. *)
LEMMA HashRead ==
    ASSUME Types, NEW c \in Clients, Grows(c), Own(c), Right(c), Read(c)
    PROVE  Grows(c)' /\ Own(c)' /\ Right(c)'
<1> DEFINE n == Len(net[c].up)
<1>1. PICK k \in 1..n :
         /\ net' = [net EXCEPT ![c].up = SubSeq(net[c].up, k + 1, Len(net[c].up))]
         /\ srv' = [srv EXCEPT ![c].request = SubSeq(net[c].up, 1, k), ![c].stage = 1,
                      ![c].at = IF SubSeq(net[c].up, 1, k)[1][2] = "close" THEN "close"
                                ELSE "start"]
  BY DEF Read
<1> DEFINE r == SubSeq(net[c].up, 1, k)
           rest == SubSeq(net[c].up, k + 1, Len(net[c].up))
           a == IF r[1][2] = "close" THEN "close" ELSE "start"
<1>2. a \in {"close", "start"} /\ n \in Nat
  BY Answered
<1>3. /\ Len(r) = k /\ r[1] = net[c].up[1] /\ r \in Seq(Token)
      /\ Len(rest) = n - k /\ \A j \in 1..(n - k) : rest[j] = net[c].up[k + j]
  BY Answered, Cut
<1>4. /\ srv' = [srv EXCEPT ![c].request = r, ![c].stage = 1, ![c].at = a]
      /\ net' = [net EXCEPT ![c].up = rest]
  BY <1>1
<1>5. r # <<>>
  BY <1>2, <1>3, EmptySeq
<1> HIDE DEF r, rest, a
<1>6. /\ srv'[c].request = r /\ srv'[c].stage = 1 /\ srv'[c].at = a
      /\ net'[c].up = rest /\ net'[c].down = net[c].down
  BY <1>4, Answered DEF Servers, Nets
<1>7. UNCHANGED <<cl, failures>>
  BY DEF Read
<1>8. Answers(c)' = Answers(c)
  BY <1>6, <1>7 DEF Answers
<1>9. /\ 1 \in 1..n
      /\ \A j \in 1..(n - k) : k + j \in 1..n /\ 1 \in 1..(k + j - 1)
      /\ \A j \in 1..(n - k) : \A i \in 1..(j - 1) : i \in 1..(n - k) /\ k + i \in 1..(k + j - 1)
  BY <1>2
<1>10. Right(c)'
  BY <1>7, <1>8, RightKept
<1>11. Own(c)'
  <2>1. srv[c].at = "poll" /\ srv'[c].buf = srv[c].buf
    BY <1>4, Answered DEF Read, Servers
  <2> QED
    BY <1>2, <1>6, <1>7, <2>1 DEF Own, Piped, Clean, NoSum, Working
<1>12. Grows(c)'
  <2> DEFINE up == net[c].up
             answers == 1..Len(Answers(c))
  <2>1. \A k1 \in 1..n : /\ up[k1][1] \in 0..cl[c].sent
                         /\ \A j \in 1..(k1 - 1) : up[j][1] < up[k1][1]
                         /\ \A i \in answers : Number(c, i) < up[k1][1]
    BY DEF Grows
  <2>2. /\ r[1] = up[1]
        /\ \A j \in 1..(n - k) : rest[j] = up[k + j]
    BY <1>3
  <2> HIDE DEF n, up, answers
  <2>3. r[1][1] \in 0..cl[c].sent /\ \A i \in answers : Number(c, i) < r[1][1]
    BY <1>9, <2>1, <2>2
  <2>4. ASSUME NEW j \in 1..(n - k)
        PROVE  /\ rest[j][1] \in 0..cl[c].sent
               /\ \A i \in answers : Number(c, i) < rest[j][1]
               /\ r[1][1] < rest[j][1]
               /\ \A i \in 1..(j - 1) : rest[i][1] < rest[j][1]
    <3>1. k + j \in 1..n /\ rest[j] = up[k + j] /\ 1 \in 1..(k + j - 1)
      BY <1>9, <2>2
    <3>2. \A i \in 1..(j - 1) : rest[i] = up[k + i] /\ k + i \in 1..(k + j - 1)
      BY <1>9, <2>2
    <3> QED
      BY <2>1, <2>2, <3>1, <3>2
  <2>5. \A i \in answers : /\ Answers(c)[i].type[1] = 2
                           /\ \A j \in 1..(i - 1) : Number(c, j) < Number(c, i)
                           /\ Number(c, i) \in 0..cl[c].sent
    BY DEF Grows, answers
  <2> QED
    BY <1>3, <1>5, <1>6, <1>7, <1>8, <2>3, <2>4, <2>5 DEF Grows, Number, answers
<1> QED
  BY <1>10, <1>11, <1>12

(* A client sends a request later than all before. *)
LEMMA HashSend ==
    ASSUME Types, NEW c \in Clients, Grows(c), Own(c), Right(c), SendName(c)
    PROVE  Grows(c)' /\ Own(c)' /\ Right(c)'
<1> DEFINE n == Len(net[c].up)
           s == cl[c].sent
<1>1. PICK kind \in Kinds : net' = [net EXCEPT ![c].up = Append(@, <<s + 1, kind>>)]
  BY DEF SendName
<1> DEFINE e == <<s + 1, kind>>
           up == Append(net[c].up, e)
<1>2. e \in Token /\ e[1] = s + 1 /\ s \in Nat /\ n \in Nat
  BY Answered DEF Token
<1>3. /\ Len(up) = n + 1 /\ up[n + 1] = e
      /\ \A k \in 1..n : up[k] = net[c].up[k]
  BY <1>2, Answered, Appended
<1>4. /\ net'[c].up = up /\ net'[c].down = net[c].down
      /\ cl'[c].sent = s + 1 /\ cl'[c].got = cl[c].got
      /\ UNCHANGED <<srv, tool, failures>>
  <2> HIDE DEF e
  <2>1. net' = [net EXCEPT ![c].up = Append(@, e)] /\ cl' = [cl EXCEPT ![c].sent = @ + 1]
    BY <1>1 DEF e, SendName
  <2>2. net'[c].up = up /\ net'[c].down = net[c].down
    BY <2>1, Answered DEF Nets
  <2>3. cl'[c].sent = s + 1 /\ cl'[c].got = cl[c].got
    BY <2>1, Answered DEF Users
  <2> QED
    BY <2>2, <2>3 DEF SendName
<1> HIDE DEF e, up
<1>5. Answers(c)' = Answers(c)
  BY <1>4 DEF Answers
<1>6. /\ \A k \in 1..(n + 1) : k \in 1..n \/ k = n + 1
      /\ \A k \in 1..n : \A j \in 1..(k - 1) : j \in 1..n
      /\ \A j \in 1..((n + 1) - 1) : j \in 1..n
      /\ \A x \in 0..s : x \in 0..(s + 1) /\ x < s + 1
      /\ s + 1 \in 0..(s + 1)
  BY <1>2
<1>7. \A i \in 1..Len(Answers(c)) :
         Number(c, i) \in 0..(s + 1) /\ \A k \in 1..(n + 1) : Number(c, i) < up[k][1]
  BY <1>2, <1>3, <1>6 DEF Grows
<1>8. \A k \in 1..(n + 1) :
         up[k][1] \in 0..(s + 1) /\ \A j \in 1..(k - 1) : up[j][1] < up[k][1]
  <2>1. ASSUME NEW k \in 1..n
        PROVE  up[k][1] \in 0..(s + 1) /\ \A j \in 1..(k - 1) : up[j][1] < up[k][1]
    BY <1>3, <1>6, <2>1 DEF Grows
  <2>2. up[n + 1][1] \in 0..(s + 1) /\ \A j \in 1..((n + 1) - 1) : up[j][1] < up[n + 1][1]
    BY <1>2, <1>3, <1>6 DEF Grows
  <2> QED
    BY <1>6, <2>1, <2>2
<1>9. srv[c].at \in Working =>
         /\ srv[c].request[1][1] \in 0..(s + 1)
         /\ \A k \in 1..(n + 1) : srv[c].request[1][1] < up[k][1]
  BY <1>2, <1>3, <1>6 DEF Grows
<1>10. Grows(c)'
  <2> HIDE DEF n, s
  <2> QED
    BY <1>3, <1>4, <1>5, <1>7, <1>8, <1>9 DEF Grows, Number
<1>11. Own(c)'
  BY <1>4 DEF Own, Piped, Clean, Sum, Word, Kind, NoSum, Is
<1> QED
  BY <1>4, <1>5, <1>10, <1>11, RightKept

(* The two words of the request at work make an answer. *)
LEMMA HashAnswer ==
    ASSUME Types, NEW c \in Clients, Grows(c), Own(c), Right(c),
           srv[c].at = "wait", srv[c].stage = 2, Len(srv[c].buf) = 2,
           srv' = [srv EXCEPT ![c].at = "poll"],
           net' = [net EXCEPT ![c].down =
                     Append(@, [hash |-> srv[c].word, type |-> srv[c].buf])],
           UNCHANGED <<cl, failures>>
    PROVE  Grows(c)' /\ Own(c)' /\ Right(c)'
<1> DEFINE e == [hash |-> srv[c].word, type |-> srv[c].buf]
           n == Len(Answers(c))
           req == srv[c].request
<1>1. e \in Item /\ e.hash = srv[c].word /\ e.type = <<2, req>>
  <2>1. srv[c].word \in Text /\ srv[c].buf \in Text /\ srv[c].buf = <<2, req>>
    BY Answered DEF Servers, Own, Kind, Working
  <2> QED
    BY <2>1 DEF Item
<1>2. /\ srv'[c].at = "poll" /\ net'[c].up = net[c].up
      /\ net'[c].down = Append(net[c].down, e)
  <2> HIDE DEF e
  <2>1. net' = [net EXCEPT ![c].down = Append(@, e)]
    BY DEF e
  <2> QED
    BY <2>1, Answered DEF Servers, Nets
<1> HIDE DEF e
<1>3. Answers(c)' = Append(Answers(c), e)
  <2>1. \A s, t \in Seq(Item) : s \o Append(t, e) = Append(s \o t, e)
    BY <1>1, JoinedAppend
  <2> QED
    BY <1>2, <2>1, Answered DEF Answers
<1> DEFINE all == Append(Answers(c), e)
<1>4. /\ Len(all) = n + 1 /\ all[n + 1] = e /\ n \in Nat
      /\ \A i \in 1..n : all[i] = Answers(c)[i]
  BY <1>1, Answered, Appended
<1>5. /\ \A i \in 1..(n + 1) : i \in 1..n \/ i = n + 1
      /\ \A i \in 1..n : \A j \in 1..(i - 1) : j \in 1..n
      /\ \A j \in 1..((n + 1) - 1) : j \in 1..n
  BY <1>4
<1> HIDE DEF all
<1>6. /\ req[1][1] \in 0..cl[c].sent
      /\ \A i \in 1..n : Number(c, i) < req[1][1]
      /\ \A k \in 1..Len(net[c].up) : req[1][1] < net[c].up[k][1]
  BY DEF Grows, Working
<1>7. all[n + 1].type[1] = 2 /\ all[n + 1].type[2] = req /\ all[n + 1].hash = srv[c].word
  BY <1>1, <1>4
<1>8. \A i \in 1..(n + 1) :
         /\ all[i].type[1] = 2
         /\ \A j \in 1..(i - 1) : all[j].type[2][1][1] < all[i].type[2][1][1]
         /\ all[i].type[2][1][1] \in 0..cl[c].sent
         /\ \A k \in 1..Len(net[c].up) : all[i].type[2][1][1] < net[c].up[k][1]
  <2>1. ASSUME NEW i \in 1..n
        PROVE  /\ all[i].type[1] = 2
               /\ \A j \in 1..(i - 1) : all[j].type[2][1][1] < all[i].type[2][1][1]
               /\ all[i].type[2][1][1] \in 0..cl[c].sent
               /\ \A k \in 1..Len(net[c].up) : all[i].type[2][1][1] < net[c].up[k][1]
    BY <1>4, <1>5, <2>1 DEF Grows, Number
  <2>2. \A j \in 1..((n + 1) - 1) : all[j].type[2][1][1] < req[1][1]
    BY <1>4, <1>5, <1>6 DEF Number
  <2> QED
    BY <1>5, <1>6, <1>7, <2>1, <2>2
<1>9. Grows(c)'
  <2>1. srv'[c].at \notin Working
    BY <1>2 DEF Working
  <2>2. \A k \in 1..Len(net[c].up) :
           /\ net[c].up[k][1] \in 0..cl[c].sent
           /\ \A j \in 1..(k - 1) : net[c].up[j][1] < net[c].up[k][1]
    BY DEF Grows
  <2>3. Answers(c)' = all /\ cl'[c].sent = cl[c].sent
    BY <1>3 DEF all
  <2> HIDE DEF n
  <2> QED
    BY <1>2, <1>4, <1>8, <2>1, <2>2, <2>3 DEF Grows, Number
<1>10. Own(c)'
  <2>1. srv'[c].buf = <<2, req>>
    BY <1>1, Answered DEF Servers, Own, Kind, Working
  <2>2. NoSum(srv'[c].buf)
    BY <2>1 DEF NoSum
  <2> QED
    BY <1>2, <2>2 DEF Own, Piped, Clean, NoSum, Working
<1>11. Right(c)'
  <2>1. failures[c] = 0 => HashOf(srv[c].word, req)
    BY DEF Own, Clean, HashOf, Word, Working
  <2>2. failures[c] = 0 => \A i \in 1..(n + 1) : HashOf(all[i].hash, all[i].type[2])
    BY <1>4, <1>5, <1>7, <2>1 DEF Right
  <2>3. Answers(c)' = all
    BY <1>3 DEF all
  <2> HIDE DEF n
  <2> QED
    BY <1>4, <2>2, <2>3 DEF Right, HashOf, NoSum, Is
<1> QED
  BY <1>9, <1>10, <1>11

(* A reset takes the answers that were not received yet.                     *)
LEMMA HashReset ==
    ASSUME Types, NEW c \in Clients, Grows(c), Right(c),
           srv'[c].at \notin Working \cup {"none", "poll"},
           net'[c].down = <<>>, net'[c].up = net[c].up,
           UNCHANGED <<cl, failures>>
    PROVE  Grows(c)' /\ Own(c)' /\ Right(c)'
<1> DEFINE n == Len(cl[c].got)
<1>1. Answers(c)' = cl[c].got /\ n \in Nat
  BY Answered, Joined, LenProperties DEF Answers
<1>2. /\ \A i \in 1..n : i \in 1..Len(Answers(c)) /\ Answers(c)[i] = cl[c].got[i]
      /\ \A i \in 1..n : \A j \in 1..(i - 1) : j \in 1..n
  <2>1. Len(Answers(c)) = n + Len(net[c].down) /\ Len(net[c].down) \in Nat
    BY Answered, Joined, LenProperties DEF Answers
  <2>2. \A i \in 1..n : Answers(c)[i] = cl[c].got[i]
    <3>1. \A s, t \in Seq(Item) : \A k \in 1..Len(s) : (s \o t)[k] = s[k]
      BY Joined
    <3>2. cl[c].got \in Seq(Item) /\ net[c].down \in Seq(Item)
      BY Answered
    <3> QED
      BY <3>1, <3>2 DEF Answers
  <2> HIDE DEF n
  <2>3. \A i \in 1..n : i \in 1..Len(Answers(c))
    BY <1>1, <2>1
  <2>4. \A i \in 1..n : \A j \in 1..(i - 1) : j \in 1..n
    BY <1>1
  <2> QED
    BY <2>2, <2>3, <2>4 DEF n
<1>3. Own(c)'
  BY DEF Own, Piped, Clean, Working
<1>4. Right(c)'
  <2>1. failures[c] = 0 => \A i \in 1..n : HashOf(cl[c].got[i].hash, cl[c].got[i].type[2])
    BY <1>2 DEF Right
  <2> HIDE DEF n
  <2> QED
    BY <1>1, <2>1 DEF Right, HashOf, NoSum, Is, n
<1>5. Grows(c)'
  <2>1. \A i \in 1..n :
           /\ cl[c].got[i].type[1] = 2
           /\ \A j \in 1..(i - 1) : cl[c].got[j].type[2][1][1] < cl[c].got[i].type[2][1][1]
           /\ cl[c].got[i].type[2][1][1] \in 0..cl[c].sent
           /\ \A k \in 1..Len(net[c].up) : cl[c].got[i].type[2][1][1] < net[c].up[k][1]
    BY <1>2 DEF Grows, Number
  <2>2. \A k \in 1..Len(net[c].up) :
           /\ net[c].up[k][1] \in 0..cl[c].sent
           /\ \A j \in 1..(k - 1) : net[c].up[j][1] < net[c].up[k][1]
    BY DEF Grows
  <2> HIDE DEF n
  <2> QED
    BY <1>1, <2>1, <2>2 DEF Grows, Number, n
<1> QED
  BY <1>3, <1>4, <1>5

(* A child keeps its requests in order. *)
LEMMA HashChild ==
    ASSUME Types, program = "hash", NEW c \in Clients, Grows(c), Own(c), Right(c), ChildStep(c)
    PROVE  Grows(c)' /\ Own(c)' /\ Right(c)'
<1>0. Next
  BY DEF Next
<1>1. CASE Read(c)
  BY <1>1, HashRead
<1>2. CASE StartHash(c) \/ ReadHash(c) \/ EndSum(c)
  BY <1>0, <1>2, HashStage
<1>3. ASSUME UNCHANGED <<cl, net, failures>>, srv'[c].at \notin Working \cup {"none", "poll"}
      PROVE  Grows(c)' /\ Own(c)' /\ Right(c)'
  <2>1. Answers(c)' = Answers(c)
    BY <1>3 DEF Answers
  <2> QED
    BY <1>3, <2>1, HashKept
<1>4. Exit(c) => srv'[c].at \notin Working \cup {"none", "poll"}
  BY Answered DEF Exit, Servers, Working
<1>5. CASE EndOfStream(c)
  <2>1. srv'[c].at = "close"
    BY <1>5, Answered DEF EndOfStream, Servers
  <2> QED
    BY <1>3, <1>5, <2>1 DEF EndOfStream, Working
<1>6. CASE Close(c)
  <2>1. CASE UNCHANGED net
    BY <1>3, <1>4, <1>6, <2>1 DEF Close
  <2>2. CASE net' = [net EXCEPT ![c].down = <<>>]
    <3>1. net'[c].down = <<>> /\ net'[c].up = net[c].up
      BY <2>2, Answered DEF Nets
    <3> QED
      BY <1>4, <1>6, <3>1, HashReset DEF Close
  <2> QED
    BY <1>6, <2>1, <2>2 DEF Close
<1>7. CASE EndFile(c)
  <2>1. CASE Exit(c) /\ UNCHANGED net
    BY <1>3, <1>4, <1>7, <2>1 DEF EndFile
  <2>2. CASE /\ Len(srv[c].buf) = 2
             /\ srv' = [srv EXCEPT ![c].at = "poll"]
             /\ net' = [net EXCEPT ![c].down =
                          Append(@, [hash |-> srv[c].word, type |-> srv[c].buf])]
    <3>1. srv[c].at = "wait" /\ srv[c].stage = 2 /\ UNCHANGED <<cl, failures>>
      BY <1>7 DEF EndFile
    <3> QED
      BY <2>2, <3>1, HashAnswer
  <2> QED
    BY <1>7, <2>1, <2>2 DEF EndFile
<1>8. ~ StartConvert(c) /\ ~ EndConvert(c)
  BY DEF StartConvert, EndConvert
<1> QED
  BY <1>1, <1>2, <1>5, <1>6, <1>7, <1>8 DEF ChildStep, HashStep

(* A client keeps its requests in order. *)
LEMMA HashClient ==
    ASSUME Types, program = "hash", NEW c \in Clients, Grows(c), Own(c), Right(c),
           Connect(c) \/ ClientStep(c) \/ Leave(c)
    PROVE  Grows(c)' /\ Own(c)' /\ Right(c)'
<1>1. CASE SendName(c)
  BY <1>1, HashSend
<1>2. CASE Receive(c)
  <2>1. /\ cl'[c].got = cl[c].got \o net[c].down /\ cl'[c].sent = cl[c].sent
        /\ net'[c].down = <<>> /\ net'[c].up = net[c].up
        /\ UNCHANGED <<srv, tool, failures>>
    BY <1>2, Answered DEF Receive, Users, Nets
  <2>2. Answers(c)' = Answers(c)
    BY <2>1, Answered, Joined DEF Answers
  <2> QED
    BY <2>1, <2>2, HashKept
<1>3. CASE Connect(c) \/ ServerGone(c) \/ Leave(c)
  <2>1. /\ cl'[c].got = cl[c].got /\ cl'[c].sent = cl[c].sent
        /\ UNCHANGED <<srv, tool, net, failures>>
    <3>1. \E a : cl' = [cl EXCEPT ![c].at = a]
      BY <1>3 DEF Connect, ServerGone, Leave
    <3>2. cl'[c].got = cl[c].got /\ cl'[c].sent = cl[c].sent
      BY <3>1, Answered DEF Users
    <3> QED
      BY <1>3, <3>2 DEF Connect, ServerGone, Leave
  <2>2. Answers(c)' = Answers(c)
    BY <2>1 DEF Answers
  <2> QED
    BY <2>1, <2>2, HashKept
<1>4. ~ SendResolution(c)
  BY DEF SendResolution
<1> QED
  BY <1>1, <1>2, <1>3, <1>4 DEF ClientStep

(* Every step keeps the requests of all clients in order. *)
LEMMA HashedStep ==
    ASSUME Types, Queued, Hashed, Next
    PROVE  Hashed'
<1>1. CASE program # "hash"
  BY <1>1, Onwards DEF Hashed
<1>2. CASE program = "hash"
  <2>1. ASSUME NEW c \in Clients
        PROVE  Grows(c)' /\ Own(c)' /\ Right(c)'
    <3>1. Grows(c) /\ Own(c) /\ Right(c)
      BY <1>2 DEF Hashed
    <3>2. CASE ParentStep
      BY <3>1, <3>2, HashParent
    <3>3. ASSUME NEW d \in Clients, StepOf(d), d # c
          PROVE  Grows(c)' /\ Own(c)' /\ Right(c)'
      BY <3>1, <3>3, HashOthers
    <3>4. CASE StepOf(c)
      <4>1. CASE ToolStep(c)
        <5>1. RunHash(c)
          BY <1>2, <4>1 DEF ToolStep, RunConvert
        <5> QED
          BY <3>1, <5>1, HashStage
      <4> QED
        BY <1>2, <3>1, <3>4, <4>1, HashChild, HashClient DEF StepOf
    <3> QED
      BY <3>2, <3>3, <3>4 DEF Next, StepOf
  <2> QED
    BY <2>1 DEF Hashed
<1> QED
  BY <1>1, <1>2

-----------------------------------------------------------------------------
(* Theorems *)

(* The invariant holds at the start. *)
LEMMA InitToolInv == Init => ToolInv
BY InitTypes, InitEnds, InitQueued, InitImage, InitHashed DEF ToolInv

(* Every step keeps the invariant. *)
LEMMA ToolInvStep ==
    ASSUME ToolInv, [Next]_vars
    PROVE  ToolInv'
<1>1. CASE Next
  BY <1>1, TypesStep, EndsStep, QueuedStep, ImageStep, HashedStep DEF ToolInv
<1>2. CASE UNCHANGED vars
  <2>1. Types' /\ Ends' /\ Queued'
    BY <1>2 DEF ToolInv, vars, Types, Ends, Queued
  <2>2. Image'
    <3>1. /\ program' = program /\ backlog' = backlog /\ holds' = holds /\ net' = net
          /\ srv' = srv /\ tool' = tool /\ cl' = cl /\ failures' = failures
      BY <1>2 DEF vars
    <3>2. ASSUME NEW c \in Clients, program = "resize"
          PROVE  Asked(c)' /\ (Stays(c)' => ImageOf(c)')
      <4>1. Asked(c) /\ (Stays(c) => ImageOf(c))
        BY <3>2 DEF ToolInv, Image
      <4>2. Answers(c)' = Answers(c) /\ Output(c)' = Output(c)
        BY <3>1 DEF Answers, Output, Is
      <4>3. Asked(c)' /\ Stays(c)' = Stays(c)
        BY <3>1, <4>1 DEF Asked, Ask, Stays
      <4>4. ImageOf(c) => ImageOf(c)'
        BY <3>1, <4>2 DEF ImageOf, Ask, Child
      <4> QED
        BY <4>1, <4>3, <4>4
    <3> QED
      BY <3>1, <3>2 DEF Image
  <2>3. Hashed'
    <3>1. /\ program' = program /\ failures' = failures
          /\ srv' = srv /\ tool' = tool /\ cl' = cl /\ net' = net
      BY <1>2 DEF vars
    <3>2. ASSUME NEW c \in Clients, Grows(c), Own(c), Right(c)
          PROVE  Grows(c)' /\ Own(c)' /\ Right(c)'
      <4>1. Answers(c)' = Answers(c)
        BY <3>1 DEF Answers
      <4> QED
        BY <3>1, <3>2, <4>1, HashKept DEF ToolInv
    <3> QED
      BY <3>1, <3>2 DEF ToolInv, Hashed
  <2> QED
    BY <2>1, <2>2, <2>3 DEF ToolInv
<1> QED
  BY <1>1, <1>2

(* The invariant of the tool servers. *)
LEMMA ToolInvariant == Spec => []ToolInv
<1>1. ToolInv /\ [Next]_vars => ToolInv'
  BY ToolInvStep
<1> QED
  BY <1>1, InitToolInv, PTL DEF Spec

(* A child of the hash server has no pipe open while it waits for its        *)
(* client, however many calls of pipe, fork and exec have failed.            *)
THEOREM NoPipeKept == Spec => []PipesReturned
<1>1. ToolInv => PipesReturned
  BY DEF ToolInv, Ends, PipesReturned
<1> QED
  BY <1>1, ToolInvariant, PTL

(* A client of the resize server that has seen the end of the stream has     *)
(* every piece that convert wrote for it, in order: the whole image, unless  *)
(* it asked for none or a call failed for this client.                       *)
THEOREM ImageComplete == Spec => []ImageWhole
<1>1. ASSUME ToolInv
      PROVE  ImageWhole
  <2>1. ASSUME program = "resize", NEW c \in Clients, cl[c].at = "done"
        PROVE  /\ cl[c].got = [i \in 1..tool[c].wrote |-> i]
               /\ \/ tool[c].wrote = Pieces
                  \/ /\ tool[c].wrote = 0
                     /\ srv[c].request \in {<<<<1, "refused">>>>, <<<<1, "close">>>>}
                  \/ failures[c] > 0
    <3>1. ImageOf(c)
      BY <1>1, <2>1 DEF ToolInv, Image, Stays
    <3>2. cl[c].got \o <<>> = cl[c].got
      BY <1>1, Answered, ConcatEmptySeq DEF ToolInv
    <3>3. net[c].down = <<>> /\ srv[c].at \in {"spin", "close"} \cup Ended
      BY <2>1, <3>1 DEF ImageOf
    <3>4. CASE srv[c].at = "spin"
      <4>1. /\ srv[c].request \in Ask({"size", "refused"})
            /\ tool[c].wrote = Output(c) \/ failures[c] > 0
        BY <3>1, <3>4 DEF ImageOf
      <4>2. \/ srv[c].request = <<<<1, "size">>>> \/ srv[c].request = <<<<1, "refused">>>>
        BY <4>1 DEF Ask
      <4>3. CASE srv[c].request = <<<<1, "size">>>>
        <5>1. Output(c) = Pieces
          BY <4>3 DEF Output, Is
        <5> QED
          BY <3>1, <3>2, <3>3, <4>1, <5>1 DEF ImageOf, Answers
      <4>4. CASE srv[c].request = <<<<1, "refused">>>>
        <5>1. Output(c) = 0
          BY <4>4 DEF Output, Is
        <5> QED
          BY <3>1, <3>2, <3>3, <4>1, <4>4, <5>1 DEF ImageOf, Answers
      <4> QED
        BY <4>2, <4>3, <4>4
    <3>5. CASE srv[c].at \in {"close", "exited", "reaped"}
      <4>1. srv[c].request = <<<<1, "close">>>> /\ tool[c].wrote = 0
        BY <3>1, <3>5 DEF ImageOf, Ask
      <4> QED
        BY <3>1, <3>2, <3>3, <4>1 DEF ImageOf, Answers
    <3>6. CASE srv[c].at = "refused"
      BY <3>1, <3>2, <3>3, <3>6 DEF ImageOf, Answers
    <3> QED
      BY <3>3, <3>4, <3>5, <3>6 DEF Ended
  <2> QED
    BY <2>1 DEF ImageWhole
<1> QED
  BY <1>1, ToolInvariant, PTL

(* An answer of the hash server is about one request, later than those       *)
(* answered before, whatever failed.  While no call fails for the client its *)
(* hash is of the file it names, and of no file if it names none, for all    *)
(* that earlier requests have left in the buffers.                           *)
THEOREM AnswersOfOneFile == Spec => []AnswerOfOneFile
<1>1. ASSUME ToolInv
      PROVE  AnswerOfOneFile
  <2>1. ASSUME program = "hash", NEW c \in Clients, NEW i \in DOMAIN Answers(c)
        PROVE  LET request == Answers(c)[i].type[2]
                   hash == Answers(c)[i].hash
               IN  /\ Answers(c)[i].type[1] = 2
                   /\ \A j \in 1..i - 1 : Answers(c)[j].type[2][1][1] < request[1][1]
                   /\ failures[c] = 0 =>
                         IF Is("file", request) THEN hash = <<1, request, "cut">>
                         ELSE hash[1] # 1
    <3>1. Grows(c) /\ Right(c)
      BY <1>1, <2>1 DEF ToolInv, Hashed
    <3>2. i \in 1..Len(Answers(c))
      BY <1>1, <2>1, Answered DEF ToolInv
    <3>3. failures[c] = 0 => HashOf(Answers(c)[i].hash, Answers(c)[i].type[2])
      BY <3>1, <3>2 DEF Right
    <3> QED
      BY <3>1, <3>2, <3>3 DEF Grows, Number, HashOf, NoSum
  <2> QED
    BY <2>1 DEF AnswerOfOneFile
<1> QED
  BY <1>1, ToolInvariant, PTL
=============================================================================
