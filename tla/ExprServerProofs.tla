-------------------------- MODULE ExprServerProofs --------------------------
(* Proofs about BatchServer and ExprServer, for any number of clients,       *)
(* lines, failures and any size of a read.                                   *)
EXTENDS ExprServer, FiniteSetTheorems, SequenceTheorems,
        WellFoundedInduction, TLAPS

-----------------------------------------------------------------------------
(* Sequences *)

(* Two facts of the library, for the numbers they are needed for.            *)
LEMMA Assoc ==
    ASSUME NEW s \in Seq(Nat), NEW t \in Seq(Nat), NEW u \in Seq(Nat)
    PROVE  (s \o t) \o u = s \o (t \o u)
BY SMTT(30), ConcatAssociative

(* Two sequences one behind the other. *)
LEMMA Concat ==
    ASSUME NEW s \in Seq(Nat), NEW t \in Seq(Nat)
    PROVE  /\ s \o t \in Seq(Nat)
           /\ Len(s \o t) = Len(s) + Len(t)
           /\ \A i \in 1..Len(s) + Len(t) :
                 (s \o t)[i] = IF i <= Len(s) THEN s[i] ELSE t[i - Len(s)]
BY ConcatProperties

(* The larger, or the smaller, of two numbers. *)
LEMMA OfTwo ==
    ASSUME NEW m \in Nat, NEW n \in Nat
    PROVE  /\ Max({m, n}) = IF m >= n THEN m ELSE n
           /\ Min({m, n}) = IF m <= n THEN m ELSE n
BY DEF Max, Min

(* What a read takes, and what it leaves. *)
LEMMA Cut ==
    ASSUME NEW S, NEW s \in Seq(S), NEW k \in 0..Len(s)
    PROVE  /\ SubSeq(s, 1, k) \in Seq(S) /\ SubSeq(s, k + 1, Len(s)) \in Seq(S)
           /\ SubSeq(s, 1, k) \o SubSeq(s, k + 1, Len(s)) = s
           /\ Len(SubSeq(s, 1, k)) = k
           /\ Len(SubSeq(s, k + 1, Len(s))) = Len(s) - k
           /\ \A i \in 1..(Len(s) - k) : SubSeq(s, k + 1, Len(s))[i] = s[k + i]
<1>1. Len(s) \in Nat /\ \A i \in 1..Len(s) : s[i] \in S
  BY LenProperties, ElementOfSeq
<1>2. /\ SubSeq(s, k + 1, Len(s)) \in Seq(S)
      /\ Len(SubSeq(s, k + 1, Len(s)))
            = IF k + 1 <= Len(s) THEN Len(s) - (k + 1) + 1 ELSE 0
      /\ \A i \in 1..(Len(s) - (k + 1) + 1) :
            SubSeq(s, k + 1, Len(s))[i] = s[(k + 1) + i - 1]
  <2>1. \A i \in (k + 1)..Len(s) : s[i] \in S
    BY <1>1
  <2>2. k + 1 \in Int /\ Len(s) \in Int
    BY <1>1
  <2> QED
    BY <2>1, <2>2, SubSeqProperties
<1>3. /\ SubSeq(s, 1, k) \in Seq(S)
      /\ Len(SubSeq(s, 1, k)) = IF 1 <= k THEN k - 1 + 1 ELSE 0
  <2>1. \A i \in 1..k : s[i] \in S
    BY <1>1
  <2> QED
    BY <1>1, <2>1, SubSeqProperties
<1>4. SubSeq(s, 1, k) \o SubSeq(s, k + 1, Len(s)) = SubSeq(s, 1, Len(s))
  <2>1. 1 \in 1..(Len(s) + 1) /\ k \in (1 - 1)..Len(s) /\ Len(s) \in k..Len(s)
    BY <1>1
  <2> QED
    BY <2>1, ConcatAdjacentSubSeq
<1>5. SubSeq(s, 1, Len(s)) = s
  BY SubSeqFull
<1>6. Len(s) - (k + 1) + 1 = Len(s) - k
  BY <1>1
<1>7. \A i \in 1..(Len(s) - k) : (k + 1) + i - 1 = k + i
  BY <1>1
<1>8. \A i \in 1..(Len(s) - k) : SubSeq(s, k + 1, Len(s))[i] = s[k + i]
  BY <1>2, <1>6, <1>7
<1>9. Len(SubSeq(s, k + 1, Len(s))) = Len(s) - k
  BY <1>1, <1>2
<1>10. Len(SubSeq(s, 1, k)) = k
  BY <1>1, <1>3
<1> QED
  BY <1>2, <1>3, <1>4, <1>5, <1>8, <1>9, <1>10

(* Appending to the second of two sequences appends to both.                 *)
LEMMA AppendConcat ==
    ASSUME NEW s \in Seq(Nat), NEW t \in Seq(Nat), NEW e \in Nat
    PROVE  Append(s \o t, e) = s \o Append(t, e)
<1>1. s \o t \in Seq(Nat) /\ <<e>> \in Seq(Nat)
  BY ConcatProperties
<1>2. Append(s \o t, e) = (s \o t) \o <<e>> /\ Append(t, e) = t \o <<e>>
  BY <1>1, AppendIsConcat
<1> QED
  BY <1>1, <1>2, ConcatAssociative

-----------------------------------------------------------------------------
(* pr_6/solution *)

ChildStates == {"none", "refused", "poll", "batch", "wait", "close", "exited", "reaped"}

BatchTypes ==
    /\ child \in [Clients -> ChildStates]
    /\ wrote \in [Clients -> Nat] /\ peak \in Nat
    /\ wire \in [Clients -> Seq(Nat)]
    /\ expressions \in [Clients -> Seq(Nat)]
    /\ pushed \in [Clients -> Seq(Nat)]
    /\ given \in [Clients -> Seq(Nat)]

(* p was collected and w is on its way, of n lines; "close" is the last.     *)
Ascending(p, w, n) ==
    /\ \A i \in 1..Len(w) : w[i] <= n
    /\ \A i \in 1..Len(p) : p[i] <= n
    /\ \A i, j \in 1..Len(w) : i < j /\ w[j] # 0 => w[i] < w[j]
    /\ \A i \in 1..Len(p), j \in 1..Len(w) : w[j] # 0 => p[i] < w[j]
    /\ \A i, j \in 1..Len(p) : i < j => p[i] < p[j]

BatchOrder == \A c \in Clients : Ascending(pushed[c], wire[c], wrote[c])

(* The connections not accepted yet are of clients without a child.          *)
Queued ==
    /\ client \in [Clients -> {"start", "open", "closed"}]
    /\ backlog \in Seq(Clients)
    /\ \A i, j \in 1..Len(backlog) : i # j => backlog[i] # backlog[j]
    /\ \A i \in 1..Len(backlog) :
          child[backlog[i]] = "none" /\ client[backlog[i]] # "start"
    /\ \A c \in Clients : client[c] = "start" => child[c] = "none"
    /\ pc \in {"stdin", "accept"} /\ "listen" \in revents => backlog # <<>>
    /\ pc = "accept" => "listen" \in revents

BatchInv == BatchTypes /\ Queued /\ GivenOnce /\ BatchOrder /\ ZombiesBounded

(* A read takes lines away from the front. *)
LEMMA AscendingCut ==
    ASSUME NEW p \in Seq(Nat), NEW w \in Seq(Nat), NEW n \in Nat,
           Ascending(p, w, n), NEW k \in 0..Len(w)
    PROVE  Ascending(p, SubSeq(w, k + 1, Len(w)), n)
<1> DEFINE v == SubSeq(w, k + 1, Len(w))
<1>1. /\ Len(v) = Len(w) - k /\ Len(w) \in Nat
      /\ \A i \in 1..Len(v) : v[i] = w[k + i]
  BY Cut, LenProperties
<1>2. /\ \A i \in 1..Len(v) : k + i \in 1..Len(w)
      /\ \A i, j \in 1..Len(v) : i < j => k + i < k + j
  BY <1>1
<1> HIDE DEF v
<1> QED
  BY <1>1, <1>2 DEF Ascending, v

(* And keeps the first. *)
LEMMA AscendingTake ==
    ASSUME NEW p \in Seq(Nat), NEW w \in Seq(Nat), NEW n \in Nat,
           Ascending(p, w, n), NEW k \in 1..Len(w), w[1] # 0
    PROVE  Ascending(Append(p, w[1]), SubSeq(w, k + 1, Len(w)), n)
<1> DEFINE v == SubSeq(w, k + 1, Len(w))
           q == Append(p, w[1])
<1>0. Len(w) \in Nat /\ k \in 0..Len(w) /\ 1 \in 1..Len(w)
  BY LenProperties
<1>1. /\ Len(v) = Len(w) - k
      /\ \A i \in 1..Len(v) : v[i] = w[k + i]
  BY ZenonT(60), <1>0, Cut
<1>2. \A i \in 1..Len(v) : k + i \in 1..Len(w) /\ 1 < k + i
  BY <1>0, <1>1
<1>3. /\ Len(p) \in Nat /\ Len(q) = Len(p) + 1
      /\ \A i \in 1..Len(p) : q[i] = p[i]
      /\ q[Len(p) + 1] = w[1]
  BY <1>0, AppendProperties, LenProperties, ElementOfSeq
<1>4. /\ \A i \in 1..Len(q) : i \in 1..Len(p) \/ i = Len(p) + 1
      /\ \A i, j \in 1..Len(q) : i < j => i \in 1..Len(p)
  BY <1>3
<1>5. Ascending(p, v, n)
  BY <1>0, AscendingCut
<1> HIDE DEF v, q
<1>6. /\ \A i \in 1..Len(p) : p[i] < w[1]
      /\ w[1] <= n
  BY <1>0 DEF Ascending
<1>7. \A i \in 1..Len(v) : v[i] # 0 => w[1] < v[i]
  BY <1>0, <1>1, <1>2 DEF Ascending
<1> QED
  BY <1>3, <1>4, <1>5, <1>6, <1>7 DEF Ascending, v, q

(* A client writes the next line, or "close". *)
LEMMA AscendingWrite ==
    ASSUME NEW p \in Seq(Nat), NEW w \in Seq(Nat), NEW n \in Nat,
           Ascending(p, w, n)
    PROVE  /\ Ascending(p, Append(w, n + 1), n + 1)
           /\ Ascending(p, Append(w, 0), n)
<1>1. ASSUME NEW e \in {0, n + 1}
      PROVE  /\ Len(w) \in Nat /\ Len(Append(w, e)) = Len(w) + 1
             /\ \A i \in 1..Len(w) : Append(w, e)[i] = w[i] /\ w[i] \in Nat
             /\ Append(w, e)[Len(w) + 1] = e
  BY AppendProperties, LenProperties, ElementOfSeq
<1>2. /\ \A i \in 1..(Len(w) + 1) : i \in 1..Len(w) \/ i = Len(w) + 1
      /\ \A i, j \in 1..(Len(w) + 1) : i < j => i \in 1..Len(w)
  BY SMTT(30), LenProperties
<1>3. \A i \in 1..Len(p) : p[i] \in Nat
  BY ElementOfSeq
<1>4. Ascending(p, Append(w, n + 1), n + 1)
  <2> DEFINE v == Append(w, n + 1)
  <2>1. /\ Len(v) = Len(w) + 1 /\ v[Len(w) + 1] = n + 1
        /\ \A i \in 1..Len(w) : v[i] = w[i] /\ w[i] \in Nat
    BY <1>1
  <2> HIDE DEF v
  <2> QED
    BY SMTT(30), <1>2, <1>3, <2>1 DEF Ascending, v
<1>5. Ascending(p, Append(w, 0), n)
  <2> DEFINE v == Append(w, 0)
  <2>1. /\ Len(v) = Len(w) + 1 /\ v[Len(w) + 1] = 0
        /\ \A i \in 1..Len(w) : v[i] = w[i] /\ w[i] \in Nat
    BY <1>1
  <2> HIDE DEF v
  <2> QED
    BY <1>2, <1>3, <2>1 DEF Ascending, v
<1> QED
  BY <1>4, <1>5

(* A step that gives nothing to python3 keeps GivenOnce. *)
LEMMA GivenFrame ==
    ASSUME GivenOnce, UNCHANGED <<pushed, given, expressions>>,
           \A c \in Clients : child'[c] = "wait" <=> child[c] = "wait"
    PROVE  GivenOnce'
BY DEF GivenOnce

(* The invariant of the batch server holds at the start. *)
LEMMA InitBatch == Init => BatchInv
<1> SUFFICES ASSUME Init PROVE BatchInv
  OBVIOUS
<1>1. BatchTypes
  BY EmptySeq DEF Init, BatchTypes, ChildStates
<1>2. GivenOnce
  <2>1. <<>> \o <<>> = <<>>
    BY ConcatEmptySeq, EmptySeq
  <2> QED
    BY <2>1 DEF Init, GivenOnce
<1>3. BatchOrder
  BY EmptySeq DEF Init, BatchOrder, Ascending
<1>4. ZombiesBounded
  <2>1. Alive \cup Zombies = {} /\ peak = 0 /\ pc = "poll"
    BY DEF Init, Alive, Zombies
  <2>2. Cardinality(Alive \cup Zombies) = 0
    BY <2>1, FS_EmptySet
  <2> QED
    BY <2>1, <2>2 DEF ZombiesBounded
<1>5. Queued
  BY EmptySeq DEF Init, Queued
<1> QED
  BY <1>1, <1>2, <1>3, <1>4, <1>5 DEF BatchInv

(* A read takes the first line and drops what came with it. *)
LEMMA ReadStep ==
    ASSUME BatchTypes, GivenOnce, BatchOrder, NEW c \in Clients, Read(c)
    PROVE  BatchTypes' /\ GivenOnce' /\ BatchOrder'
<1> DEFINE line == Head(wire[c])
           n == Len(wire[c])
<1>1. /\ wire[c] \in Seq(Nat) /\ n \in Nat /\ n >= 1
      /\ line = wire[c][1] /\ line \in Nat
      /\ expressions[c] \in Seq(Nat) /\ pushed[c] \in Seq(Nat)
      /\ given[c] \in Seq(Nat) /\ wrote[c] \in Nat
  BY SMTT(30), LenProperties, EmptySeq, ElementOfSeq DEF Read, BatchTypes
<1>2. PICK k \in 1..n : wire' = [wire EXCEPT ![c] = SubSeq(@, k + 1, Len(@))]
  <2>1. Min({ReadRoom, n}) \in 1..n
    <3>1. Min({ReadRoom, n}) = IF ReadRoom <= n THEN ReadRoom ELSE n
      BY <1>1, OfTwo, BatchServerAssumption
    <3> QED
      BY <1>1, <3>1, BatchServerAssumption
  <2>2. PICK k \in 1..Min({ReadRoom, n}) :
           wire' = [wire EXCEPT ![c] = SubSeq(@, k + 1, Len(@))]
    BY DEF Read
  <2>3. k \in 1..n
    BY <1>1, <2>1
  <2> QED
    BY <2>2, <2>3
<1>3. /\ wire'[c] = SubSeq(wire[c], k + 1, n) /\ wire'[c] \in Seq(Nat)
      /\ \A d \in Clients \ {c} : wire'[d] = wire[d]
  BY SMTT(30), <1>1, <1>2, Cut DEF BatchTypes
<1>4. wire' \in [Clients -> Seq(Nat)]
  BY <1>2, <1>3 DEF BatchTypes
<1>5. CASE line = CloseCommand
  <2>1. /\ child' = [child EXCEPT ![c] = "close"] /\ child[c] = "poll"
        /\ UNCHANGED <<expressions, pushed, given, wrote, peak>>
    BY <1>5 DEF Read, users
  <2>2. BatchTypes'
    BY <1>4, <2>1 DEF BatchTypes, ChildStates
  <2>3. GivenOnce'
    BY <2>1, GivenFrame DEF BatchTypes
  <2>4. BatchOrder'
    <3>1. Ascending(pushed[c], wire'[c], wrote[c])
      BY <1>1, <1>3, AscendingCut DEF BatchOrder
    <3>2. \A d \in Clients : Ascending(pushed[d], wire'[d], wrote[d])
      BY <1>3, <3>1 DEF BatchOrder
    <3> QED
      BY <2>1, <3>2 DEF BatchOrder, Ascending
  <2> QED
    BY <2>2, <2>3, <2>4
<1>6. CASE line # CloseCommand
  <2>1. /\ expressions' = [expressions EXCEPT ![c] = Append(@, line)]
        /\ pushed' = [pushed EXCEPT ![c] = Append(@, line)]
        /\ child[c] = "poll"
        /\ \E s \in {"poll", "batch"} : child' = [child EXCEPT ![c] = s]
        /\ UNCHANGED <<given, wrote, peak>>
    BY <1>6 DEF Read, users
  <2>2. BatchTypes'
    BY SMTT(30), <1>1, <1>4, <2>1, AppendProperties DEF BatchTypes, ChildStates
  <2>3. GivenOnce'
    <3>1. pushed[c] = given[c] \o expressions[c]
      BY <2>1 DEF GivenOnce
    <3>2. Append(pushed[c], line) = given[c] \o Append(expressions[c], line)
      <4>1. Append(given[c] \o expressions[c], line)
              = given[c] \o Append(expressions[c], line)
        BY <1>1, AppendConcat
      <4> QED
        BY <3>1, <4>1
    <3>3. /\ pushed'[c] = given'[c] \o expressions'[c] /\ child'[c] # "wait"
          /\ \A d \in Clients \ {c} :
               /\ pushed'[d] = pushed[d] /\ given'[d] = given[d]
               /\ expressions'[d] = expressions[d] /\ child'[d] = child[d]
      BY <2>1, <3>2 DEF BatchTypes
    <3> QED
      BY <3>3 DEF GivenOnce
  <2>4. BatchOrder'
    <3>1. /\ pushed'[c] = Append(pushed[c], wire[c][1]) /\ wrote' = wrote
          /\ \A d \in Clients \ {c} : pushed'[d] = pushed[d]
      BY <1>1, <2>1 DEF BatchTypes
    <3>2. Ascending(pushed'[c], wire'[c], wrote'[c])
      BY <1>1, <1>3, <1>6, <3>1, AscendingTake DEF BatchOrder, CloseCommand
    <3>3. \A d \in Clients \ {c} : Ascending(pushed'[d], wire'[d], wrote'[d])
      BY <1>3, <3>1 DEF BatchOrder
    <3> QED
      BY <3>2, <3>3 DEF BatchOrder, Ascending
  <2> QED
    BY <2>2, <2>3, <2>4
<1> QED
  BY <1>5, <1>6

(* The expressions go to a python3, and are cleared when it has ended.       *)
LEMMA PythonStep ==
    ASSUME BatchTypes, GivenOnce, NEW c \in Clients, StartPython(c) \/ EndPython(c)
    PROVE  BatchTypes' /\ GivenOnce'
<1>1. /\ given[c] \in Seq(Nat) /\ expressions[c] \in Seq(Nat)
      /\ given[c] \o expressions[c] \in Seq(Nat)
      /\ given[c] \o <<>> = given[c] /\ <<>> \in Seq(Nat)
  BY ConcatProperties, ConcatEmptySeq, EmptySeq DEF BatchTypes
<1>2. UNCHANGED <<wire, wrote, pushed, peak>>
  BY DEF StartPython, EndPython, users
<1>3. CASE EndPython(c)
  <2>1. /\ child[c] = "wait" /\ UNCHANGED given
        /\ expressions' = [expressions EXCEPT ![c] = <<>>]
        /\ child' = [child EXCEPT ![c] = "poll"]
    BY <1>3 DEF EndPython
  <2>2. BatchTypes'
    BY <1>1, <1>2, <2>1 DEF BatchTypes, ChildStates
  <2>3. /\ pushed[c] = given[c] \o expressions'[c] /\ child'[c] # "wait"
        /\ \A d \in Clients \ {c} :
              expressions'[d] = expressions[d] /\ child'[d] = child[d]
    BY <1>1, <2>1 DEF BatchTypes, GivenOnce
  <2> QED
    BY <1>2, <2>1, <2>2, <2>3 DEF GivenOnce
<1>4. CASE StartPython(c)
  <2>1. /\ child[c] = "batch" /\ UNCHANGED expressions
        /\ \/ /\ given' = [given EXCEPT ![c] = @ \o expressions[c]]
              /\ child' = [child EXCEPT ![c] = "wait"]
           \/ /\ \E place \in {"poll", "exited", "reaped"} :
                    child' = [child EXCEPT ![c] = place]
              /\ UNCHANGED given
    BY <1>4 DEF StartPython, ExitChild
  <2>2. BatchTypes'
    BY <1>1, <1>2, <2>1 DEF BatchTypes, ChildStates
  <2>3. \A d \in Clients \ {c} : given'[d] = given[d] /\ child'[d] = child[d]
    BY <2>1 DEF BatchTypes
  <2>4. pushed[c] = IF child'[c] = "wait" THEN given'[c]
                    ELSE given'[c] \o expressions[c]
    BY <2>1 DEF BatchTypes, GivenOnce
  <2> QED
    BY <1>2, <2>1, <2>2, <2>3, <2>4 DEF GivenOnce
<1> QED
  BY <1>3, <1>4

(* A client writes a line. *)
LEMMA WriteStep ==
    ASSUME BatchTypes, BatchOrder, NEW c \in Clients, WriteLine(c) \/ WriteClose(c)
    PROVE  BatchTypes' /\ BatchOrder'
<1>1. /\ wire[c] \in Seq(Nat) /\ pushed[c] \in Seq(Nat) /\ wrote[c] \in Nat
  BY DEF BatchTypes
<1>2. UNCHANGED <<child, expressions, pushed, given, peak>>
  BY DEF WriteLine, WriteClose
<1>3. CASE WriteLine(c)
  <2>1. /\ wrote' = [wrote EXCEPT ![c] = @ + 1]
        /\ wire' = [wire EXCEPT ![c] = Append(@, wrote[c] + 1)]
    BY <1>3 DEF WriteLine
  <2>2. BatchTypes'
    BY <1>1, <1>2, <2>1, AppendProperties DEF BatchTypes
  <2>3. Ascending(pushed[c], wire'[c], wrote'[c])
    BY <1>1, <2>1, AscendingWrite DEF BatchOrder, BatchTypes
  <2>4. \A d \in Clients : Ascending(pushed[d], wire'[d], wrote'[d])
    BY <2>1, <2>3 DEF BatchOrder, BatchTypes
  <2> QED
    BY <1>2, <2>2, <2>4 DEF BatchOrder, Ascending
<1>4. CASE WriteClose(c)
  <2>1. /\ wrote' = wrote /\ wire' = [wire EXCEPT ![c] = Append(@, 0)]
    BY <1>4 DEF WriteClose, CloseCommand
  <2>2. BatchTypes'
    BY <1>1, <1>2, <2>1, AppendProperties DEF BatchTypes
  <2>3. Ascending(pushed[c], wire'[c], wrote[c])
    BY <1>1, <2>1, AscendingWrite DEF BatchOrder, BatchTypes
  <2>4. \A d \in Clients : Ascending(pushed[d], wire'[d], wrote[d])
    BY <2>1, <2>3 DEF BatchOrder, BatchTypes
  <2> QED
    BY <1>2, <2>1, <2>2, <2>4 DEF BatchOrder, Ascending
<1> QED
  BY <1>3, <1>4

(* Steps that touch no line: of the parent, the keyboard, clients that come  *)
(* and go, children that end.                                                *)
OtherStep ==
    \/ Parent
    \/ \E c \in Clients : EndOfStream(c) \/ Close(c) \/ Connect(c) \/ Leave(c)
    \/ \E what \in Keyboard : TypeAtServer(what)

(* The steps that neither read nor run python3. *)
LEMMA OtherSteps ==
    ASSUME BatchTypes, Queued, GivenOnce, BatchOrder, OtherStep
    PROVE  BatchTypes' /\ GivenOnce' /\ BatchOrder'
<1>1. UNCHANGED <<wire, wrote, expressions, pushed, given>>
  BY DEF OtherStep, Parent, Poll, Quit, ReadStdin, Accept, Waitpid, EndOfStream,
         Close, Connect, Leave, TypeAtServer, users
<1>2. /\ child' \in [Clients -> ChildStates]
      /\ \A c \in Clients : child'[c] = "wait" <=> child[c] = "wait"
  <2>1. CASE Accept
    <3>1. backlog # <<>> /\ backlog \in Seq(Clients)
      BY <2>1 DEF Accept, Queued
    <3>2. Head(backlog) = backlog[1] /\ 1 \in 1..Len(backlog)
      BY <3>1, EmptySeq, LenProperties
    <3>3. child[Head(backlog)] = "none"
      BY <3>2 DEF Queued
    <3> QED
      BY <2>1, <3>3 DEF Accept, BatchTypes, ChildStates
  <2>2. CASE Parent /\ ~Accept
    BY <2>2 DEF Parent, Poll, Quit, ReadStdin, Waitpid, BatchTypes, ChildStates,
                Zombies
  <2>3. CASE ~Parent
    BY <2>3 DEF OtherStep, EndOfStream, Close, ExitChild, Connect, Leave, TypeAtServer,
                BatchTypes, ChildStates
  <2> QED
    BY <2>1, <2>2, <2>3
<1>3. peak' \in Nat
  <2>1. CASE Accept
    <3>1. Cardinality(Alive) \in Nat
      BY BatchServerAssumption, FS_Subset, FS_CardinalityType DEF Alive
    <3>2. Max({peak, Cardinality(Alive) + 1}) \in Nat
      BY <3>1, OfTwo DEF BatchTypes
    <3> QED
      BY <2>1, <3>2 DEF Accept, BatchTypes
  <2>2. CASE ~Accept
    BY <2>2 DEF OtherStep, Parent, Poll, Quit, ReadStdin, Waitpid, EndOfStream,
                Close, Connect, Leave, TypeAtServer, BatchTypes
  <2> QED
    BY <2>1, <2>2
<1>4. BatchTypes'
  BY <1>1, <1>2, <1>3 DEF BatchTypes
<1>5. GivenOnce'
  BY <1>1, <1>2, GivenFrame
<1>6. BatchOrder'
  BY <1>1 DEF BatchOrder, Ascending
<1> QED
  BY <1>4, <1>5, <1>6

-----------------------------------------------------------------------------
(* The backlog *)

(* A step that leaves the backlog alone, starts no child of a client without *)
(* one and turns no client back to the start.                                *)
LEMMA QueuedFrame ==
    ASSUME Queued, UNCHANGED backlog,
           client' \in [Clients -> {"start", "open", "closed"}],
           \A c \in Clients : child[c] = "none" => child'[c] = "none",
           \A c \in Clients : client'[c] = "start" => client[c] = "start",
           pc' \in {"stdin", "accept"} /\ "listen" \in revents' => backlog # <<>>,
           pc' = "accept" => "listen" \in revents'
    PROVE  Queued'
<1>1. \A i \in 1..Len(backlog) : backlog[i] \in Clients
  BY ElementOfSeq DEF Queued
<1> QED
  BY <1>1 DEF Queued

(* Who is accepted waits no longer. *)
LEMMA QueuedAccept ==
    ASSUME BatchTypes, Queued, Accept
    PROVE  Queued'
<1> DEFINE c == Head(backlog)
           n == Len(backlog)
<1>1. backlog # <<>> /\ backlog \in Seq(Clients)
  BY DEF Accept, Queued
<1>2. n \in Nat /\ n >= 1 /\ c = backlog[1] /\ c \in Clients
  BY <1>1, EmptySeq, LenProperties, ElementOfSeq
<1>3. /\ Tail(backlog) \in Seq(Clients) /\ Len(Tail(backlog)) = n - 1
      /\ \A i \in 1..(n - 1) : Tail(backlog)[i] = backlog[i + 1]
  BY <1>1, HeadTailProperties
<1>4. /\ \A i \in 1..(n - 1) : i + 1 \in 1..n /\ i + 1 # 1
      /\ 1 \in 1..n
      /\ \A i, j \in 1..(n - 1) : i # j => i + 1 # j + 1
  BY <1>2
<1>5. /\ backlog' = Tail(backlog) /\ pc' \in {"waitpid", "poll"}
      /\ \E s \in {"poll", "refused"} : child' = [child EXCEPT ![c] = s]
      /\ client' = client \/ client' = [client EXCEPT ![c] = "closed"]
  BY DEF Accept
<1>6. /\ \A d \in Clients \ {c} : child'[d] = child[d] /\ client'[d] = client[d]
      /\ client'[c] = client[c] \/ client'[c] = "closed"
      /\ client' \in [Clients -> {"start", "open", "closed"}]
  BY <1>2, <1>5 DEF BatchTypes, Queued
<1>7. client[c] # "start"
  BY <1>2, <1>4 DEF Queued
<1>8. \A i \in 1..(n - 1) : Tail(backlog)[i] \in Clients \ {c}
  BY <1>1, <1>2, <1>3, <1>4, ElementOfSeq DEF Queued
<1>9. \A d \in Clients : client'[d] = "start" => child'[d] = "none"
  BY <1>6, <1>7 DEF Queued
<1>10. \A i, j \in 1..(n - 1) : i # j => Tail(backlog)[i] # Tail(backlog)[j]
  BY <1>3, <1>4 DEF Queued
<1>11. \A i \in 1..(n - 1) : /\ child'[Tail(backlog)[i]] = "none"
                            /\ client'[Tail(backlog)[i]] # "start"
  BY <1>3, <1>4, <1>6, <1>8 DEF Queued
<1>12. backlog' \in Seq(Clients) /\ Len(backlog') = n - 1
  BY <1>3, <1>5
<1>13. \A i, j \in 1..Len(backlog') : i # j => backlog'[i] # backlog'[j]
  BY <1>5, <1>10, <1>12
<1>14. \A i \in 1..Len(backlog') :
          child'[backlog'[i]] = "none" /\ client'[backlog'[i]] # "start"
  BY <1>5, <1>11, <1>12
<1>15. pc' \notin {"stdin", "accept"}
  BY <1>5
<1> QED
  BY <1>6, <1>9, <1>12, <1>13, <1>14, <1>15 DEF Queued

(* A client that connects was not waiting before. *)
LEMMA QueuedConnect ==
    ASSUME BatchTypes, Queued, NEW c \in Clients, Connect(c)
    PROVE  Queued'
<1> DEFINE n == Len(backlog)
<1>1. /\ backlog' = Append(backlog, c) /\ UNCHANGED <<pc, revents, child>>
      /\ client[c] = "start" /\ client' = [client EXCEPT ![c] = "open"]
      /\ backlog \in Seq(Clients) /\ n \in Nat
  BY LenProperties DEF Connect, Queued, parent
<1>2. /\ backlog' \in Seq(Clients) /\ Len(backlog') = n + 1
      /\ \A i \in 1..n : backlog'[i] = backlog[i]
      /\ backlog'[n + 1] = c
  BY <1>1, AppendProperties
<1>3. \A i \in 1..(n + 1) : i \in 1..n \/ i = n + 1
  BY <1>1
<1>4. \A i \in 1..n : backlog[i] \in Clients \ {c}
  BY <1>1, ElementOfSeq DEF Queued
<1>5. /\ \A d \in Clients \ {c} : client'[d] = client[d]
      /\ client'[c] = "open"
      /\ client' \in [Clients -> {"start", "open", "closed"}]
  BY <1>1 DEF Queued
<1>6. child[c] = "none"
  BY <1>1 DEF Queued
<1>7. backlog' # <<>>
  BY <1>1, <1>2, EmptySeq
<1>8. \A d \in Clients : client'[d] = "start" => child'[d] = "none"
  BY <1>1, <1>5 DEF Queued
<1>9. \A i, j \in 1..(n + 1) : i # j => backlog'[i] # backlog'[j]
  BY <1>2, <1>3, <1>4 DEF Queued
<1>10. \A i \in 1..(n + 1) :
          child'[backlog'[i]] = "none" /\ client'[backlog'[i]] # "start"
  BY <1>1, <1>2, <1>3, <1>4, <1>5, <1>6 DEF Queued
<1> HIDE DEF n
<1> QED
  BY <1>1, <1>2, <1>5, <1>7, <1>8, <1>9, <1>10 DEF Queued

(* Every step keeps each client that waits in the backlog once. *)
LEMMA QueuedStep ==
    ASSUME BatchTypes, Queued, Next
    PROVE  Queued'
<1>1. CASE Accept
  BY <1>1, QueuedAccept
<1>2. CASE \E c \in Clients : Connect(c)
  BY <1>2, QueuedConnect
<1>3. CASE Poll \/ ReadStdin \/ Waitpid
  BY <1>3, QueuedFrame DEF Poll, ReadStdin, Waitpid, users, Zombies, Queued,
                           BatchTypes
<1>4. CASE Quit
  <2>1. /\ backlog' = <<>> /\ pc' = "done"
        /\ \A c \in Clients : client'[c] = "start" => client[c] = "start"
        /\ \A c \in Clients : child[c] = "none" => child'[c] = "none"
        /\ client' \in [Clients -> {"start", "open", "closed"}]
    BY <1>4 DEF Quit, Queued, Zombies
  <2>2. backlog' \in Seq(Clients) /\ Len(backlog') = 0
    BY <2>1, EmptySeq
  <2> QED
    BY <2>1, <2>2 DEF Queued
<1>5. CASE \E c \in Clients : Child(c)
  <2>1. UNCHANGED <<pc, revents, backlog, client>>
    BY <1>5 DEF Child, Read, EndOfStream, StartPython, EndPython, Close, ExitChild, parent, users
  <2>2. \A c \in Clients : child[c] = "none" => child'[c] = "none"
    BY <1>5 DEF Child, Read, EndOfStream, StartPython, EndPython, Close, ExitChild, BatchTypes
  <2> QED
    BY <2>1, <2>2, QueuedFrame DEF Queued
<1>6. CASE \E c \in Clients : WriteLine(c) \/ WriteClose(c) \/ Leave(c)
  <2>1. UNCHANGED <<pc, revents, backlog, child>>
    BY <1>6 DEF WriteLine, WriteClose, Leave, parent
  <2>2. client' = client
        \/ \E c \in Clients : client' = [client EXCEPT ![c] = "closed"]
    BY <1>6 DEF WriteLine, WriteClose, Leave
  <2>3. /\ \A c \in Clients : client'[c] = "start" => client[c] = "start"
        /\ client' \in [Clients -> {"start", "open", "closed"}]
    BY <2>2 DEF Queued
  <2> QED
    BY <2>1, <2>3, QueuedFrame DEF Queued
<1>7. CASE \E what \in Keyboard : TypeAtServer(what)
  <2>1. UNCHANGED <<pc, revents, backlog, child, client>>
    BY <1>7 DEF TypeAtServer, parent, users
  <2> QED
    BY <2>1, QueuedFrame DEF Queued
<1> QED
  BY <1>1, <1>2, <1>3, <1>4, <1>5, <1>6, <1>7 DEF Next, Parent, User

-----------------------------------------------------------------------------
(* The zombies *)

Unreaped == Alive \cup Zombies

(* Children and zombies can be counted. *)
LEMMA UnreapedFinite ==
    /\ IsFiniteSet(Alive) /\ IsFiniteSet(Unreaped)
    /\ Cardinality(Alive) \in Nat /\ Cardinality(Unreaped) \in Nat
BY BatchServerAssumption, FS_Subset, FS_CardinalityType
   DEF Alive, Zombies, Unreaped

(* One element more makes a set larger by one at most. *)
LEMMA OneMore ==
    ASSUME NEW S, NEW x, IsFiniteSet(S)
    PROVE  /\ IsFiniteSet(S \cup {x})
           /\ Cardinality(S \cup {x}) <= Cardinality(S) + 1
<1>1. Cardinality(S) \in Nat
  BY FS_CardinalityType
<1> QED
  BY <1>1, FS_AddElement

(* A step that brings nobody to life keeps the bound.                        *)
LEMMA ZombiesFrame ==
    ASSUME BatchTypes, ZombiesBounded, UNCHANGED peak,
           Unreaped' \subseteq Unreaped,
           pc = "waitpid" /\ Zombies # {} => pc' = "waitpid" /\ Zombies' # {}
    PROVE  ZombiesBounded'
<1> DEFINE extra == IF pc = "waitpid" /\ Zombies # {} THEN 1 ELSE 0
<1>1. Cardinality(Unreaped) <= peak + extra
  BY DEF ZombiesBounded, Unreaped
<1>2. /\ Cardinality(Unreaped') <= Cardinality(Unreaped)
      /\ Cardinality(Unreaped') \in Nat /\ Cardinality(Unreaped) \in Nat
  BY UnreapedFinite, FS_Subset, FS_CardinalityType
<1>3. extra \in Nat /\ extra' \in Nat /\ extra <= extra'
  OBVIOUS
<1>4. peak \in Nat /\ peak' = peak
  BY DEF BatchTypes
<1> HIDE DEF extra
<1>5. Cardinality(Unreaped') <= peak' + extra'
  BY <1>1, <1>2, <1>3, <1>4
<1> QED
  BY <1>5 DEF ZombiesBounded, Unreaped, extra

(* The child just forked is one more than were unreaped before it.  When no  *)
(* child was a zombie then all of them run, and peak counts them.            *)
LEMMA ZombiesAccept ==
    ASSUME BatchTypes, Queued, ZombiesBounded, Accept
    PROVE  ZombiesBounded'
<1> DEFINE c == Head(backlog)
<1>1. c \in Clients
  BY EmptySeq, LenProperties, ElementOfSeq DEF Accept, Queued
<1>2. Cardinality(Unreaped) <= peak /\ peak \in Nat /\ pc = "accept"
  BY DEF ZombiesBounded, Unreaped, Accept, BatchTypes
<1>3. CASE child' = [child EXCEPT ![c] = "refused"] /\ UNCHANGED peak
  <2>1. Unreaped' \subseteq Unreaped
    BY <1>1, <1>3 DEF Unreaped, Alive, Zombies, BatchTypes
  <2> QED
    BY <1>2, <1>3, <2>1, ZombiesFrame
<1>4. CASE /\ child' = [child EXCEPT ![c] = "poll"] /\ pc' = "waitpid"
           /\ peak' = Max({peak, Cardinality(Alive) + 1})
  <2>1. Unreaped' \subseteq Unreaped \cup {c} /\ Alive' \subseteq Alive \cup {c}
    BY <1>1, <1>4 DEF Unreaped, Alive, Zombies, BatchTypes
  <2>2. /\ peak' \in Nat /\ peak' >= peak
        /\ peak' >= Cardinality(Alive) + 1
    BY <1>2, <1>4, UnreapedFinite, OfTwo
  <2>3. /\ IsFiniteSet(Unreaped \cup {c}) /\ IsFiniteSet(Alive \cup {c})
        /\ Cardinality(Unreaped \cup {c}) <= Cardinality(Unreaped) + 1
        /\ Cardinality(Alive \cup {c}) <= Cardinality(Alive) + 1
    BY UnreapedFinite, OneMore
  <2>4. /\ Cardinality(Unreaped') <= Cardinality(Unreaped \cup {c})
        /\ Cardinality(Alive') <= Cardinality(Alive \cup {c})
        /\ Cardinality(Unreaped') \in Nat /\ Cardinality(Alive') \in Nat
        /\ Cardinality(Unreaped \cup {c}) \in Nat
        /\ Cardinality(Alive \cup {c}) \in Nat
    BY <2>1, <2>3, FS_Subset, FS_CardinalityType
  <2>5. CASE Zombies' = {}
    <3>1. Unreaped' = Alive'
      BY <2>5 DEF Unreaped
    <3>2. Cardinality(Unreaped') <= peak'
      BY <2>2, <2>3, <2>4, <3>1, UnreapedFinite
    <3> QED
      BY <2>2, <3>2, <2>5 DEF ZombiesBounded, Unreaped
  <2>6. CASE Zombies' # {}
    <3>1. Cardinality(Unreaped') <= peak' + 1
      BY <1>2, <2>2, <2>3, <2>4, UnreapedFinite
    <3> QED
      BY <1>4, <2>6, <3>1 DEF ZombiesBounded, Unreaped
  <2> QED
    BY <2>5, <2>6
<1> QED
  BY <1>3, <1>4 DEF Accept

(* The one waitpid after it reaps one zombie, if there is one.               *)
LEMMA ZombiesWaitpid ==
    ASSUME BatchTypes, ZombiesBounded, Waitpid
    PROVE  ZombiesBounded'
<1>1. pc = "waitpid" /\ pc' = "poll" /\ UNCHANGED peak /\ peak \in Nat
  BY DEF Waitpid, BatchTypes
<1>2. CASE Zombies = {} /\ UNCHANGED child
  BY <1>1, <1>2, ZombiesFrame DEF Unreaped, Alive, Zombies
<1>3. CASE \E c \in Zombies : child' = [child EXCEPT ![c] = "reaped"]
  <2>1. PICK c \in Zombies : child' = [child EXCEPT ![c] = "reaped"]
    BY <1>3
  <2>2. Unreaped' = Unreaped \ {c} /\ c \in Unreaped
    BY <2>1 DEF Unreaped, Alive, Zombies, BatchTypes
  <2>3. Cardinality(Unreaped') = Cardinality(Unreaped) - 1
    BY <2>2, UnreapedFinite, FS_RemoveElement
  <2>4. Cardinality(Unreaped) <= peak + 1
    BY <1>1 DEF ZombiesBounded, Unreaped
  <2>5. Cardinality(Unreaped') <= peak'
    BY <1>1, <2>3, <2>4, UnreapedFinite
  <2> QED
    BY <1>1, <2>5 DEF ZombiesBounded, Unreaped
<1> QED
  BY <1>2, <1>3 DEF Waitpid

(* Every step keeps the bound on zombies. *)
LEMMA ZombiesStep ==
    ASSUME BatchTypes, Queued, ZombiesBounded, Next
    PROVE  ZombiesBounded'
<1>1. CASE Accept
  BY <1>1, ZombiesAccept
<1>2. CASE Waitpid
  BY <1>2, ZombiesWaitpid
<1>3. CASE Quit
  BY <1>3, ZombiesFrame DEF Quit, Unreaped, Alive, Zombies
<1>4. CASE \E c \in Clients : Child(c)
  <2>1. PICK c \in Clients : Child(c)
    BY <1>4
  <2>2. UNCHANGED <<peak, pc>> /\ c \in Alive
    BY <2>1 DEF Child, Read, EndOfStream, StartPython, EndPython, Close, ExitChild, Alive, parent
  <2>3. \A d \in Clients \ {c} : child'[d] = child[d]
    BY <2>1 DEF Child, Read, EndOfStream, StartPython, EndPython, Close, ExitChild, BatchTypes
  <2>4. Unreaped' \subseteq Unreaped /\ Zombies \subseteq Zombies'
    BY <2>2, <2>3 DEF Unreaped, Alive, Zombies
  <2> QED
    BY <2>2, <2>4, ZombiesFrame
<1>5. CASE Poll \/ ReadStdin \/ User
  <2>1. UNCHANGED <<peak, child>> /\ (pc = "waitpid" => pc' = "waitpid")
    BY <1>5 DEF Poll, ReadStdin, User, Connect, WriteLine, WriteClose, Leave,
                TypeAtServer, parent
  <2> QED
    BY <2>1, ZombiesFrame DEF Unreaped, Alive, Zombies
<1> QED
  BY <1>1, <1>2, <1>3, <1>4, <1>5 DEF Next, Parent

-----------------------------------------------------------------------------
(* Together *)

(* Every step of the batch server keeps its invariant. *)
LEMMA BatchStep ==
    ASSUME BatchInv, [Next]_vars
    PROVE  BatchInv'
<1>0. BatchTypes /\ Queued /\ GivenOnce /\ BatchOrder /\ ZombiesBounded
  BY DEF BatchInv
<1>1. CASE Next
  <2>1. Queued' /\ ZombiesBounded'
    BY <1>0, <1>1, QueuedStep, ZombiesStep
  <2>2. BatchTypes' /\ GivenOnce' /\ BatchOrder'
    <3>1. CASE \E c \in Clients : Read(c)
      BY <1>0, <3>1, ReadStep
    <3>2. CASE \E c \in Clients : StartPython(c) \/ EndPython(c)
      <4>1. BatchTypes' /\ GivenOnce'
        BY <1>0, <3>2, PythonStep
      <4>2. UNCHANGED <<pushed, wire, wrote>>
        BY <3>2 DEF StartPython, EndPython, users
      <4> QED
        BY <1>0, <4>1, <4>2 DEF BatchOrder, Ascending
    <3>3. CASE \E c \in Clients : WriteLine(c) \/ WriteClose(c)
      <4>1. BatchTypes' /\ BatchOrder'
        BY <1>0, <3>3, WriteStep
      <4>2. UNCHANGED <<pushed, given, expressions, child>>
        BY <3>3 DEF WriteLine, WriteClose
      <4> QED
        BY <1>0, <4>1, <4>2, GivenFrame
    <3>4. CASE OtherStep
      BY <1>0, <3>4, OtherSteps
    <3> QED
      BY <1>1, <3>1, <3>2, <3>3, <3>4 DEF Next, Child, User, OtherStep
  <2> QED
    BY <2>1, <2>2 DEF BatchInv
<1>2. CASE UNCHANGED vars
  BY <1>2 DEF BatchInv, BatchTypes, Queued, GivenOnce, BatchOrder, Ascending,
              ZombiesBounded, Alive, Zombies, vars, parent, users
<1> QED
  BY <1>1, <1>2

-----------------------------------------------------------------------------
(* pr_6/socetHost.cpp *)

(* Of n lines, t was given to python3, l was received and w is on its way.   *)
Stream(t, l, w, n) ==
    t \o l \o w = [i \in 1..(2 * n) |-> i] /\ Len(t) % 2 = 0

(* All pieces of n lines, in order. *)
LEMMA Pieces ==
    ASSUME NEW n \in Nat
    PROVE  /\ [i \in 1..(2 * n) |-> i] \in Seq(Nat)
           /\ Len([i \in 1..(2 * n) |-> i]) = 2 * n
OBVIOUS

(* The least element is one of them. *)
LEMMA LeastIsOne ==
    ASSUME NEW T, T \subseteq Nat, T # {}
    PROVE  Min(T) \in T
<1> DEFINE R == {ss \in Nat \X Nat : ss[1] < ss[2]}
<1>1. IsWellFoundedOn(R, Nat)
  BY NatLessThanWellFounded, Zenon DEF OpToRel
<1>2. \A x, y \in Nat : x < y => <<x, y>> \in R
  OBVIOUS
<1> HIDE DEF R
<1>3. PICK x \in T : \A y \in T : <<y, x>> \notin R
  BY <1>1, WFMin
<1>4. x \in Nat /\ \A y \in T : y \in Nat /\ ~ (y < x)
  BY <1>2, <1>3
<1>5. \A y \in T : x <= y
  BY <1>4
<1> QED
  BY <1>5 DEF Min

(* recv moves pieces from the wire to the leftover. *)
LEMMA StreamRecv ==
    ASSUME NEW t \in Seq(Nat), NEW l \in Seq(Nat), NEW w \in Seq(Nat),
           NEW n \in Nat, Stream(t, l, w, n), NEW k \in 0..Len(w)
    PROVE  Stream(t, l \o SubSeq(w, 1, k), SubSeq(w, k + 1, Len(w)), n)
<1> DEFINE a == SubSeq(w, 1, k)
           b == SubSeq(w, k + 1, Len(w))
<1>1. a \in Seq(Nat) /\ b \in Seq(Nat) /\ a \o b = w
  BY Cut
<1>2. t \o (l \o a) = (t \o l) \o a
  BY <1>1, Assoc
<1>3. ((t \o l) \o a) \o b = (t \o l) \o (a \o b)
  <2>1. t \o l \in Seq(Nat)
    BY Concat
  <2> QED
    BY <1>1, <2>1, Assoc
<1> HIDE DEF a, b
<1>4. t \o (l \o a) \o b = t \o l \o w
  BY <1>1, <1>2, <1>3
<1>5. Stream(t, l \o a, b, n)
  BY <1>4 DEF Stream
<1> QED
  BY <1>5 DEF a, b

(* A whole line moves from the leftover to python3; it ends at an even place *)
(* of the stream.                                                            *)
LEMMA StreamTake ==
    ASSUME NEW t \in Seq(Nat), NEW l \in Seq(Nat), NEW w \in Seq(Nat),
           NEW n \in Nat, Stream(t, l, w, n), NEW e \in 1..Len(l), l[e] % 2 = 0
    PROVE  Stream(t \o SubSeq(l, 1, e), SubSeq(l, e + 1, Len(l)), w, n)
<1> DEFINE a == SubSeq(l, 1, e)
           b == SubSeq(l, e + 1, Len(l))
<1>0. Len(l) \in Nat /\ e \in 0..Len(l) /\ Len(t) \in Nat /\ Len(w) \in Nat
  BY LenProperties
<1>1. /\ a \in Seq(Nat) /\ b \in Seq(Nat) /\ a \o b = l /\ Len(a) = e
  BY <1>0, Cut
<1>2. /\ t \o l \in Seq(Nat) /\ Len(t \o l) = Len(t) + Len(l)
      /\ \A i \in 1..(Len(t) + Len(l)) :
            (t \o l)[i] = IF i <= Len(t) THEN t[i] ELSE l[i - Len(t)]
  BY Concat
<1>3. /\ Len((t \o l) \o w) = Len(t) + Len(l) + Len(w)
      /\ \A i \in 1..(Len(t) + Len(l) + Len(w)) :
            ((t \o l) \o w)[i] = IF i <= Len(t) + Len(l) THEN (t \o l)[i]
                                ELSE w[i - (Len(t) + Len(l))]
  BY <1>2, Concat
<1> HIDE DEF a, b
<1>4. (t \o a) \o b = t \o l
  BY ZenonT(60), <1>1, Assoc
<1>5. Len(t \o a) = Len(t) + e
  BY <1>1, Concat
<1>6. ((t \o l) \o w)[Len(t) + e] = l[e]
  BY <1>0, <1>2, <1>3
<1>7. Len(t) + Len(l) + Len(w) = 2 * n
  BY <1>3, Pieces DEF Stream
<1>8. Len(t) + e \in 1..(2 * n)
  BY <1>0, <1>7
<1>9. l[e] = Len(t) + e
  BY <1>6, <1>8 DEF Stream
<1>10. Len(t \o a) % 2 = 0
  BY <1>5, <1>9
<1>11. Stream(t \o a, b, w, n)
  BY <1>4, <1>10 DEF Stream
<1> QED
  BY <1>11 DEF a, b

(* A client sends a line, in two pieces. *)
LEMMA StreamSend ==
    ASSUME NEW t \in Seq(Nat), NEW l \in Seq(Nat), NEW w \in Seq(Nat),
           NEW n \in Nat, Stream(t, l, w, n)
    PROVE  Stream(t, l, w \o <<2 * n + 1, 2 * n + 2>>, n + 1)
<1> DEFINE x == <<2 * n + 1, 2 * n + 2>>
           p == [i \in 1..(2 * n) |-> i]
           q == [i \in 1..(2 * (n + 1)) |-> i]
<1>1. /\ x \in Seq(Nat) /\ Len(x) = 2 /\ x[1] = 2 * n + 1 /\ x[2] = 2 * n + 2
      /\ t \o l \in Seq(Nat)
  BY Concat
<1>2. /\ p \in Seq(Nat) /\ Len(p) = 2 * n
      /\ q \in Seq(Nat) /\ Len(q) = 2 * n + 2
  BY Pieces
<1>3. /\ \A i \in 1..(2 * n) : p[i] = i
      /\ \A i \in 1..(2 * n + 2) : q[i] = i
  OBVIOUS
<1>4. t \o l \o w = p /\ Len(t) % 2 = 0
  BY DEF Stream
<1> HIDE DEF x, p, q
<1>5. (t \o l) \o (w \o x) = p \o x
  BY ZenonT(60), <1>1, <1>4, Assoc
<1>6. /\ p \o x \in Seq(Nat) /\ Len(p \o x) = 2 * n + 2
      /\ \A i \in 1..(2 * n + 2) :
            (p \o x)[i] = IF i <= 2 * n THEN p[i] ELSE x[i - 2 * n]
  <2>1. /\ p \o x \in Seq(Nat)
        /\ Len(p \o x) = Len(p) + Len(x)
        /\ \A i \in 1..Len(p) + Len(x) :
              (p \o x)[i] = IF i <= Len(p) THEN p[i] ELSE x[i - Len(p)]
    BY <1>1, <1>2, Concat
  <2> QED
    BY <1>1, <1>2, <2>1
<1>7. \A i \in 1..(2 * n + 2) : (p \o x)[i] = q[i]
  <2>1. ASSUME NEW i \in 1..(2 * n + 2)
        PROVE  (p \o x)[i] = q[i]
    <3>1. CASE i <= 2 * n
      <4>1. i \in 1..(2 * n)
        BY <3>1
      <4> QED
        BY <1>3, <1>6, <3>1, <4>1
    <3>2. CASE i = 2 * n + 1
      <4>1. i - 2 * n = 1 /\ ~ (i <= 2 * n)
        BY <3>2
      <4> QED
        BY <1>1, <1>3, <1>6, <3>2, <4>1
    <3>3. CASE i = 2 * n + 2
      <4>1. i - 2 * n = 2 /\ ~ (i <= 2 * n)
        BY <3>3
      <4> QED
        BY <1>1, <1>3, <1>6, <3>3, <4>1
    <3>4. i <= 2 * n \/ i = 2 * n + 1 \/ i = 2 * n + 2
      OBVIOUS
    <3> QED
      BY <3>1, <3>2, <3>3, <3>4
  <2> QED
    BY <2>1
<1>8. p \o x = q
  BY <1>2, <1>6, <1>7, SeqEqual
<1>9. Stream(t, l, w \o x, n + 1)
  BY <1>4, <1>5, <1>8 DEF Stream, q
<1> QED
  BY <1>9 DEF x

LineTypes ==
    /\ BatchTypes
    /\ leftover \in [Clients -> Seq(Nat)] /\ taken \in [Clients -> Seq(Nat)]

(* What only pr_6/solution has is not touched. *)
Idle == \A c \in Clients : pushed[c] = given[c] \o expressions[c] /\ given[c] = pushed[c]

Streams == \A c \in Clients : Stream(taken[c], leftover[c], wire[c], wrote[c])

Signalled == Zombies # {} => sigchld \/ handler

LineInv == LineTypes /\ Idle /\ Streams /\ Signalled

(* Both invariants hold at the start. *)
LEMMA InitLine == LineInit => BatchInv /\ LineInv
<1> SUFFICES ASSUME LineInit PROVE BatchInv /\ LineInv
  OBVIOUS
<1>1. Init /\ BatchInv
  BY InitBatch DEF LineInit
<1>2. LineTypes
  BY <1>1, EmptySeq DEF LineInit, LineTypes, BatchInv
<1>3. Idle
  <2>1. <<>> \o <<>> = <<>>
    BY ConcatEmptySeq, EmptySeq
  <2> QED
    BY <1>1, <2>1 DEF Init, Idle
<1>4. Streams
  <2>1. <<>> \o <<>> \o <<>> = <<>>
    BY ConcatEmptySeq, EmptySeq
  <2>2. [i \in 1..(2 * 0) |-> i] = <<>>
    <3>1. /\ [i \in 1..(2 * 0) |-> i] \in Seq(Nat)
          /\ Len([i \in 1..(2 * 0) |-> i]) = 0
      BY Pieces
    <3> QED
      BY <3>1, EmptySeq
  <2>3. Len(<<>>) % 2 = 0
    BY EmptySeq
  <2>4. Stream(<<>>, <<>>, <<>>, 0)
    BY <2>1, <2>2, <2>3 DEF Stream
  <2> QED
    BY <1>1, <2>4 DEF Init, LineInit, Streams
<1>5. Signalled
  BY <1>1 DEF Init, Signalled, Zombies
<1> QED
  BY <1>1, <1>2, <1>3, <1>4, <1>5 DEF LineInv

LineStep == Run \/ (\E c \in Clients : LineChild(c)) \/ LineUser

(* What only the batch server uses does not change in the other. *)
LEMMA IdleStep ==
    ASSUME Idle, LineStep
    PROVE  UNCHANGED <<expressions, pushed, given, peak>> /\ Idle'
<1>1. UNCHANGED <<expressions, pushed, given, peak>>
  <2>1. CASE Run
    BY <2>1 DEF Run, AcceptLine, Deliver, ReapZombie, idle, vars
  <2>2. CASE \E c \in Clients : LineChild(c)
    BY <2>2 DEF LineChild, Recv, EndOfLines, NoLine, RunPython, PythonPrints,
                PythonEnds, HandlerReaps, WaitPython, CloseLine, idle, vars
  <2>3. CASE LineUser
    BY <2>3 DEF LineUser, SendMessage, ReceiveMessage, Connect, Leave, idle, vars
  <2> QED
    BY <2>1, <2>2, <2>3 DEF LineStep
<1> QED
  BY <1>1 DEF Idle

(* The types of the children in the line server. *)
LEMMA ChildStep ==
    ASSUME BatchTypes, LineStep
    PROVE  child' \in [Clients -> ChildStates]
<1>1. CASE Run
  BY <1>1 DEF Run, AcceptLine, Deliver, ReapZombie, vars, BatchTypes, ChildStates
<1>2. CASE \E c \in Clients : LineChild(c)
  BY ZenonT(60), <1>2 DEF LineChild, Recv, EndOfLines, NoLine, RunPython, EndChild, PythonPrints,
              PythonEnds, HandlerReaps, WaitPython, CloseLine, vars, BatchTypes,
              ChildStates
<1>3. CASE LineUser
  BY <1>3 DEF LineUser, SendMessage, ReceiveMessage, Connect, Leave, vars,
              BatchTypes
<1> QED
  BY <1>1, <1>2, <1>3 DEF LineStep

(* Every child that ends raises the signal, and the handler ends only when   *)
(* there is nothing to reap.                                                 *)
LEMMA SignalledStep ==
    ASSUME BatchTypes, Signalled, LineStep
    PROVE  Signalled'
<1>1. CASE Zombies' \subseteq Zombies /\ UNCHANGED <<sigchld, handler>>
  BY <1>1 DEF Signalled
<1>2. CASE sigchld' = TRUE \/ handler' = TRUE
  BY <1>2 DEF Signalled
<1>3. CASE Zombies' = {}
  BY <1>3 DEF Signalled
<1>4. CASE AcceptLine
  <2>1. Zombies' \subseteq Zombies
    BY <1>4 DEF AcceptLine, Zombies, BatchTypes
  <2> QED
    BY <1>1, <1>4, <2>1 DEF AcceptLine, only, signals
<1>5. CASE Deliver
  BY <1>2, <1>5 DEF Deliver
<1>6. CASE ReapZombie
  BY <1>1, <1>3, <1>6 DEF ReapZombie, Zombies, BatchTypes, signals
<1>7. CASE \E c \in Clients : LineChild(c)
  <2>1. PICK c \in Clients : LineChild(c)
    BY <1>7
  <2>2. CASE RunPython(c) \/ CloseLine(c)
    <3>1. CASE EndChild(c)
      BY <1>2, <3>1 DEF EndChild
    <3>2. CASE ~ EndChild(c)
      BY <1>1, <2>2, <3>2 DEF RunPython, CloseLine, Zombies, BatchTypes, signals
    <3> QED
      BY <3>1, <3>2
  <2>3. CASE Recv(c) \/ EndOfLines(c) \/ NoLine(c) \/ WaitPython(c)
    <3>1. Zombies' \subseteq Zombies
      BY <2>3 DEF Recv, EndOfLines, NoLine, WaitPython, Zombies, BatchTypes
    <3> QED
      BY <1>1, <2>3, <3>1 DEF Recv, EndOfLines, NoLine, WaitPython, only, signals
  <2>4. CASE PythonPrints(c) \/ PythonEnds(c) \/ HandlerReaps(c)
    BY <1>1, <2>4 DEF PythonPrints, PythonEnds, HandlerReaps, Zombies, signals, vars
  <2> QED
    BY <2>1, <2>2, <2>3, <2>4 DEF LineChild
<1>8. CASE LineUser
  BY <1>1, <1>8 DEF LineUser, SendMessage, ReceiveMessage, Connect, Leave, Zombies,
                    only, signals, vars
<1> QED
  BY <1>4, <1>5, <1>6, <1>7, <1>8 DEF LineStep, Run

(* The three steps that move pieces, of one client each. *)
LEMMA StreamsStep ==
    ASSUME LineTypes, Streams, LineStep
    PROVE  /\ wire' \in [Clients -> Seq(Nat)] /\ wrote' \in [Clients -> Nat]
           /\ leftover' \in [Clients -> Seq(Nat)] /\ taken' \in [Clients -> Seq(Nat)]
           /\ Streams'
<1>1. ASSUME NEW c \in Clients, Recv(c) \/ RunPython(c) \/ SendMessage(c),
             Stream(taken'[c], leftover'[c], wire'[c], wrote'[c]),
             wire' \in [Clients -> Seq(Nat)], wrote' \in [Clients -> Nat],
             leftover' \in [Clients -> Seq(Nat)], taken' \in [Clients -> Seq(Nat)]
      PROVE  Streams'
  <2>1. \A d \in Clients \ {c} : /\ taken'[d] = taken[d] /\ leftover'[d] = leftover[d]
                                /\ wire'[d] = wire[d] /\ wrote'[d] = wrote[d]
    BY <1>1 DEF Recv, RunPython, SendMessage, lines, LineTypes, BatchTypes
  <2>2. \A d \in Clients : Stream(taken'[d], leftover'[d], wire'[d], wrote'[d])
    BY <1>1, <2>1 DEF Streams
  <2> QED
    BY <2>2 DEF Streams, Stream
<1>2. ASSUME NEW c \in Clients
      PROVE  /\ taken[c] \in Seq(Nat) /\ leftover[c] \in Seq(Nat)
             /\ wire[c] \in Seq(Nat) /\ wrote[c] \in Nat
             /\ Stream(taken[c], leftover[c], wire[c], wrote[c])
  BY DEF LineTypes, BatchTypes, Streams
<1>3. CASE UNCHANGED <<wire, wrote, leftover, taken>>
  BY <1>3 DEF LineTypes, BatchTypes, Streams, Stream
<1>4. CASE \E c \in Clients : Recv(c)
  <2>1. PICK c \in Clients : Recv(c)
    BY <1>4
  <2>2. PICK k \in 1..Min({ReadRoom, Len(wire[c])}) :
           /\ wire' = [wire EXCEPT ![c] = SubSeq(@, k + 1, Len(@))]
           /\ leftover' = [leftover EXCEPT ![c] = @ \o SubSeq(wire[c], 1, k)]
    BY <2>1 DEF Recv
  <2>3. k \in 0..Len(wire[c])
    <3>1. Len(wire[c]) \in Nat
      BY <1>2, LenProperties
    <3>2. Min({ReadRoom, Len(wire[c])})
            = IF ReadRoom <= Len(wire[c]) THEN ReadRoom ELSE Len(wire[c])
      BY <3>1, OfTwo, BatchServerAssumption
    <3> QED
      BY <3>1, <3>2, BatchServerAssumption
  <2>4. UNCHANGED <<taken, wrote>>
    BY <2>1 DEF Recv
  <2>5. /\ SubSeq(wire[c], 1, k) \in Seq(Nat)
        /\ SubSeq(wire[c], k + 1, Len(wire[c])) \in Seq(Nat)
        /\ leftover[c] \o SubSeq(wire[c], 1, k) \in Seq(Nat)
    BY <1>2, <2>3, Cut, Concat
  <2>6. wire' \in [Clients -> Seq(Nat)] /\ leftover' \in [Clients -> Seq(Nat)]
    BY <2>2, <2>5 DEF LineTypes, BatchTypes
  <2>7. Stream(taken[c], leftover[c] \o SubSeq(wire[c], 1, k),
               SubSeq(wire[c], k + 1, Len(wire[c])), wrote[c])
    BY <1>2, <2>3, StreamRecv
  <2>8. Stream(taken'[c], leftover'[c], wire'[c], wrote'[c])
    BY <2>2, <2>4, <2>7 DEF LineTypes, BatchTypes
  <2> QED
    BY <1>1, <2>1, <2>4, <2>6, <2>8 DEF LineTypes, BatchTypes
<1>5. CASE \E c \in Clients : RunPython(c)
  <2>1. PICK c \in Clients : RunPython(c)
    BY <1>5
  <2>2. UNCHANGED <<wire, wrote>>
    BY <2>1 DEF RunPython
  <2>3. CASE UNCHANGED lines
    BY <1>3, <2>2, <2>3 DEF lines
  <2>4. CASE ~ UNCHANGED lines
    <3> DEFINE l == leftover[c]
               e == Min(Whole(c))
    <3>1. /\ leftover' = [leftover EXCEPT ![c] = SubSeq(l, e + 1, Len(l))]
          /\ taken' = [taken EXCEPT ![c] = @ \o SubSeq(l, 1, e)]
      BY <2>1, <2>4 DEF RunPython, LineTypes
    <3>2. l \in Seq(Nat) /\ Len(l) \in Nat /\ DOMAIN l = 1..Len(l)
      BY <1>2, LenProperties
    <3>3. e \in Whole(c)
      <4>1. Whole(c) # {} /\ Whole(c) \subseteq Nat
        BY <2>1, <3>2 DEF RunPython, Whole
      <4> QED
        BY <4>1, LeastIsOne
    <3>4. e \in 1..Len(l) /\ l[e] % 2 = 0
      BY <3>2, <3>3 DEF Whole
    <3>5. e \in 0..Len(l)
      BY <3>2, <3>4
    <3> HIDE DEF l, e
    <3>6. /\ SubSeq(l, 1, e) \in Seq(Nat) /\ SubSeq(l, e + 1, Len(l)) \in Seq(Nat)
          /\ taken[c] \o SubSeq(l, 1, e) \in Seq(Nat)
      BY <1>2, <3>2, <3>5, Cut, Concat
    <3>7. leftover' \in [Clients -> Seq(Nat)] /\ taken' \in [Clients -> Seq(Nat)]
      BY <3>1, <3>6 DEF LineTypes
    <3>8. Stream(taken[c], l, wire[c], wrote[c])
      BY <1>2 DEF l
    <3>9. Stream(taken[c] \o SubSeq(l, 1, e), SubSeq(l, e + 1, Len(l)), wire[c],
                 wrote[c])
      BY <1>2, <3>2, <3>4, <3>8, StreamTake
    <3>10. Stream(taken'[c], leftover'[c], wire'[c], wrote'[c])
      BY <2>2, <3>1, <3>9 DEF LineTypes
    <3> QED
      BY <1>1, <2>1, <2>2, <3>7, <3>10 DEF LineTypes, BatchTypes
  <2> QED
    BY <2>3, <2>4
<1>6. CASE \E c \in Clients : SendMessage(c)
  <2>1. PICK c \in Clients : SendMessage(c)
    BY <1>6
  <2> DEFINE x == <<2 * wrote[c] + 1, 2 * wrote[c] + 2>>
  <2>2. /\ wrote' = [wrote EXCEPT ![c] = @ + 1]
        /\ wire' = [wire EXCEPT ![c] = @ \o x]
        /\ UNCHANGED <<leftover, taken>>
    BY <2>1 DEF SendMessage, lines
  <2>3. Stream(taken[c], leftover[c], wire[c] \o x, wrote[c] + 1)
    BY <1>2, StreamSend
  <2>4. wire[c] \o x \in Seq(Nat) /\ wrote[c] + 1 \in Nat
    <3>1. x \in Seq(Nat)
      BY <1>2
    <3> QED
      BY <1>2, <3>1, Concat
  <2> HIDE DEF x
  <2>5. wire' \in [Clients -> Seq(Nat)] /\ wrote' \in [Clients -> Nat]
    BY <2>2, <2>4 DEF LineTypes, BatchTypes
  <2>6. Stream(taken'[c], leftover'[c], wire'[c], wrote'[c])
    BY <2>2, <2>3 DEF LineTypes, BatchTypes
  <2> QED
    BY <1>1, <2>1, <2>2, <2>5, <2>6 DEF LineTypes, BatchTypes
<1>7. CASE Run
  BY <1>3, <1>7 DEF Run, AcceptLine, Deliver, ReapZombie, vars, only, lines, users
<1>8. CASE \E c \in Clients :
             \/ EndOfLines(c) \/ NoLine(c) \/ PythonPrints(c) \/ PythonEnds(c)
             \/ HandlerReaps(c) \/ WaitPython(c) \/ CloseLine(c)
  BY <1>3, <1>8 DEF EndOfLines, NoLine, PythonPrints, PythonEnds, HandlerReaps,
                    WaitPython, CloseLine, vars, only, lines, users
<1>10. CASE \E c \in Clients : LineChild(c)
  <2>1. PICK c \in Clients : LineChild(c)
    BY <1>10
  <2> QED
    BY <1>4, <1>5, <1>8, <2>1 DEF LineChild
<1>9. CASE LineUser
  <2>1. \/ \E c \in Clients : SendMessage(c)
        \/ UNCHANGED <<wire, wrote, leftover, taken>>
    BY <1>9 DEF LineUser, ReceiveMessage, Connect, Leave, vars, only, lines, users
  <2> QED
    BY <1>3, <1>6, <2>1
<1> QED
  BY <1>7, <1>9, <1>10 DEF LineStep

(* Every step of the line server keeps its invariant. *)
LEMMA LineInvStep ==
    ASSUME LineInv, LineStep \/ UNCHANGED <<vars, only>>
    PROVE  LineInv'
<1>0. LineTypes /\ BatchTypes /\ Idle /\ Streams /\ Signalled
  BY DEF LineInv, LineTypes
<1>1. CASE LineStep
  <2>1. UNCHANGED <<expressions, pushed, given, peak>> /\ Idle'
    BY <1>0, <1>1, IdleStep
  <2>2. /\ wire' \in [Clients -> Seq(Nat)] /\ wrote' \in [Clients -> Nat]
        /\ leftover' \in [Clients -> Seq(Nat)] /\ taken' \in [Clients -> Seq(Nat)]
        /\ Streams'
    BY <1>0, <1>1, StreamsStep
  <2>3. child' \in [Clients -> ChildStates]
    BY <1>0, <1>1, ChildStep
  <2>4. Signalled'
    BY <1>0, <1>1, SignalledStep
  <2>5. LineTypes'
    BY <1>0, <2>1, <2>2, <2>3 DEF LineTypes, BatchTypes
  <2> QED
    BY <2>1, <2>2, <2>4, <2>5 DEF LineInv
<1>2. CASE UNCHANGED <<vars, only>>
  BY <1>2 DEF LineInv, LineTypes, BatchTypes, Idle, Streams, Stream, Signalled,
              Zombies, vars, only, lines, signals, users
<1> QED
  BY <1>1, <1>2

-----------------------------------------------------------------------------
(* Either program *)

ServerInv ==
    \/ program = "batch" /\ BatchInv
    \/ program = "line" /\ LineInv

(* Every step of either server keeps both. *)
LEMMA ServerStep ==
    ASSUME ServerInv, [LineNext]_allVars
    PROVE  ServerInv'
<1>1. CASE Batch(Next)
  <2>1. program = "batch" /\ Next /\ UNCHANGED program
    BY <1>1 DEF Batch
  <2> QED
    BY <2>1, BatchStep DEF ServerInv
<1>2. CASE program = "line" /\ LineStep /\ UNCHANGED program
  BY <1>2, LineInvStep DEF ServerInv
<1>3. CASE UNCHANGED allVars
  <2>1. UNCHANGED <<vars, only>> /\ UNCHANGED program
    BY <1>3 DEF allVars
  <2> QED
    BY <2>1, BatchStep, LineInvStep DEF ServerInv
<1> QED
  BY <1>1, <1>2, <1>3 DEF LineNext, Line, LineStep

(* The invariant of the two expression servers. *)
LEMMA ServerInvariance == LineSpec => []ServerInv
<1>1. LineInit => ServerInv
  BY InitLine DEF LineInit, ServerInv
<1>2. ServerInv /\ [LineNext]_allVars => ServerInv'
  BY ServerStep
<1> QED
  BY <1>1, <1>2, PTL DEF LineSpec

(* The batch server hands every line it collected to a python3 once and in   *)
(* order, whatever pipe and fork do.                                         *)
THEOREM LinesGivenOnce == LineSpec => []GivenOnce
<1>1. ServerInv => GivenOnce
  <2>1. BatchInv => GivenOnce
    BY DEF BatchInv
  <2>2. ASSUME LineInv PROVE GivenOnce
    <3>1. ASSUME NEW c \in Clients
          PROVE  /\ pushed[c] = given[c]
                 /\ pushed[c] = given[c] \o expressions[c]
      BY <2>2 DEF LineInv, Idle
    <3> QED
      BY <3>1 DEF GivenOnce
  <2> QED
    BY <2>1, <2>2 DEF ServerInv
<1> QED
  BY <1>1, ServerInvariance, PTL

(* Whatever a read returns, the batch server collects no line twice or out   *)
(* of order, and the line server loses none and hands over whole lines only. *)
THEOREM LinesKeptInOrder == LineSpec => []LinesInOrder
<1>1. ServerInv => LinesInOrder
  <2>1. ASSUME program = "batch", BatchInv
        PROVE  LinesInOrder
    <3>1. ASSUME NEW c \in Clients,
                 NEW i \in DOMAIN pushed[c], NEW j \in DOMAIN pushed[c], i < j
          PROVE  pushed[c][i] < pushed[c][j]
      <4>1. DOMAIN pushed[c] = 1..Len(pushed[c])
        BY <2>1, LenProperties DEF BatchInv, BatchTypes
      <4>2. Ascending(pushed[c], wire[c], wrote[c])
        BY <2>1 DEF BatchInv, BatchOrder
      <4> QED
        BY <3>1, <4>1, <4>2 DEF Ascending
    <3> QED
      BY <2>1, <3>1 DEF LinesInOrder, PushedInOrder
  <2>2. ASSUME program = "line", LineInv
        PROVE  LinesInOrder
    BY <2>2 DEF LinesInOrder, LineInv, Streams, Stream
  <2> QED
    BY <2>1, <2>2 DEF ServerInv
<1> QED
  BY <1>1, ServerInvariance, PTL

(* Neither server lets zombies pile up: one waitpid for each fork bounds     *)
(* them, and a merged SIGCHLD leaves none once its handler has run.          *)
THEOREM ZombiesReaped == LineSpec => []NoZombieStays
<1>1. ServerInv => NoZombieStays
  BY DEF ServerInv, BatchInv, LineInv, NoZombieStays, Signalled
<1> QED
  BY <1>1, ServerInvariance, PTL
=============================================================================
