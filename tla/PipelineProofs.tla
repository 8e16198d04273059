---------------------------- MODULE PipelineProofs ----------------------------
(* Proofs about Pipeline, for any number of rows and numbers, any filter,    *)
(* pipes of any capacity and any number of failed calls.                     *)
EXTENDS Pipeline, SequenceTheorems, TLAPS

-----------------------------------------------------------------------------
(* The invariant *)

Places == {"pipe", "fork", "close", "fdopen", "read", "wait", "done", "died"}
Up == {"forked", "running", "ending"}
Over == {"exited", "reaped"}
Past == {"ending"} \cup Over
ChildPlaces == {"none"} \cup Up \cup Over
Numbers == Seq(Nat)

Types ==
    /\ program \in Programs /\ pc \in Places
    /\ row \in 1..Rows /\ stage \in 0..3
    /\ holds \subseteq (Children \cup {Main}) \X Pipes \X {"r", "w"}
    /\ content \in [Pipes -> Seq(Numbers)]
    /\ prog \in [Children -> ChildPlaces]
    /\ printed \in [Children -> 0..N] /\ seen \in [Children -> Numbers]
    /\ out \in [Children -> Seq(Numbers)]
    /\ result \in [1..K -> Seq(Numbers)]
    /\ failures \in Nat /\ broken \subseteq Children
    /\ pc \in {"fdopen", "read"} => program = "cv_5" /\ stage = 3
    /\ pc = "pipe" => stage = 0
    /\ \A c \in Children : prog[c] # "none" => c[1] \in 1..Rows

(* The ends of the parent are those of the row it works on that a child      *)
(* still to be forked will use, or, at last, the one it reads totals from.   *)
MainHas(q, d) ==
    /\ q[1] = row
    /\ \/ pc \in {"fork", "close"} /\ d = "w" /\ q[2] >= stage
       \/ pc \in {"fork", "close"} /\ d = "r" /\ q[2] + 1 >= stage
       \/ pc \in {"fdopen", "read"} /\ d = "r" /\ q[2] = 3
Ends ==
    /\ \A q \in Pipes, d \in {"r", "w"} : <<Main, q, d>> \in holds <=> MainHas(q, d)
    /\ \A c \in Children, q \in Pipes, d \in {"r", "w"} :
          /\ prog[c] \in {"none"} \cup Over => <<c, q, d>> \notin holds
          /\ prog[c] \in {"running", "ending"} /\ <<c, q, d>> \in holds =>
                (d = "w" /\ q = c) \/ (d = "r" /\ q = In(c) /\ c[2] > 0)
    /\ \A c \in Children : prog[c] \in Up =>
          /\ c \in Pipes => <<c, c, "w">> \in holds
          /\ c[2] > 0 => <<c, In(c), "r">> \in holds

(* Which children have been forked. *)
Forked(c) ==
    \/ c[1] < row
    \/ c[1] = row /\ pc = "fork" /\ c[2] < stage
    \/ c[1] = row /\ pc = "close" /\ c[2] <= stage
    \/ c[1] = row /\ pc \in {"fdopen", "read"}
    \/ c[1] <= Rows /\ pc \in {"wait", "done"}
Started ==
    pc # "died" => \A c \in Children : prog[c] = "none" <=> ~Forked(c)

(* While nothing fails, a child is past its input only when the child before *)
(* it has written everything and exited.                                     *)
Ordered ==
    failures = 0 =>
        /\ pc # "died" /\ broken = {}
        /\ \A i \in 1..Rows :
              /\ \A j \in 1..3 : prog[<<i, j>>] \in Past =>
                    prog[<<i, j - 1>>] \in Over /\ content[<<i, j - 1>>] = <<>>
              /\ \A j \in 0..3 : prog[<<i, j>>] \in Over => out[<<i, j>>] = <<>>
              /\ prog[<<i, 0>>] \in Past => printed[<<i, 0>>] = N

(* The numbers 1 to p of a row in the places where they are on their way:    *)
(* s[1] to s[6] are the unwritten output and the pipe of gen, filter and     *)
(* transform, t is what sum has added; cut says where each place begins.     *)
Rising(s, numbers) ==
    /\ \A k \in 1..Len(s) : s[k] = <<s[k][1]>> /\ s[k][1] \in numbers
    /\ \A n \in numbers : \E k \in 1..Len(s) : s[k][1] = n
    /\ \A k, l \in 1..Len(s) : k < l => s[k][1] < s[l][1]
Passed(z) == IF z <= 2 THEN 1..N ELSE Kept
Cut(cut, p, s, t) ==
    /\ cut \in [0..6 -> 0..N] /\ cut[0] = p
    /\ \A z \in 1..6 : /\ cut[z] <= cut[z - 1]
                       /\ Rising(s[z], Passed(z) \cap ((cut[z] + 1)..cut[z - 1]))
    /\ Counts(t, Kept \cap (1..cut[6]))
Pieces(i) ==
    << out[<<i, 0>>], content[<<i, 0>>], out[<<i, 1>>], content[<<i, 1>>],
       out[<<i, 2>>], content[<<i, 2>>] >>
Flows ==
    failures = 0 => \A i \in 1..Rows :
        \E cut : Cut(cut, printed[<<i, 0>>], Pieces(i), seen[<<i, 3>>])

(* The total of a row is in one place, and none is there before sum has seen *)
(* the end of its input.                                                     *)
Totals(i) ==
    /\ prog[<<i, 3>>] \notin Past =>
          result[i] = <<>> /\ out[<<i, 3>>] = <<>>
          /\ (program = "cv_5" => content[<<i, 3>>] = <<>>)
    /\ prog[<<i, 3>>] \in Past =>
          LET total == <<seen[<<i, 3>>]>> IN
            \/ /\ out[<<i, 3>>] = total /\ result[i] = <<>>
               /\ program = "cv_5" => content[<<i, 3>>] = <<>>
            \/ /\ out[<<i, 3>>] = <<>> /\ result[i] = <<>>
               /\ program = "cv_5" /\ content[<<i, 3>>] = total
            \/ /\ out[<<i, 3>>] = <<>> /\ result[i] = total
               /\ program = "cv_5" => content[<<i, 3>>] = <<>>
Collects == failures = 0 => \A i \in 1..Rows : Totals(i)

(* The parent goes on only when sum has exited and its total is read.        *)
Drained ==
    failures = 0 =>
        /\ \A i \in 1..Rows : program = "cv_5" /\ (pc \in {"wait", "done"} \/ i < row) =>
              prog[<<i, 3>>] \in Over /\ content[<<i, 3>>] = <<>>
        /\ program = "pr_5" /\ pc = "done" => prog[<<1, 3>>] \in Over

PipeInv == Types /\ Ends /\ Started /\ Ordered /\ Drained /\ Flows /\ Collects

-----------------------------------------------------------------------------
(* Sequences *)

(* One more element at the end. *)
LEMMA Appended ==
    ASSUME NEW S, NEW s \in Seq(S), NEW e \in S
    PROVE  /\ Append(s, e) \in Seq(S) /\ Len(Append(s, e)) = Len(s) + 1 /\ Len(s) \in Nat
           /\ Append(s, e)[Len(s) + 1] = e
           /\ \A k \in 1..Len(s) : Append(s, e)[k] = s[k]
           /\ \A k \in 1..(Len(s) + 1) : k \in 1..Len(s) \/ k = Len(s) + 1
BY AppendProperties, LenProperties

(* The first element is taken. *)
LEMMA Shortened ==
    ASSUME NEW S, NEW s \in Seq(S), s # <<>>
    PROVE  /\ Tail(s) \in Seq(S) /\ Len(Tail(s)) = Len(s) - 1
           /\ Len(s) \in Nat /\ Len(s) >= 1
           /\ Head(s) = s[1] /\ 1 \in 1..Len(s) /\ s[1] \in S
           /\ \A k \in 1..(Len(s) - 1) : Tail(s)[k] = s[k + 1] /\ k + 1 \in 1..Len(s)
<1>1. /\ Tail(s) \in Seq(S) /\ Len(Tail(s)) = Len(s) - 1 /\ Head(s) = s[1]
      /\ \A k \in 1..(Len(s) - 1) : Tail(s)[k] = s[k + 1]
  BY HeadTailProperties
<1>2. Len(s) \in Nat /\ Len(s) # 0
  BY EmptySeq, LenProperties
<1>3. 1 \in 1..Len(s) /\ s[1] \in S
  BY <1>2, ElementOfSeq
<1> QED
  BY <1>1, <1>2, <1>3

-----------------------------------------------------------------------------
(* Numbers on their way *)

(* The first of the numbers between two cuts is taken: the cut moves behind  *)
(* it.                                                                       *)
LEMMA RisingTail ==
    ASSUME NEW s \in Seq(Numbers), s # <<>>, NEW P \in SUBSET Nat, NEW a \in Nat, NEW b \in Nat,
           Rising(s, P \cap ((a + 1)..b))
    PROVE  LET h == Head(s)[1] IN
             /\ h \in Nat /\ h \in P /\ a < h /\ h <= b /\ Head(s) = <<h>>
             /\ \A n \in P \cap ((a + 1)..h) : n = h
             /\ Tail(s) \in Seq(Numbers)
             /\ Rising(Tail(s), P \cap ((h + 1)..b))
<1> DEFINE h == s[1][1]
           X == P \cap ((a + 1)..b)
           t == Tail(s)
           m == Len(s)
<1>1. /\ t \in Seq(Numbers) /\ Len(t) = m - 1 /\ m \in Nat /\ m >= 1
      /\ Head(s) = s[1] /\ 1 \in 1..m
      /\ \A k \in 1..(m - 1) : t[k] = s[k + 1] /\ k + 1 \in 1..m
  BY Shortened
<1>2. /\ \A k \in 1..m : s[k] = <<s[k][1]>> /\ s[k][1] \in X
      /\ \A n \in X : \E k \in 1..m : s[k][1] = n
      /\ \A k, l \in 1..m : k < l => s[k][1] < s[l][1]
  BY DEF Rising
<1>3. h \in X /\ s[1] = <<h>>
  BY <1>1, <1>2
<1>4. h \in Nat /\ h \in P /\ a < h /\ h <= b
  BY <1>3
<1> HIDE DEF h, t, m
<1>5. \A k \in 2..m : h < s[k][1] /\ s[k][1] \in P \cap ((h + 1)..b)
  <2>1. ASSUME NEW k \in 2..m
        PROVE  h < s[k][1] /\ s[k][1] \in P \cap ((h + 1)..b)
    <3>1. k \in 1..m /\ 1 < k
      BY <1>1
    <3>2. h < s[k][1] /\ s[k][1] \in X
      BY <1>1, <1>2, <3>1 DEF h
    <3> QED
      BY <1>4, <3>2
  <2> QED
    BY <2>1
<1>6. \A n \in P \cap ((a + 1)..h) : n = h
  <2>1. ASSUME NEW n \in P \cap ((a + 1)..h)
        PROVE  n = h
    <3>1. n \in X /\ n <= h
      BY <1>4
    <3>2. PICK k \in 1..m : s[k][1] = n
      BY <1>2, <3>1
    <3>3. k = 1 \/ k \in 2..m
      BY <1>1
    <3>4. CASE k = 1
      BY <3>2, <3>4 DEF h
    <3>5. CASE k \in 2..m
      BY <1>4, <1>5, <3>1, <3>2, <3>5
    <3> QED
      BY <3>3, <3>4, <3>5
  <2> QED
    BY <2>1
<1>7. Rising(t, P \cap ((h + 1)..b))
  <2>1. ASSUME NEW k \in 1..Len(t)
        PROVE  t[k] = s[k + 1] /\ k + 1 \in 2..m /\ k + 1 \in 1..m
    BY <1>1
  <2>2. ASSUME NEW k \in 1..Len(t)
        PROVE  t[k] = <<t[k][1]>> /\ t[k][1] \in P \cap ((h + 1)..b)
    BY <1>2, <1>5, <2>1
  <2>3. ASSUME NEW n \in P \cap ((h + 1)..b)
        PROVE  \E k \in 1..Len(t) : t[k][1] = n
    <3>1. n \in X /\ n # h
      BY <1>4
    <3>2. PICK k \in 1..m : s[k][1] = n
      BY <1>2, <3>1
    <3>3. k # 1
      BY <3>1, <3>2 DEF h
    <3>4. k - 1 \in 1..Len(t) /\ (k - 1) + 1 = k
      BY <1>1, <3>3
    <3>5. t[k - 1] = s[k]
      BY <2>1, <3>4
    <3> QED
      BY <3>2, <3>4, <3>5
  <2>4. ASSUME NEW k \in 1..Len(t), NEW l \in 1..Len(t), k < l
        PROVE  t[k][1] < t[l][1]
    <3>1. k + 1 < l + 1
      BY <2>4
    <3> QED
      BY SMTT(30), <1>2, <2>1, <2>4, <3>1
  <2> QED
    BY <2>2, <2>3, <2>4 DEF Rising
<1> QED
  BY <1>1, <1>3, <1>4, <1>6, <1>7 DEF h, t

(* A number that belongs here comes: the cut moves behind it. *)
LEMMA RisingAppended ==
    ASSUME NEW s \in Seq(Numbers), NEW P \in SUBSET Nat,
           NEW a \in Nat, NEW b \in Nat, NEW h \in Nat,
           Rising(s, P \cap ((a + 1)..b)), a <= b, b < h, h \in P,
           \A n \in P \cap ((b + 1)..h) : n = h
    PROVE  /\ Append(s, <<h>>) \in Seq(Numbers)
           /\ Rising(Append(s, <<h>>), P \cap ((a + 1)..h))
<1> DEFINE t == Append(s, <<h>>)
           m == Len(s)
<1>1. <<h>> \in Numbers
  BY DEF Numbers
<1>2. /\ t \in Seq(Numbers) /\ Len(t) = m + 1 /\ m \in Nat /\ t[m + 1] = <<h>>
      /\ \A k \in 1..m : t[k] = s[k]
      /\ \A k \in 1..(m + 1) : k \in 1..m \/ k = m + 1
  BY <1>1, Appended
<1>3. /\ \A k \in 1..m : s[k] = <<s[k][1]>> /\ s[k][1] \in P \cap ((a + 1)..b)
      /\ \A n \in P \cap ((a + 1)..b) : \E k \in 1..m : s[k][1] = n
      /\ \A k, l \in 1..m : k < l => s[k][1] < s[l][1]
  BY DEF Rising
<1> HIDE DEF t, m
<1>4. /\ h \in P \cap ((a + 1)..h)
      /\ \A n \in P \cap ((a + 1)..b) : n \in P \cap ((a + 1)..h) /\ n < h
      /\ \A n \in P \cap ((a + 1)..h) : n \in P \cap ((a + 1)..b) \/ n = h
  <2>1. ASSUME NEW n \in P \cap ((a + 1)..h), ~(n <= b)
        PROVE  n = h
    <3>1. n \in P \cap ((b + 1)..h)
      BY <2>1
    <3> QED
      BY <3>1
  <2> QED
    BY <2>1
<1>5. ASSUME NEW k \in 1..Len(t)
      PROVE  t[k] = <<t[k][1]>> /\ t[k][1] \in P \cap ((a + 1)..h)
  <2>1. CASE k \in 1..m
    BY <1>2, <1>3, <1>4, <2>1
  <2>2. CASE k = m + 1
    BY <1>2, <1>4, <2>2
  <2> QED
    BY <1>2, <2>1, <2>2
<1>6. ASSUME NEW n \in P \cap ((a + 1)..h)
      PROVE  \E k \in 1..Len(t) : t[k][1] = n
  <2>1. CASE n \in P \cap ((a + 1)..b)
    <3>1. PICK k \in 1..m : s[k][1] = n
      BY <1>3, <2>1
    <3>2. k \in 1..Len(t) /\ t[k] = s[k]
      BY <1>2
    <3> QED
      BY <3>1, <3>2
  <2>2. CASE n = h
    <3>1. m + 1 \in 1..Len(t) /\ t[m + 1][1] = h
      BY <1>2
    <3> QED
      BY <2>2, <3>1
  <2> QED
    BY <1>4, <2>1, <2>2
<1>7. ASSUME NEW k \in 1..Len(t), NEW l \in 1..Len(t), k < l
      PROVE  t[k][1] < t[l][1]
  <2>1. k \in 1..m
    BY <1>2, <1>7
  <2>2. CASE l \in 1..m
    BY <1>2, <1>3, <1>7, <2>1, <2>2
  <2>3. CASE l = m + 1
    <3>1. t[l][1] = h /\ t[k] = s[k]
      BY <1>2, <2>1, <2>3
    <3> QED
      BY <1>3, <1>4, <2>1, <3>1
  <2> QED
    BY <1>2, <2>2, <2>3
<1> QED
  BY <1>2, <1>5, <1>6, <1>7 DEF Rising, t

(* A number that does not belong here is left out: the cut moves all the     *)
(* same.                                                                     *)
LEMMA RisingSkipped ==
    ASSUME NEW s, NEW P \in SUBSET Nat,
           NEW a \in Nat, NEW b \in Nat, NEW h \in Nat,
           Rising(s, P \cap ((a + 1)..b)), b < h, h \notin P,
           \A n \in P \cap ((b + 1)..h) : n = h
    PROVE  Rising(s, P \cap ((a + 1)..h))
<1>1. ASSUME NEW n \in P \cap ((a + 1)..h), ~(n <= b)
      PROVE  FALSE
  <2>1. n \in P \cap ((b + 1)..h)
    BY <1>1
  <2> QED
    BY <2>1
<1>2. P \cap ((a + 1)..h) = P \cap ((a + 1)..b)
  BY <1>1
<1> QED
  BY <1>2

(* A number is added to the total. *)
LEMMA CountsAppended ==
    ASSUME NEW t \in Numbers, NEW P \in SUBSET Nat, NEW b \in Nat, NEW h \in Nat,
           Counts(t, P \cap (1..b)), b < h, h \in P,
           \A n \in P \cap ((b + 1)..h) : n = h
    PROVE  t \o <<h>> \in Numbers /\ Counts(t \o <<h>>, P \cap (1..h))
<1> DEFINE u == Append(t, h)
           m == Len(t)
<1>0. t \o <<h>> = u
  BY AppendProperties DEF Numbers
<1>1. /\ u \in Numbers /\ Len(u) = m + 1 /\ m \in Nat /\ u[m + 1] = h
      /\ \A k \in 1..m : u[k] = t[k]
      /\ \A k \in 1..(m + 1) : k \in 1..m \/ k = m + 1
  BY Appended DEF Numbers
<1>2. DOMAIN t = 1..m /\ DOMAIN u = 1..(m + 1)
  BY <1>1, LenProperties DEF Numbers
<1>3. /\ \A k \in 1..m : t[k] \in P \cap (1..b)
      /\ \A n \in P \cap (1..b) : \E k \in 1..m : t[k] = n
      /\ \A k, l \in 1..m : k < l => t[k] < t[l]
  BY <1>2 DEF Counts
<1> HIDE DEF u, m
<1>4. /\ h \in P \cap (1..h)
      /\ \A n \in P \cap (1..b) : n \in P \cap (1..h) /\ n < h
      /\ \A n \in P \cap (1..h) : n \in P \cap (1..b) \/ n = h
  <2>1. ASSUME NEW n \in P \cap (1..h), ~(n <= b)
        PROVE  n = h
    <3>1. n \in P \cap ((b + 1)..h)
      BY <2>1
    <3> QED
      BY <3>1
  <2> QED
    BY <2>1
<1>5. \A k \in 1..(m + 1) : u[k] \in P \cap (1..h)
  BY <1>1, <1>3, <1>4
<1>6. ASSUME NEW n \in P \cap (1..h)
      PROVE  \E k \in 1..(m + 1) : u[k] = n
  <2>1. CASE n \in P \cap (1..b)
    <3>1. PICK k \in 1..m : t[k] = n
      BY <1>3, <2>1
    <3>2. k \in 1..(m + 1) /\ u[k] = t[k]
      BY <1>1
    <3> QED
      BY <3>1, <3>2
  <2>2. CASE n = h
    <3>1. m + 1 \in 1..(m + 1)
      BY <1>1
    <3> QED
      BY <1>1, <2>2, <3>1
  <2> QED
    BY <1>4, <2>1, <2>2
<1>7. ASSUME NEW k \in 1..(m + 1), NEW l \in 1..(m + 1), k < l
      PROVE  u[k] < u[l]
  <2>1. k \in 1..m
    BY <1>1, <1>7
  <2>2. CASE l \in 1..m
    BY <1>1, <1>3, <1>7, <2>1, <2>2
  <2>3. CASE l = m + 1
    BY <1>1, <1>3, <1>4, <2>1, <2>3
  <2> QED
    BY <1>1, <2>2, <2>3
<1>8. {u[k] : k \in 1..(m + 1)} \subseteq P \cap (1..h)
  BY <1>5
<1>9. P \cap (1..h) \subseteq {u[k] : k \in 1..(m + 1)}
  BY <1>6
<1>10. Counts(u, P \cap (1..h))
  BY <1>2, <1>7, <1>8, <1>9 DEF Counts
<1> QED
  BY <1>0, <1>1, <1>10


-----------------------------------------------------------------------------
(* The cut moves with the numbers *)

(* The numbers end at N. *)
LEMMA Limits == N \in Nat /\ Kept \in SUBSET Nat /\ \A n \in Kept : n <= N
BY PipelineAssumption

(* Which numbers get as far as each place. *)
LEMMA Kind == ASSUME NEW z \in 1..6 PROVE Passed(z) \in SUBSET Nat
BY Limits DEF Passed

(* A child that is no filter passes all on. *)
LEMMA SameKind == ASSUME NEW z \in {1, 3, 4, 5} PROVE Passed(z + 1) = Passed(z)
BY DEF Passed

(* gen makes all numbers. *)
LEMMA FirstKind == Passed(1) = 1..N
BY DEF Passed

(* Behind the filter are the kept ones. *)
LEMMA FilteredKind == Passed(3) = Kept /\ Kept \subseteq Passed(2) /\ Passed(6) = Kept
<1>1. Passed(3) = Kept /\ Passed(2) = 1..N /\ Passed(6) = Kept
  BY DEF Passed
<1>2. Kept \subseteq 1..N
  BY PipelineAssumption
<1> QED
  BY <1>1, <1>2

(* The places and those beside them. *)
LEMMA Indexes ==
    /\ \A y \in 1..6 : y \in 0..6 /\ y - 1 \in 0..6
    /\ \A z \in 1..5 : /\ z \in 0..6 /\ z \in 1..6 /\ z - 1 \in 0..6 /\ z + 1 \in 1..6
                       /\ z + 1 \in 0..6 /\ (z + 1) - 1 = z
OBVIOUS

(* The parts of Cut. *)
LEMMA CutFacts ==
    ASSUME NEW cut, NEW p, NEW s, NEW t, Cut(cut, p, s, t)
    PROVE  /\ cut[0] = p /\ Counts(t, Kept \cap (1..cut[6]))
           /\ \A y \in 0..6 : cut[y] \in Nat /\ cut[y] <= N
           /\ \A y \in 1..6 : /\ cut[y] <= cut[y - 1]
                              /\ Rising(s[y], Passed(y) \cap ((cut[y] + 1)..cut[y - 1]))
<1>1. cut \in [0..6 -> 0..N]
  BY DEF Cut
<1>2. ASSUME NEW y \in 0..6
      PROVE  cut[y] \in Nat /\ cut[y] <= N
  BY <1>1, Limits
<1> QED
  BY <1>2 DEF Cut

(* One of the cuts is moved. *)
LEMMA CutSet ==
    ASSUME NEW cut, NEW p, NEW s, NEW t, Cut(cut, p, s, t), NEW z \in 0..6, NEW h \in 0..N
    PROVE  LET new == [cut EXCEPT ![z] = h] IN
             /\ new \in [0..6 -> 0..N] /\ new[z] = h
             /\ \A y \in 0..6 : y # z => new[y] = cut[y]
<1>1. cut \in [0..6 -> 0..N]
  BY DEF Cut
<1> QED
  BY <1>1

(* The first number of place z moves on to the next place, or stays behind.  *)
Moved(s, u, z) ==
    /\ s \in [1..6 -> Seq(Numbers)] /\ u \in [1..6 -> Seq(Numbers)]
    /\ s[z] # <<>> /\ u[z] = Tail(s[z])
    /\ \A y \in 1..6 : y # z /\ y # z + 1 => u[y] = s[y]
    /\ \/ u[z + 1] = Append(s[z + 1], Head(s[z])) /\ (z = 2 => Head(s[z])[1] \in Kept)
       \/ u[z + 1] = s[z + 1] /\ z = 2 /\ Head(s[z])[1] \notin Kept

(* The parts of Moved. *)
LEMMA MovedFacts ==
    ASSUME NEW s, NEW u, NEW z \in 1..5, Moved(s, u, z)
    PROVE  /\ s[z] \in Seq(Numbers) /\ s[z] # <<>> /\ s[z + 1] \in Seq(Numbers)
           /\ u[z] = Tail(s[z])
           /\ \A y \in 1..6 : y = z \/ y = z + 1 \/ u[y] = s[y]
<1>1. z \in 1..6 /\ z + 1 \in 1..6
  BY Indexes
<1> QED
  BY <1>1 DEF Moved

(* The first of a place goes on to the next, and there are cuts as before. *)
LEMMA CutMoved ==
    ASSUME NEW cut, NEW p, NEW s, NEW t, Cut(cut, p, s, t), NEW z \in 1..5, NEW u, Moved(s, u, z)
    PROVE  \E new : Cut(new, p, u, t)
<1> DEFINE h == Head(s[z])[1]
           new == [cut EXCEPT ![z] = h]
<1>1. /\ cut[0] = p /\ Counts(t, Kept \cap (1..cut[6]))
      /\ \A y \in 0..6 : cut[y] \in Nat /\ cut[y] <= N
      /\ \A y \in 1..6 : /\ cut[y] <= cut[y - 1]
                         /\ Rising(s[y], Passed(y) \cap ((cut[y] + 1)..cut[y - 1]))
  BY CutFacts
<1>2. /\ z \in 0..6 /\ z \in 1..6 /\ z - 1 \in 0..6 /\ z + 1 \in 1..6 /\ z + 1 \in 0..6
      /\ (z + 1) - 1 = z
  BY Indexes
<1>3. /\ cut[z] \in Nat /\ cut[z - 1] \in Nat /\ cut[z - 1] <= N /\ cut[z + 1] \in Nat
  BY <1>1, <1>2
<1>4. Passed(z) \in SUBSET Nat /\ Passed(z + 1) \in SUBSET Nat
  BY <1>2, Kind
<1>5. /\ s[z] \in Seq(Numbers) /\ s[z] # <<>> /\ s[z + 1] \in Seq(Numbers)
      /\ u[z] = Tail(s[z])
      /\ \A y \in 1..6 : y = z \/ y = z + 1 \/ u[y] = s[y]
  BY MovedFacts
<1>6. \/ u[z + 1] = Append(s[z + 1], Head(s[z])) /\ (z = 2 => Head(s[z])[1] \in Kept)
      \/ u[z + 1] = s[z + 1] /\ z = 2 /\ Head(s[z])[1] \notin Kept
  BY DEF Moved
<1>7. Rising(s[z], Passed(z) \cap ((cut[z] + 1)..cut[z - 1]))
  BY <1>1, <1>2
<1>8. /\ h \in Nat /\ h \in Passed(z) /\ cut[z] < h /\ h <= cut[z - 1] /\ Head(s[z]) = <<h>>
      /\ \A n \in Passed(z) \cap ((cut[z] + 1)..h) : n = h
      /\ Rising(Tail(s[z]), Passed(z) \cap ((h + 1)..cut[z - 1]))
  BY <1>3, <1>4, <1>5, <1>7, RisingTail
<1> HIDE DEF h
<1>9. h \in 0..N
  BY <1>3, <1>8, Limits
<1>10. /\ new \in [0..6 -> 0..N] /\ new[z] = h
       /\ \A y \in 0..6 : y # z => new[y] = cut[y]
  BY <1>2, <1>9, CutSet
<1> HIDE DEF new
<1>11. /\ cut[z + 1] <= cut[z]
       /\ Rising(s[z + 1], Passed(z + 1) \cap ((cut[z + 1] + 1)..cut[z]))
  BY <1>1, <1>2
<1>12. cut[z + 1] <= h
  BY <1>3, <1>8, <1>11
<1>13. Passed(z + 1) \subseteq Passed(z) /\ (z # 2 => Passed(z + 1) = Passed(z))
       /\ (z = 2 => Passed(z + 1) = Kept)
  <2>1. CASE z = 2
    BY <2>1, FilteredKind
  <2>2. CASE z # 2
    <3>1. z \in {1, 3, 4, 5}
      BY <2>2
    <3> QED
      BY <2>2, <3>1, SameKind
  <2> QED
    BY <2>1, <2>2
<1>14. \A n \in Passed(z + 1) \cap ((cut[z] + 1)..h) : n = h
  BY <1>8, <1>13
<1>15. Rising(u[z + 1], Passed(z + 1) \cap ((cut[z + 1] + 1)..h))
  <2>1. CASE u[z + 1] = Append(s[z + 1], Head(s[z])) /\ (z = 2 => h \in Kept)
    <3>1. h \in Passed(z + 1)
      BY <1>8, <1>13, <2>1
    <3>2. Rising(Append(s[z + 1], <<h>>), Passed(z + 1) \cap ((cut[z + 1] + 1)..h))
      BY <1>3, <1>4, <1>5, <1>8, <1>11, <1>14, <3>1, RisingAppended
    <3> QED
      BY <1>8, <2>1, <3>2
  <2>2. CASE u[z + 1] = s[z + 1] /\ z = 2 /\ h \notin Kept
    <3>1. h \notin Passed(z + 1)
      BY <1>13, <2>2
    <3>2. Rising(s[z + 1], Passed(z + 1) \cap ((cut[z + 1] + 1)..h))
      BY <1>3, <1>4, <1>8, <1>11, <1>14, <3>1, RisingSkipped
    <3> QED
      BY <2>2, <3>2
  <2> QED
    BY <1>6, <2>1, <2>2 DEF h
<1>16. ASSUME NEW y \in 1..6
       PROVE  /\ new[y] <= new[y - 1]
              /\ Rising(u[y], Passed(y) \cap ((new[y] + 1)..new[y - 1]))
  <2>1. y \in 0..6 /\ y - 1 \in 0..6 /\ z \in Nat
    BY Indexes
  <2>2. CASE y = z
    <3>1. y - 1 # z
      BY <2>1, <2>2
    <3>2. new[y - 1] = cut[y - 1] /\ new[y] = h
      BY <1>10, <2>1, <2>2, <3>1
    <3> QED
      BY <1>5, <1>8, <2>2, <3>2
  <2>3. CASE y = z + 1
    <3>1. y # z /\ y - 1 = z
      BY <1>2, <2>1, <2>3
    <3>2. new[y - 1] = h /\ new[y] = cut[z + 1]
      BY <1>10, <2>1, <2>3, <3>1
    <3> QED
      BY <1>12, <1>15, <2>3, <3>2
  <2>4. CASE y # z /\ y # z + 1
    <3>1. y - 1 # z
      BY <2>1, <2>4
    <3>2. new[y] = cut[y] /\ new[y - 1] = cut[y - 1] /\ u[y] = s[y]
      BY <1>5, <1>10, <2>1, <2>4, <3>1
    <3> QED
      BY <1>1, <3>2
  <2> QED
    BY <2>2, <2>3, <2>4
<1>17. new[0] = p /\ new[6] = cut[6]
  <2>1. 0 \in 0..6 /\ 6 \in 0..6 /\ 0 # z /\ 6 # z
    OBVIOUS
  <2> QED
    BY <1>1, <1>10, <2>1
<1> QED
  BY <1>1, <1>10, <1>16, <1>17 DEF Cut

(* gen prints the next number. *)
LEMMA CutPrinted ==
    ASSUME NEW cut, NEW p \in 0..N, p < N, NEW s, s[1] \in Seq(Numbers), NEW t,
           Cut(cut, p, s, t), NEW u,
           u[1] = Append(s[1], <<p + 1>>), \A y \in 2..6 : u[y] = s[y]
    PROVE  \E new : Cut(new, p + 1, u, t)
<1> DEFINE new == [cut EXCEPT ![0] = p + 1]
<1>1. /\ cut[0] = p /\ Counts(t, Kept \cap (1..cut[6]))
      /\ \A y \in 0..6 : cut[y] \in Nat /\ cut[y] <= N
      /\ \A y \in 1..6 : /\ cut[y] <= cut[y - 1]
                         /\ Rising(s[y], Passed(y) \cap ((cut[y] + 1)..cut[y - 1]))
  BY CutFacts
<1>2. p + 1 \in 0..N /\ p \in Nat /\ p + 1 \in Nat /\ p < p + 1 /\ p + 1 \in 1..N
  BY Limits
<1>3. /\ new \in [0..6 -> 0..N] /\ new[0] = p + 1
      /\ \A y \in 0..6 : y # 0 => new[y] = cut[y]
  BY SMTT(30), <1>2, CutSet
<1> HIDE DEF new
<1>4. 1 \in 0..6 /\ 1 \in 1..6 /\ 1 - 1 = 0
  OBVIOUS
<1>5. cut[1] \in Nat /\ cut[1] <= p /\ Rising(s[1], Passed(1) \cap ((cut[1] + 1)..p))
  BY <1>1, <1>4
<1>6. Passed(1) \in SUBSET Nat /\ p + 1 \in Passed(1)
  BY <1>2, <1>4, FirstKind, Kind
<1>7. \A n \in Passed(1) \cap ((p + 1)..(p + 1)) : n = p + 1
  BY <1>2
<1>8. Rising(u[1], Passed(1) \cap ((cut[1] + 1)..(p + 1)))
  <2>1. Rising(Append(s[1], <<p + 1>>), Passed(1) \cap ((cut[1] + 1)..(p + 1)))
    BY <1>2, <1>5, <1>6, <1>7, RisingAppended
  <2> QED
    BY <2>1
<1>9. ASSUME NEW y \in 1..6
      PROVE  /\ new[y] <= new[y - 1]
             /\ Rising(u[y], Passed(y) \cap ((new[y] + 1)..new[y - 1]))
  <2>1. CASE y = 1
    <3>1. new[y] = cut[1] /\ new[y - 1] = p + 1
      BY <1>3, <1>4, <2>1
    <3>2. cut[1] <= p + 1
      BY <1>2, <1>5
    <3> QED
      BY <1>8, <2>1, <3>1, <3>2
  <2>2. CASE y \in 2..6
    <3>1. y - 1 \in 0..6 /\ y - 1 # 0 /\ y \in 0..6 /\ y # 0
      BY <2>2
    <3>2. new[y] = cut[y] /\ new[y - 1] = cut[y - 1] /\ u[y] = s[y]
      BY <1>3, <2>2, <3>1
    <3> QED
      BY <1>1, <3>2
  <2>3. y = 1 \/ y \in 2..6
    OBVIOUS
  <2> QED
    BY <2>1, <2>2, <2>3
<1>10. new[6] = cut[6]
  <2>1. 6 \in 0..6 /\ 6 # 0
    OBVIOUS
  <2> QED
    BY <1>3, <2>1
<1> QED
  BY <1>1, <1>3, <1>9, <1>10 DEF Cut

(* sum adds a number. *)
LEMMA CutAdded ==
    ASSUME NEW cut, NEW p, NEW s, s[6] \in Seq(Numbers), NEW t \in Numbers,
           Cut(cut, p, s, t), s[6] # <<>>, NEW u,
           u[6] = Tail(s[6]), \A y \in 1..5 : u[y] = s[y]
    PROVE  \E new : Cut(new, p, u, t \o Head(s[6]))
<1> DEFINE h == Head(s[6])[1]
           new == [cut EXCEPT ![6] = h]
<1>1. /\ cut[0] = p /\ Counts(t, Kept \cap (1..cut[6]))
      /\ \A y \in 0..6 : cut[y] \in Nat /\ cut[y] <= N
      /\ \A y \in 1..6 : /\ cut[y] <= cut[y - 1]
                         /\ Rising(s[y], Passed(y) \cap ((cut[y] + 1)..cut[y - 1]))
  BY CutFacts
<1>2. 6 \in 0..6 /\ 6 \in 1..6 /\ 5 \in 0..6 /\ 6 - 1 = 5
  OBVIOUS
<1>3. cut[5] \in Nat /\ cut[5] <= N /\ cut[6] \in Nat
  BY <1>1, <1>2
<1>4. Rising(s[6], Kept \cap ((cut[6] + 1)..cut[5]))
  BY <1>1, <1>2, FilteredKind
<1>5. /\ h \in Nat /\ h \in Kept /\ cut[6] < h /\ h <= cut[5] /\ Head(s[6]) = <<h>>
      /\ \A n \in Kept \cap ((cut[6] + 1)..h) : n = h
      /\ Rising(Tail(s[6]), Kept \cap ((h + 1)..cut[5]))
  BY <1>3, <1>4, Limits, RisingTail
<1> HIDE DEF h
<1>6. h \in 0..N
  BY <1>3, <1>5, Limits
<1>7. /\ new \in [0..6 -> 0..N] /\ new[6] = h
      /\ \A y \in 0..6 : y # 6 => new[y] = cut[y]
  BY <1>2, <1>6, CutSet
<1> HIDE DEF new
<1>8. Counts(t \o Head(s[6]), Kept \cap (1..h))
  BY <1>1, <1>3, <1>5, Limits, CountsAppended
<1>9. ASSUME NEW y \in 1..6
      PROVE  /\ new[y] <= new[y - 1]
             /\ Rising(u[y], Passed(y) \cap ((new[y] + 1)..new[y - 1]))
  <2>1. CASE y = 6
    <3>1. new[y - 1] = cut[5] /\ new[y] = h
      BY <1>2, <1>7, <2>1
    <3> QED
      BY <1>5, <2>1, <3>1, FilteredKind
  <2>2. CASE y \in 1..5
    <3>1. y - 1 \in 0..6 /\ y - 1 # 6 /\ y \in 0..6 /\ y # 6
      BY <2>2
    <3>2. new[y] = cut[y] /\ new[y - 1] = cut[y - 1] /\ u[y] = s[y]
      BY <1>7, <2>2, <3>1
    <3> QED
      BY <1>1, <3>2
  <2>3. y = 6 \/ y \in 1..5
    OBVIOUS
  <2> QED
    BY <2>1, <2>2, <2>3
<1>10. new[0] = p
  <2>1. 0 \in 0..6 /\ 0 # 6
    OBVIOUS
  <2> QED
    BY <1>1, <1>7, <2>1
<1> QED
  BY <1>7, <1>8, <1>9, <1>10 DEF Cut

-----------------------------------------------------------------------------
(* Types *)

(* How many rows and pipes each program has. *)
LEMMA Sizes ==
    ASSUME Types
    PROVE  /\ K \in Nat /\ K >= 1 /\ Rows \in 1..K /\ (program = "cv_5" => Rows = K)
           /\ program \in {"cv_5", "pr_5"} /\ PipeStages \in {0..3, 0..2}
           /\ (program = "cv_5" <=> 3 \in PipeStages)
           /\ Main \notin Children
BY PipelineAssumption DEF Types, Rows, PipeStages, Main, Children

(* Children and pipes by row and stage. *)
LEMMA Grid ==
    ASSUME Types
    PROVE  /\ \A c \in Children : c = <<c[1], c[2]>> /\ c[1] \in 1..K /\ c[2] \in 0..3
           /\ \A i \in 1..K, j \in 0..3 : <<i, j>> \in Children
           /\ \A q \in Pipes : /\ q = <<q[1], q[2]>> /\ q[1] \in 1..Rows /\ q[2] \in PipeStages
                               /\ q \in Children
           /\ \A i \in 1..Rows, j \in PipeStages : <<i, j>> \in Pipes
<1>1. Rows \in 1..K /\ K \in Nat /\ PipeStages \in {0..3, 0..2}
  BY Sizes
<1> QED
  BY <1>1 DEF Children, Stages, Pipes

(* There is a child, and a pipe, for each row and stage. *)
LEMMA Cell ==
    ASSUME Types, NEW i \in 1..Rows, NEW j \in 0..3
    PROVE  /\ \E c \in Children : c = <<i, j>> /\ c[1] = i /\ c[2] = j
           /\ j \in 0..2 => \E q \in Pipes : q = <<i, j>> /\ q[1] = i /\ q[2] = j
<1>1. i \in 1..K /\ (j \in 0..2 => j \in PipeStages)
  BY Sizes
<1>2. <<i, j>> \in Children /\ (j \in 0..2 => <<i, j>> \in Pipes)
  BY <1>1, Grid
<1> QED
  BY <1>2

(* A run keeps its program, so its rows and pipes too. *)
LEMMA Fixed ==
    ASSUME [Next]_vars
    PROVE  /\ program' = program /\ Rows' = Rows /\ PipeStages' = PipeStages /\ Pipes' = Pipes
<1>1. program' = program
  BY DEF Next, vars, Parent, Child, MakePipes, Fork, CloseEnds, OpenTotals, ReadTotal,
         EndOfTotals, Wait, Exec, PrintNumber, Scan, Flush, PrintTotal, BrokenPipe,
         EndOfInput, Return
<1> QED
  BY <1>1 DEF Rows, PipeStages, Pipes

(* The types hold at the start. *)
LEMMA InitTypes == Init => Types
<1> SUFFICES ASSUME Init PROVE Types
  OBVIOUS
<1>1. K \in Nat \ {0} /\ program \in Programs /\ Programs \subseteq {"cv_5", "pr_5"} /\ N \in Nat
  BY PipelineAssumption DEF Init
<1>2. 1 \in 1..Rows
  BY <1>1 DEF Rows
<1>3. <<>> \in Numbers /\ <<>> \in Seq(Numbers)
  BY DEF Numbers
<1> QED
  BY <1>1, <1>2, <1>3 DEF Init, Types, Places, ChildPlaces

(* A child that has been forked reads the pipe of the child before it. *)
LEMMA InAPipe ==
    ASSUME Types, NEW c \in Children, prog[c] # "none", c[2] > 0
    PROVE  /\ In(c) \in Pipes /\ In(c) \in Children /\ In(c) = <<c[1], c[2] - 1>>
           /\ c[1] \in 1..Rows /\ c[2] \in 1..3 /\ c[2] - 1 \in 0..2
<1>1. c[1] \in 1..Rows /\ c[2] \in 0..3
  BY Grid DEF Types
<1>2. c[2] \in 1..3 /\ c[2] - 1 \in 0..2
  BY <1>1
<1>3. c[2] - 1 \in PipeStages
  BY <1>2, Sizes
<1> QED
  BY <1>1, <1>2, <1>3, Grid DEF In

AllEnds == (Children \cup {Main}) \X Pipes \X {"r", "w"}

(* The steps of the parent keep the types. *)
LEMMA ParentTypes == Types /\ [Next]_vars /\ Parent => Types'
<1> SUFFICES ASSUME Types, [Next]_vars, Parent PROVE Types'
  OBVIOUS
<1> USE DEF Places, ChildPlaces, Up, Over
<1>1. /\ program' = program /\ Rows' = Rows /\ PipeStages' = PipeStages /\ Pipes' = Pipes
  BY Fixed
<1>2. /\ K \in Nat /\ K >= 1 /\ Rows \in 1..K /\ (program = "cv_5" => Rows = K)
      /\ program \in {"cv_5", "pr_5"} /\ PipeStages \in {0..3, 0..2}
      /\ (program = "cv_5" <=> 3 \in PipeStages)
      /\ Main \notin Children
  BY Sizes
<1>3. /\ \A i \in 1..K, j \in 0..3 : <<i, j>> \in Children
      /\ \A i \in 1..Rows, j \in PipeStages : <<i, j>> \in Pipes
  BY Grid
<1>4. /\ holds \subseteq AllEnds /\ MaxFailures \in Nat
      /\ row \in 1..Rows /\ stage \in 0..3 /\ <<row, stage>> \in Children
  <2>1. holds \subseteq AllEnds /\ row \in 1..Rows /\ stage \in 0..3
    BY DEF Types, AllEnds
  <2>2. row \in 1..K
    BY <1>2, <2>1
  <2> QED
    BY <1>3, <2>1, <2>2, PipelineAssumption
<1>5. CASE MakePipes
  <2>1. holds' \subseteq AllEnds
    <3>1. {Main} \X ({row} \X PipeStages) \X {"r", "w"} \subseteq AllEnds
      BY <1>3, <1>4 DEF AllEnds
    <3> QED
      BY <1>4, <1>5, <3>1 DEF MakePipes, Die
  <2>2. pc' \in {"fork", "died"} /\ failures' \in Nat
    BY <1>5 DEF MakePipes, Die, MayFail, Types
  <2> QED
    BY <1>1, <1>5, <2>1, <2>2 DEF MakePipes, Types, AllEnds, work
<1>6. CASE Fork
  <2>1. holds' \subseteq AllEnds
    <3>1. {<<<<row, stage>>, e[2], e[3]>> : e \in EndsOf(Main)} \subseteq AllEnds
      BY <1>4 DEF AllEnds, EndsOf
    <3> QED
      BY <1>4, <1>6, <3>1 DEF Fork, Die
  <2>2. pc' \in {"close", "died"} /\ failures' \in Nat
    BY <1>6 DEF Fork, Die, MayFail, Types
  <2>3. prog' \in [Children -> ChildPlaces]
    BY <1>6 DEF Fork, Types
  <2>4. ASSUME NEW d \in Children, prog'[d] # "none"
        PROVE  d[1] \in 1..Rows
    <3>1. d = <<row, stage>> \/ prog[d] # "none"
      BY <1>6, <2>4 DEF Fork, Types
    <3> QED
      BY <1>4, <3>1 DEF Types
  <2> QED
    BY <1>1, <1>6, <2>1, <2>2, <2>3, <2>4 DEF Fork, Types, AllEnds, work
<1>7. CASE CloseEnds
  <2>1. holds' \subseteq AllEnds
    BY <1>4, <1>7 DEF CloseEnds
  <2>2. /\ pc' \in {"fork", "fdopen", "wait"} /\ stage' \in 0..3
        /\ pc' = "fdopen" => program = "cv_5" /\ stage' = 3
    BY <1>4, <1>7 DEF CloseEnds
  <2> QED
    BY <1>1, <1>7, <2>1, <2>2 DEF CloseEnds, Types, AllEnds, work
<1>8. CASE OpenTotals
  <2>1. holds' \subseteq AllEnds
    BY <1>4, <1>8 DEF OpenTotals, Die
  <2>2. pc' \in {"read", "died"} /\ failures' \in Nat
    BY <1>8 DEF OpenTotals, Die, MayFail, Types
  <2> QED
    BY <1>1, <1>8, <2>1, <2>2 DEF OpenTotals, Types, AllEnds, work
<1>9. CASE ReadTotal
  <2>1. Result \in Pipes /\ content[Result] \in Seq(Numbers) /\ content[Result] # <<>>
    BY <1>2, <1>3, <1>4, <1>9 DEF ReadTotal, Types, Result
  <2>2. Head(content[Result]) \in Numbers /\ Tail(content[Result]) \in Seq(Numbers)
    BY <2>1, Shortened
  <2>3. row \in 1..K
    BY <1>2, <1>4
  <2>4. result[row] \in Seq(Numbers)
    BY <2>3 DEF Types
  <2>5. Append(result[row], Head(content[Result])) \in Seq(Numbers)
    BY <2>2, <2>4, Appended
  <2>6. /\ result' \in [1..K -> Seq(Numbers)]
        /\ content' \in [Pipes' -> Seq(Numbers)]
    BY <1>1, <1>9, <2>2, <2>5 DEF ReadTotal, Types
  <2> QED
    BY <1>1, <1>9, <2>6 DEF ReadTotal, Types, work, parent
<1>10. CASE EndOfTotals
  <2>1. holds' \subseteq AllEnds
    BY <1>4, <1>10 DEF EndOfTotals
  <2>2. /\ pc' \in {"pipe", "wait"} /\ stage' = 0 /\ row' \in 1..Rows
    BY SMTT(30), <1>2, <1>4, <1>10 DEF EndOfTotals, Types
  <2> QED
    BY <1>1, <1>10, <2>1, <2>2 DEF EndOfTotals, Types, AllEnds, work
<1>11. CASE Wait
  <2>1. /\ pc' \in {"wait", "done"} /\ stage' \in 0..3 /\ row' \in 1..Rows
    BY <1>2, <1>4, <1>11 DEF Wait
  <2>2. prog' \in [Children -> ChildPlaces]
    BY <1>11 DEF Wait, Types
  <2>3. ASSUME NEW d \in Children, prog'[d] # "none"
        PROVE  d[1] \in 1..Rows
    <3>1. prog[d] # "none"
      BY <1>11, <2>3 DEF Wait, Types
    <3> QED
      BY <3>1 DEF Types
  <2> QED
    BY <1>1, <1>11, <2>1, <2>2, <2>3 DEF Wait, Types, work
<1> QED
  BY <1>5, <1>6, <1>7, <1>8, <1>9, <1>10, <1>11 DEF Parent

(* The steps of a child keep the types. *)
LEMMA ChildTypes ==
    ASSUME Types, [Next]_vars, NEW c \in Children, Child(c)
    PROVE  Types'
<1> USE DEF Places, ChildPlaces, Up, Over
<1>1. /\ program' = program /\ Rows' = Rows /\ PipeStages' = PipeStages /\ Pipes' = Pipes
  BY Fixed
<1>2. holds \subseteq AllEnds /\ MaxFailures \in Nat
  BY PipelineAssumption DEF Types, AllEnds
<1>3. /\ prog \in [Children -> ChildPlaces] /\ out \in [Children -> Seq(Numbers)]
      /\ content \in [Pipes -> Seq(Numbers)] /\ printed \in [Children -> 0..N]
      /\ seen \in [Children -> Numbers] /\ result \in [1..K -> Seq(Numbers)]
      /\ out[c] \in Seq(Numbers) /\ seen[c] \in Numbers /\ printed[c] \in 0..N
      /\ c[1] \in 1..K
  BY Grid DEF Types
<1>4. ASSUME NEW d \in Children, prog'[d] # "none"
      PROVE  d[1] \in 1..Rows
  <2>1. prog[d] # "none"
    BY <1>3, <1>4 DEF Child, Exec, Exit, PrintNumber, Scan, Flush, PrintTotal, BrokenPipe,
                      EndOfInput, Return
  <2> QED
    BY <2>1 DEF Types
<1>5. CASE Exec(c)
  <2>1. holds' \subseteq AllEnds
    BY <1>2, <1>5 DEF Exec, Exit
  <2>2. failures' \in Nat
    BY <1>2, <1>5 DEF Exec, MayFail, Types
  <2>3. prog' \in [Children -> ChildPlaces]
    BY <1>3, <1>5 DEF Exec, Exit
  <2> QED
    BY <1>1, <1>4, <1>5, <2>1, <2>2, <2>3 DEF Exec, Types, AllEnds, work, parent
<1>6. CASE PrintNumber(c)
  <2>1. printed[c] + 1 \in 0..N /\ <<printed[c] + 1>> \in Numbers
    BY <1>3, <1>6, Limits DEF PrintNumber, Numbers
  <2>2. Append(out[c], <<printed[c] + 1>>) \in Seq(Numbers)
    BY <1>3, <2>1, Appended
  <2>3. printed' \in [Children -> 0..N] /\ out' \in [Children -> Seq(Numbers)]
    BY <1>3, <1>6, <2>1, <2>2 DEF PrintNumber
  <2> QED
    BY <1>1, <1>4, <1>6, <2>3 DEF PrintNumber, Types, parent
<1>7. CASE Scan(c)
  <2> DEFINE s == content[In(c)]
             x == Head(s)
  <2>1. In(c) \in Pipes /\ s \in Seq(Numbers) /\ s # <<>>
    BY <1>3, <1>7, InAPipe DEF Scan
  <2>2. x \in Numbers /\ Tail(s) \in Seq(Numbers)
    BY <2>1, Shortened
  <2>3. Append(out[c], x) \in Seq(Numbers)
    BY <1>3, <2>2, Appended
  <2>4. seen[c] \o x \in Numbers
    BY <1>3, <2>2, ConcatProperties DEF Numbers
  <2>5. content' = [content EXCEPT ![In(c)] = Tail(s)]
    BY <1>7 DEF Scan
  <2>6. content' \in [Pipes' -> Seq(Numbers)]
    BY <1>1, <1>3, <2>2, <2>5
  <2>7. out' = out \/ out' = [out EXCEPT ![c] = Append(out[c], x)]
    BY <1>7 DEF Scan
  <2>8. seen' = seen \/ seen' = [seen EXCEPT ![c] = seen[c] \o x]
    BY <1>7 DEF Scan
  <2> HIDE DEF s, x
  <2>9. out' \in [Children -> Seq(Numbers)]
    BY <1>3, <2>3, <2>7
  <2>10. seen' \in [Children -> Numbers]
    BY <1>3, <2>4, <2>8
  <2> QED
    BY <1>1, <1>4, <1>7, <2>6, <2>9, <2>10 DEF Scan, Types, parent
<1>8. CASE Flush(c)
  <2>1. c \in Pipes /\ out[c] # <<>>
    BY <1>8 DEF Flush
  <2>2. Head(out[c]) \in Numbers /\ Tail(out[c]) \in Seq(Numbers) /\ content[c] \in Seq(Numbers)
    BY <1>3, <2>1, Shortened
  <2>3. Append(content[c], Head(out[c])) \in Seq(Numbers)
    BY <2>2, Appended
  <2>4. content' \in [Pipes' -> Seq(Numbers)] /\ out' \in [Children -> Seq(Numbers)]
    BY <1>1, <1>3, <1>8, <2>2, <2>3 DEF Flush
  <2> QED
    BY <1>1, <1>4, <1>8, <2>4 DEF Flush, Types, parent
<1>9. CASE PrintTotal(c)
  <2>1. result[c[1]] \in Seq(Numbers) /\ <<>> \in Seq(Numbers)
    BY <1>3
  <2>2. result[c[1]] \o out[c] \in Seq(Numbers)
    BY <1>3, <2>1, ConcatProperties
  <2>3. result' \in [1..K -> Seq(Numbers)] /\ out' \in [Children -> Seq(Numbers)]
    BY <1>3, <1>9, <2>1, <2>2 DEF PrintTotal
  <2> QED
    BY <1>1, <1>4, <1>9, <2>3 DEF PrintTotal, Types, parent
<1>10. CASE BrokenPipe(c)
  <2>1. holds' \subseteq AllEnds /\ broken' \subseteq Children
    BY <1>2, <1>10 DEF BrokenPipe, Exit, Types
  <2>2. prog' \in [Children -> ChildPlaces]
    BY <1>3, <1>10 DEF BrokenPipe, Exit
  <2> QED
    BY <1>1, <1>4, <1>10, <2>1, <2>2 DEF BrokenPipe, Types, AllEnds, work, parent
<1>11. CASE EndOfInput(c)
  <2>1. prog' \in [Children -> ChildPlaces]
    BY <1>3, <1>11 DEF EndOfInput
  <2>2. Append(out[c], seen[c]) \in Seq(Numbers)
    BY <1>3, Appended
  <2>3. out' \in [Children -> Seq(Numbers)]
    BY <1>3, <1>11, <2>2 DEF EndOfInput
  <2> QED
    BY <1>1, <1>4, <1>11, <2>1, <2>3 DEF EndOfInput, Types, parent
<1>12. CASE Return(c)
  <2>1. holds' \subseteq AllEnds
    BY <1>2, <1>12 DEF Return, Exit
  <2>2. prog' \in [Children -> ChildPlaces]
    BY <1>3, <1>12 DEF Return, Exit
  <2> QED
    BY <1>1, <1>4, <1>12, <2>1, <2>2 DEF Return, Types, AllEnds, work, parent
<1> QED
  BY <1>5, <1>6, <1>7, <1>8, <1>9, <1>10, <1>11, <1>12 DEF Child

(* Every step keeps the types. *)
LEMMA StepTypes == Types /\ [Next]_vars => Types'
<1> SUFFICES ASSUME Types, [Next]_vars PROVE Types'
  OBVIOUS
<1>1. CASE Parent
  BY <1>1, ParentTypes
<1>2. CASE \E c \in Children : Child(c)
  BY <1>2, ChildTypes
<1>3. CASE UNCHANGED vars
  BY <1>3, Fixed DEF Types, vars, work, parent
<1> QED
  BY <1>1, <1>2, <1>3 DEF Next

-----------------------------------------------------------------------------
(* Pipe ends *)

MainEnds == \A q \in Pipes, d \in {"r", "w"} : <<Main, q, d>> \in holds <=> MainHas(q, d)
OwnOnly(c) ==
    \A q \in Pipes, d \in {"r", "w"} :
          /\ prog[c] \in {"none"} \cup Over => <<c, q, d>> \notin holds
          /\ prog[c] \in {"running", "ending"} /\ <<c, q, d>> \in holds =>
                (d = "w" /\ q = c) \/ (d = "r" /\ q = In(c) /\ c[2] > 0)
OwnThere(c) ==
    prog[c] \in Up =>
          /\ c \in Pipes => <<c, c, "w">> \in holds
          /\ c[2] > 0 => <<c, In(c), "r">> \in holds

(* Ends by parent and children. *)
LEMMA EndsParts == Ends <=> MainEnds /\ \A c \in Children : OwnOnly(c) /\ OwnThere(c)
BY DEF Ends, MainEnds, OwnOnly, OwnThere

(* No pipe is open at the start. *)
LEMMA InitEnds == Init => Ends
BY DEF Init, Ends, MainHas, Up, Over

(* The children are not concerned by what the parent does with its own ends. *)
LEMMA OthersEnds ==
    ASSUME Types, Ends, [Next]_vars, NEW c \in Children,
           \A q \in Pipes, d \in {"r", "w"} : <<c, q, d>> \in holds' <=> <<c, q, d>> \in holds,
           \/ prog'[c] = prog[c]
           \/ prog[c] \in Over /\ prog'[c] \in Over
           \/ prog[c] \in {"running", "ending"} /\ prog'[c] \in {"running", "ending"}
    PROVE  OwnOnly(c)' /\ OwnThere(c)'
<1>1. Pipes' = Pipes /\ OwnOnly(c) /\ OwnThere(c) /\ In(c)' = In(c)
  BY EndsParts, Fixed DEF In
<1>2. c[2] > 0 /\ prog[c] # "none" => In(c) \in Pipes
  BY InAPipe
<1>3. OwnOnly(c)'
  BY <1>1 DEF OwnOnly, Over
<1>4. OwnThere(c)'
  BY <1>1, <1>2 DEF OwnThere, Up, Over
<1> QED
  BY <1>3, <1>4

(* The steps of the parent keep Ends. *)
LEMMA ParentEnds == Types /\ Ends /\ [Next]_vars /\ Parent => Ends'
<1> SUFFICES ASSUME Types, Ends, [Next]_vars, Parent PROVE Ends'
  OBVIOUS
<1>1. /\ program' = program /\ Rows' = Rows /\ PipeStages' = PipeStages /\ Pipes' = Pipes
  BY Fixed
<1>2. /\ K \in Nat /\ K >= 1 /\ Rows \in 1..K /\ (program = "cv_5" => Rows = K)
      /\ program \in {"cv_5", "pr_5"} /\ PipeStages \in {0..3, 0..2}
      /\ (program = "cv_5" <=> 3 \in PipeStages)
      /\ Main \notin Children
  BY Sizes
<1>3. /\ \A q \in Pipes : /\ q = <<q[1], q[2]>> /\ q[1] \in 1..Rows /\ q[2] \in PipeStages
                          /\ q \in Children
      /\ \A i \in 1..Rows, j \in PipeStages : <<i, j>> \in Pipes
  BY Grid
<1>4. row \in 1..Rows /\ stage \in 0..3 /\ prog \in [Children -> ChildPlaces]
  BY DEF Types
<1>5. \A q \in Pipes, d \in {"r", "w"} : <<Main, q, d>> \in holds <=> MainHas(q, d)
  BY EndsParts DEF MainEnds
<1>6. SUFFICES (/\ \A q \in Pipes, d \in {"r", "w"} : <<Main, q, d>> \in holds' <=> MainHas(q, d)'
                /\ \A c \in Children : OwnOnly(c)' /\ OwnThere(c)')
  BY <1>1, EndsParts DEF Ends, OwnOnly, OwnThere
<1>7. ASSUME Die
      PROVE  /\ \A q \in Pipes, d \in {"r", "w"} : <<Main, q, d>> \in holds' <=> MainHas(q, d)'
             /\ \A c \in Children, q \in Pipes, d \in {"r", "w"} :
                   <<c, q, d>> \in holds' <=> <<c, q, d>> \in holds
  <2>1. \A q \in Pipes, d \in {"r", "w"} : <<Main, q, d>> \notin holds'
    BY <1>7 DEF Die, EndsOf
  <2>2. \A q \in Pipes, d \in {"r", "w"} : ~MainHas(q, d)'
    BY <1>7 DEF Die, MainHas
  <2>3. \A c \in Children, q \in Pipes, d \in {"r", "w"} :
                   <<c, q, d>> \in holds' <=> <<c, q, d>> \in holds
    BY <1>2, <1>7 DEF Die, EndsOf
  <2> QED
    BY <2>1, <2>2, <2>3
<1>8. CASE MakePipes
  <2>1. CASE Die
    BY <1>7, <1>8, <2>1, OthersEnds DEF MakePipes
  <2>2. CASE ~Die
    <3>1. holds' = holds \cup ({Main} \X ({row} \X PipeStages) \X {"r", "w"}) /\ pc' = "fork"
          /\ stage = 0 /\ row' = row /\ stage' = stage /\ prog' = prog /\ pc = "pipe"
      BY <1>8, <2>2 DEF MakePipes, Types
    <3>2. \A q \in Pipes : q \in {row} \X PipeStages <=> q[1] = row
      BY <1>3
    <3>3. \A q \in Pipes, d \in {"r", "w"} : <<Main, q, d>> \in holds' <=> q[1] = row
      BY <1>5, <3>1, <3>2 DEF MainHas
    <3>4. \A q \in Pipes, d \in {"r", "w"} : MainHas(q, d)' <=> q[1] = row
      BY <1>2, <1>3, <3>1 DEF MainHas
    <3>5. \A c \in Children, q \in Pipes, d \in {"r", "w"} :
                   <<c, q, d>> \in holds' <=> <<c, q, d>> \in holds
      BY <1>2, <3>1
    <3> QED
      BY <3>1, <3>3, <3>4, <3>5, OthersEnds
  <2> QED
    BY <2>1, <2>2
<1>9. CASE Fork
  <2>1. CASE Die /\ UNCHANGED prog
    BY <1>7, <2>1, OthersEnds
  <2>2. CASE ~(Die /\ UNCHANGED prog)
    <3>2. PICK n \in Children : n = <<row, stage>>
      <4>1. row \in 1..K
        BY <1>2, <1>4
      <4> QED
        BY <1>4, <4>1, Grid
    <3>1. /\ holds' = holds \cup {<<n, e[2], e[3]>> : e \in EndsOf(Main)}
          /\ pc = "fork" /\ pc' = "close" /\ row' = row /\ stage' = stage
          /\ prog' = [prog EXCEPT ![n] = "forked"]
      BY <1>9, <2>2, <3>2 DEF Fork
    <3>3. ASSUME NEW p \in Children \cup {Main}, p # n, NEW q \in Pipes, NEW d \in {"r", "w"}
          PROVE  <<p, q, d>> \in holds' <=> <<p, q, d>> \in holds
      BY <3>1, <3>3
    <3>4. \A q \in Pipes, d \in {"r", "w"} : MainHas(q, d)' <=> MainHas(q, d)
      BY <3>1 DEF MainHas
    <3>5. \A q \in Pipes, d \in {"r", "w"} : <<Main, q, d>> \in holds' <=> MainHas(q, d)'
      BY <1>2, <1>5, <3>3, <3>4
    <3>6. ASSUME NEW c \in Children, c # n
          PROVE  OwnOnly(c)' /\ OwnThere(c)'
      <4>1. prog'[c] = prog[c]
        BY <1>4, <3>1, <3>6
      <4> QED
        BY <3>3, <3>6, <4>1, OthersEnds
    <3>7. OwnOnly(n)' /\ OwnThere(n)'
      <4>1. prog'[n] = "forked"
        BY <1>4, <3>1
      <4>2. OwnOnly(n)'
        BY <4>1 DEF OwnOnly, Over
      <4>3. ASSUME NEW q \in Pipes, NEW d \in {"r", "w"}, MainHas(q, d)
            PROVE  <<n, q, d>> \in holds'
        <5>1. <<Main, q, d>> \in EndsOf(Main)
          BY <1>5, <4>3 DEF EndsOf
        <5> QED
          BY <3>1, <5>1
      <4>4. n[1] = row /\ n[2] = stage
        BY <3>2
      <4>5. n \in Pipes => <<n, n, "w">> \in holds'
        <5>1. MainHas(n, "w")
          BY <1>4, <3>1, <4>4 DEF MainHas
        <5> QED
          BY <4>3, <5>1
      <4>6. n[2] > 0 => <<n, In(n), "r">> \in holds'
        <5>1. SUFFICES ASSUME n[2] > 0 PROVE <<n, In(n), "r">> \in holds'
          OBVIOUS
        <5>2. stage - 1 \in 0..2 /\ (stage - 1) + 1 = stage
          BY <1>4, <4>4, <5>1
        <5>3. In(n) \in Pipes /\ In(n)[1] = row /\ In(n)[2] = stage - 1
          BY <1>2, <1>3, <1>4, <4>4, <5>2 DEF In
        <5>4. MainHas(In(n), "r")
          BY <1>4, <3>1, <5>2, <5>3 DEF MainHas
        <5> QED
          BY <4>3, <5>3, <5>4
      <4> QED
        BY <1>1, <4>2, <4>5, <4>6 DEF OwnThere, In
    <3> QED
      BY <3>5, <3>6, <3>7
  <2> QED
    BY <2>1, <2>2
<1>10. CASE CloseEnds
  <2>1. /\ holds' = holds \ ChildEnds(<<row, stage>>) /\ row' = row /\ prog' = prog /\ pc = "close"
        /\ \/ stage < 3 /\ pc' = "fork" /\ stage' = stage + 1
           \/ stage = 3 /\ program = "cv_5" /\ pc' = "fdopen"
           \/ stage = 3 /\ program = "pr_5" /\ pc' = "wait"
    BY <1>10 DEF CloseEnds
  <2>2. ASSUME NEW q \in Pipes, NEW d \in {"r", "w"}
        PROVE  <<Main, q, d>> \in ChildEnds(<<row, stage>>) <=>
                  q[1] = row /\ ((d = "w" /\ q[2] = stage) \/ (d = "r" /\ q[2] + 1 = stage))
    <3>1. q = <<q[1], q[2]>> /\ q[2] \in 0..3
      BY <1>2, <1>3
    <3>2. CASE stage = 0
      BY <3>1, <3>2 DEF ChildEnds
    <3>3. CASE stage # 0
      <4>1. stage - 1 \in 0..2 /\ (q[2] = stage - 1 <=> q[2] + 1 = stage)
        BY <1>4, <3>1, <3>3
      <4> QED
        BY <3>1, <3>3, <4>1 DEF ChildEnds
    <3> QED
      BY <3>2, <3>3
  <2>3. ASSUME NEW q \in Pipes, NEW d \in {"r", "w"}
        PROVE  <<Main, q, d>> \in holds' <=> MainHas(q, d)'
    <3>1. <<Main, q, d>> \in holds' <=>
             q[1] = row /\ ((d = "w" /\ q[2] > stage) \/ (d = "r" /\ q[2] >= stage))
      <4>1. q[2] \in 0..3
        BY <1>2, <1>3
      <4>2. <<Main, q, d>> \in holds <=>
               q[1] = row /\ ((d = "w" /\ q[2] >= stage) \/ (d = "r" /\ q[2] + 1 >= stage))
        BY <1>5, <2>1 DEF MainHas
      <4>3. <<Main, q, d>> \in holds' <=>
               <<Main, q, d>> \in holds /\ <<Main, q, d>> \notin ChildEnds(<<row, stage>>)
        BY <2>1
      <4>4. CASE d = "w"
        <5>1. <<Main, q, d>> \in holds' <=> q[1] = row /\ q[2] >= stage /\ q[2] # stage
          BY <2>2, <4>2, <4>3, <4>4
        <5> QED
          BY <1>4, <4>1, <4>4, <5>1
      <4>5. CASE d = "r"
        <5>1. <<Main, q, d>> \in holds' <=>
                 q[1] = row /\ q[2] + 1 >= stage /\ q[2] + 1 # stage
          BY <2>2, <4>2, <4>3, <4>5
        <5> QED
          BY <1>4, <4>1, <4>5, <5>1
      <4> QED
        BY <4>4, <4>5
    <3>2. q[2] \in 0..3 /\ (program = "pr_5" => q[2] \in 0..2)
      BY <1>2, <1>3 DEF PipeStages
    <3>3. MainHas(q, d)' <=>
             q[1] = row /\ ((d = "w" /\ q[2] > stage) \/ (d = "r" /\ q[2] >= stage))
      BY <1>4, <2>1, <3>2 DEF MainHas
    <3> QED
      BY <3>1, <3>3
  <2>4. \A c \in Children, q \in Pipes, d \in {"r", "w"} :
                   <<c, q, d>> \in holds' <=> <<c, q, d>> \in holds
    BY <1>2, <2>1 DEF ChildEnds
  <2> QED
    BY <2>1, <2>3, <2>4, OthersEnds
<1>11. CASE OpenTotals
  <2>1. CASE Die
    BY <1>7, <1>11, <2>1, OthersEnds DEF OpenTotals
  <2>2. CASE ~Die
    BY <1>5, <1>11, <2>2, OthersEnds DEF OpenTotals, MainHas
  <2> QED
    BY <2>1, <2>2
<1>12. CASE ReadTotal
  BY <1>5, <1>12, OthersEnds DEF ReadTotal, MainHas, parent
<1>13. CASE EndOfTotals
  <2>1. /\ holds' = holds \ {<<Main, Result, "r">>} /\ pc = "read" /\ pc' \in {"pipe", "wait"}
        /\ prog' = prog
    BY <1>13 DEF EndOfTotals
  <2>2. ASSUME NEW q \in Pipes, NEW d \in {"r", "w"}
        PROVE  <<Main, q, d>> \notin holds' /\ ~MainHas(q, d)'
    BY <1>3, <1>5, <2>1 DEF MainHas, Result
  <2>3. \A c \in Children, q \in Pipes, d \in {"r", "w"} :
                   <<c, q, d>> \in holds' <=> <<c, q, d>> \in holds
    BY <1>2, <2>1
  <2> QED
    BY <2>1, <2>2, <2>3, OthersEnds
<1>14. CASE Wait
  <2>1. /\ pc = "wait" /\ pc' \in {"wait", "done"} /\ holds' = holds
        /\ \A c \in Children : prog'[c] = prog[c] \/ (prog[c] \in Over /\ prog'[c] \in Over)
    BY <1>4, <1>14 DEF Wait, Over
  <2>2. ASSUME NEW q \in Pipes, NEW d \in {"r", "w"}
        PROVE  <<Main, q, d>> \in holds' <=> MainHas(q, d)'
    BY <1>5, <2>1 DEF MainHas
  <2> QED
    BY <2>1, <2>2, OthersEnds
<1> QED
  BY <1>8, <1>9, <1>10, <1>11, <1>12, <1>13, <1>14 DEF Parent

(* The steps of a child keep Ends. *)
LEMMA ChildrenEnds ==
    ASSUME Types, Ends, [Next]_vars, NEW c \in Children, Child(c)
    PROVE  Ends'
<1>1. /\ program' = program /\ Rows' = Rows /\ PipeStages' = PipeStages /\ Pipes' = Pipes
  BY Fixed
<1>2. Main \notin Children /\ prog \in [Children -> ChildPlaces]
  BY Sizes DEF Types
<1>3. /\ row' = row /\ stage' = stage /\ pc' = pc
      /\ \A d \in Children : d # c => prog'[d] = prog[d]
  BY <1>2 DEF Child, Exec, Exit, PrintNumber, Scan, Flush, PrintTotal, BrokenPipe, EndOfInput,
              Return, parent
<1>4. \/ /\ prog[c] = "forked" /\ prog'[c] = "running"
         /\ holds' = holds \ (EndsOf(c) \ OwnEnds(c))
      \/ prog'[c] = "exited" /\ holds' = holds \ EndsOf(c)
      \/ /\ holds' = holds
         /\ \/ prog'[c] = prog[c]
            \/ prog[c] \in {"running", "ending"} /\ prog'[c] \in {"running", "ending"}
  BY <1>2 DEF Child, Exec, Exit, PrintNumber, Scan, Flush, PrintTotal, BrokenPipe, EndOfInput,
              Return
<1>5. ASSUME NEW p \in Children \cup {Main}, p # c, NEW q \in Pipes, NEW d \in {"r", "w"}
      PROVE  <<p, q, d>> \in holds' <=> <<p, q, d>> \in holds
  BY <1>4, <1>5 DEF EndsOf
<1>6. ASSUME NEW q \in Pipes, NEW d \in {"r", "w"}
      PROVE  <<Main, q, d>> \in holds' <=> MainHas(q, d)'
  <2>1. <<Main, q, d>> \in holds <=> MainHas(q, d)
    BY EndsParts DEF MainEnds
  <2>2. <<Main, q, d>> \in holds' <=> <<Main, q, d>> \in holds
    BY <1>2, <1>5
  <2>3. MainHas(q, d)' <=> MainHas(q, d)
    BY <1>3 DEF MainHas
  <2> QED
    BY <2>1, <2>2, <2>3
<1>7. ASSUME NEW d \in Children, d # c
      PROVE  OwnOnly(d)' /\ OwnThere(d)'
  BY <1>3, <1>5, <1>7, OthersEnds
<1>8. OwnOnly(c)' /\ OwnThere(c)'
  <2>1. CASE prog'[c] = "exited" /\ holds' = holds \ EndsOf(c)
    BY <2>1 DEF OwnOnly, OwnThere, EndsOf, Up
  <2>2. CASE holds' = holds /\ \/ prog'[c] = prog[c]
                               \/ /\ prog[c] \in {"running", "ending"}
                                  /\ prog'[c] \in {"running", "ending"}
    BY <2>2, OthersEnds
  <2>3. CASE /\ prog[c] = "forked" /\ prog'[c] = "running"
             /\ holds' = holds \ (EndsOf(c) \ OwnEnds(c))
    <3>1. ASSUME NEW q \in Pipes, NEW d \in {"r", "w"}
          PROVE  <<c, q, d>> \in holds' <=>
                    /\ <<c, q, d>> \in holds
                    /\ (d = "w" /\ q = c) \/ (d = "r" /\ q = In(c))
      BY <2>3 DEF EndsOf, OwnEnds
    <3>2. In(c) \in Pipes => c[2] > 0
      <4>1. SUFFICES ASSUME In(c) \in Pipes PROVE c[2] > 0
        OBVIOUS
      <4>2. c[2] - 1 \in PipeStages /\ c[2] \in 0..3 /\ PipeStages \in {0..3, 0..2}
        BY <4>1, Grid, Sizes DEF Pipes, In
      <4>3. c[2] - 1 \in 0..3
        BY <4>2
      <4> QED
        BY <4>2, <4>3
    <3>3. OwnOnly(c)'
      BY <1>1, <2>3, <3>1, <3>2 DEF OwnOnly, Over, In
    <3>4. OwnThere(c) /\ prog[c] # "none"
      BY <2>3, EndsParts
    <3>5. c \in Pipes => <<c, c, "w">> \in holds'
      BY <2>3, <3>1, <3>4 DEF OwnThere, Up
    <3>6. c[2] > 0 => <<c, In(c), "r">> \in holds'
      BY <2>3, <3>1, <3>4, InAPipe DEF OwnThere, Up
    <3>7. OwnThere(c)'
      BY <1>1, <3>5, <3>6 DEF OwnThere, In
    <3> QED
      BY <3>3, <3>7
  <2> QED
    BY <1>4, <2>1, <2>2, <2>3
<1>9. MainEnds'
  BY <1>1, <1>6 DEF MainEnds
<1>10. Ends' <=> MainEnds' /\ \A d \in Children : OwnOnly(d)' /\ OwnThere(d)'
  BY DEF Ends, MainEnds, OwnOnly, OwnThere
<1> QED
  BY <1>7, <1>8, <1>9, <1>10

(* Every step keeps Ends. *)
LEMMA StepEnds == Types /\ Ends /\ [Next]_vars => Ends'
<1> SUFFICES ASSUME Types, Ends, [Next]_vars PROVE Ends'
  OBVIOUS
<1>1. CASE Parent
  BY <1>1, ParentEnds
<1>2. CASE \E c \in Children : Child(c)
  BY <1>2, ChildrenEnds
<1>3. CASE UNCHANGED vars
  BY <1>3, Fixed DEF Ends, MainHas, vars, parent, In
<1> QED
  BY <1>1, <1>2, <1>3 DEF Next

(* DescriptorsReturned from the invariant. *)
LEMMA ReturnedDescriptors == Types /\ Ends => DescriptorsReturned
<1> SUFFICES ASSUME Types, Ends PROVE DescriptorsReturned
  OBVIOUS
<1>1. ASSUME NEW p, NEW e \in EndsOf(p)
      PROVE  /\ e = <<p, e[2], e[3]>> /\ e[2] \in Pipes /\ e[3] \in {"r", "w"}
             /\ <<p, e[2], e[3]>> \in holds
  <2>1. e \in holds /\ e[1] = p
    BY DEF EndsOf
  <2>2. e \in (Children \cup {Main}) \X Pipes \X {"r", "w"}
    BY <2>1 DEF Types
  <2>3. e = <<e[1], e[2], e[3]>> /\ e[2] \in Pipes /\ e[3] \in {"r", "w"}
    BY <2>2
  <2> QED
    BY <2>1, <2>3
<1>2. ASSUME pc \in {"pipe", "wait", "done", "died"}, NEW e \in EndsOf(Main)
      PROVE  FALSE
  <2>1. MainHas(e[2], e[3])
    BY <1>1, EndsParts DEF MainEnds
  <2> QED
    BY <1>2, <2>1 DEF MainHas
<1>3. ASSUME NEW c \in Children, prog[c] \in {"running", "ending"}, NEW e \in EndsOf(c)
      PROVE  e \in OwnEnds(c)
  <2>1. (e[3] = "w" /\ e[2] = c) \/ (e[3] = "r" /\ e[2] = In(c))
    BY <1>1, <1>3, EndsParts DEF OwnOnly
  <2>2. e = <<c, e[2], e[3]>> /\ e[2] \in Pipes
    BY <1>1
  <2>3. CASE e[3] = "w" /\ e[2] = c
    <3>1. e \in {<<c, q, "w">> : q \in {c} \cap Pipes}
      BY <2>2, <2>3
    <3> QED
      BY <3>1 DEF OwnEnds
  <2>4. CASE e[3] = "r" /\ e[2] = In(c)
    <3>1. e \in {<<c, q, "r">> : q \in {In(c)} \cap Pipes}
      BY <2>2, <2>4
    <3> QED
      BY <3>1 DEF OwnEnds
  <2> QED
    BY <2>1, <2>3, <2>4
<1>4. ASSUME NEW c \in Children, prog[c] \in {"exited", "reaped"}, NEW e \in EndsOf(c)
      PROVE  FALSE
  BY <1>1, <1>4, EndsParts DEF OwnOnly, Over
<1>5. /\ pc \in {"pipe", "wait", "done", "died"} => EndsOf(Main) = {}
      /\ \A c \in Children :
            /\ prog[c] \in {"running", "ending"} => EndsOf(c) \subseteq OwnEnds(c)
            /\ prog[c] \in {"exited", "reaped"} => EndsOf(c) = {}
  BY <1>2, <1>3, <1>4
<1> QED
  BY <1>5 DEF DescriptorsReturned

-----------------------------------------------------------------------------
(* Which children there are *)

(* No child is forked at the start. *)
LEMMA InitStarted == Init => Started
<1> SUFFICES ASSUME Init PROVE Started
  OBVIOUS
<1>1. pc = "pipe" /\ row = 1 /\ \A c \in Children : prog[c] = "none" /\ c[1] \in 1..K
  BY DEF Init, Children
<1>2. \A c \in Children : ~Forked(c)
  BY <1>1, PipelineAssumption DEF Forked
<1> QED
  BY <1>1, <1>2 DEF Started

(* The steps of the parent keep Started. *)
LEMMA ParentStarted == Types /\ Started /\ [Next]_vars /\ Parent => Started'
<1> SUFFICES ASSUME Types, Started, [Next]_vars, Parent, pc' # "died",
                    NEW c \in Children
             PROVE  prog'[c] = "none" <=> ~Forked(c)'
  BY DEF Started
<1>1. program' = program /\ Rows' = Rows
  BY Fixed
<1>2. /\ K \in Nat /\ K >= 1 /\ Rows \in 1..K /\ (program = "cv_5" => Rows = K)
      /\ (program = "pr_5" => Rows = 1)
  BY Sizes DEF Rows
<1>3. c[1] \in 1..K /\ c[2] \in 0..3 /\ c = <<c[1], c[2]>>
  BY Grid
<1>4. row \in 1..Rows /\ row \in 1..K /\ stage \in 0..3 /\ prog \in [Children -> ChildPlaces]
  BY <1>2 DEF Types
<1>5. pc # "died" => (prog[c] = "none" <=> ~Forked(c))
  BY DEF Started
<1> USE DEF ChildPlaces, Up, Over
<1>6. CASE MakePipes
  <2>1. pc = "pipe" /\ pc' = "fork" /\ stage = 0 /\ stage' = 0 /\ row' = row /\ prog' = prog
    BY <1>6 DEF MakePipes, Die, Types
  <2>2. Forked(c)' <=> Forked(c)
    BY <1>1, <1>3, <2>1 DEF Forked
  <2> QED
    BY <1>5, <2>1, <2>2
<1>7. CASE Fork
  <2>1. /\ pc = "fork" /\ pc' = "close" /\ stage' = stage /\ row' = row
        /\ prog' = [prog EXCEPT ![<<row, stage>>] = "forked"]
    BY <1>7 DEF Fork, Die
  <2>2. CASE c = <<row, stage>>
    <3>1. prog'[c] = "forked" /\ c[1] = row /\ c[2] = stage
      BY <1>4, <2>1, <2>2
    <3>2. Forked(c)'
      BY <1>4, <2>1, <3>1 DEF Forked
    <3> QED
      BY <3>1, <3>2
  <2>3. CASE c # <<row, stage>>
    <3>1. prog'[c] = prog[c] /\ (c[1] # row \/ c[2] # stage)
      BY <1>3, <1>4, <2>1, <2>3
    <3>2. Forked(c)' <=> Forked(c)
      BY <1>1, <1>3, <1>4, <2>1, <3>1 DEF Forked
    <3> QED
      BY <1>5, <2>1, <3>1, <3>2
  <2> QED
    BY <2>2, <2>3
<1>8. CASE CloseEnds
  <2>1. /\ row' = row /\ prog' = prog /\ pc = "close"
        /\ \/ stage < 3 /\ pc' = "fork" /\ stage' = stage + 1
           \/ stage = 3 /\ program = "cv_5" /\ pc' = "fdopen"
           \/ stage = 3 /\ program = "pr_5" /\ pc' = "wait"
    BY <1>8 DEF CloseEnds
  <2>2. Forked(c) <=> c[1] < row \/ (c[1] = row /\ c[2] <= stage)
    BY <2>1 DEF Forked
  <2>3. CASE pc' = "fork" /\ stage' = stage + 1
    <3>1. Forked(c)' <=> c[1] < row \/ (c[1] = row /\ c[2] < stage + 1)
      BY <2>1, <2>3 DEF Forked
    <3> QED
      BY <1>3, <1>4, <1>5, <2>1, <2>2, <3>1
  <2>4. CASE stage = 3 /\ pc' = "fdopen"
    <3>1. Forked(c)' <=> c[1] < row \/ c[1] = row
      BY <2>1, <2>4 DEF Forked
    <3> QED
      BY <1>3, <1>5, <2>1, <2>2, <2>4, <3>1
  <2>5. CASE stage = 3 /\ program = "pr_5" /\ pc' = "wait"
    <3>1. Forked(c)' <=> c[1] < row \/ c[1] <= Rows
      BY <1>1, <2>1, <2>5 DEF Forked
    <3>2. Rows = 1 /\ row = 1
      BY <1>2, <1>4, <2>5
    <3>3. c[1] <= 1 <=> c[1] = 1
      BY <1>3
    <3> QED
      BY <1>3, <1>5, <2>1, <2>2, <2>5, <3>1, <3>2, <3>3
  <2> QED
    BY <2>1, <2>3, <2>4, <2>5
<1>9. CASE OpenTotals
  <2>1. pc = "fdopen" /\ pc' = "read" /\ row' = row /\ prog' = prog
    BY <1>9 DEF OpenTotals, Die
  <2>2. Forked(c)' <=> Forked(c)
    BY <2>1 DEF Forked
  <2> QED
    BY <1>5, <2>1, <2>2
<1>10. CASE ReadTotal
  BY <1>1, <1>5, <1>10 DEF ReadTotal, parent, Forked
<1>11. CASE EndOfTotals
  <2>1. /\ pc = "read" /\ prog' = prog /\ program = "cv_5"
        /\ \/ row = K /\ pc' = "wait" /\ row' = 1
           \/ row # K /\ pc' = "pipe" /\ row' = row + 1
    BY <1>11 DEF EndOfTotals, Types
  <2>2. Forked(c) <=> c[1] < row \/ c[1] = row
    BY <2>1 DEF Forked
  <2>3. CASE row = K /\ pc' = "wait" /\ row' = 1
    <3>1. Forked(c)'
      BY <1>1, <1>2, <1>3, <2>1, <2>3 DEF Forked
    <3>2. Forked(c)
      BY <1>2, <1>3, <2>2, <2>3
    <3> QED
      BY <1>5, <2>1, <3>1, <3>2
  <2>4. CASE row # K /\ pc' = "pipe" /\ row' = row + 1
    <3>1. Forked(c)' <=> c[1] < row + 1
      BY <2>4 DEF Forked
    <3> QED
      BY <1>3, <1>4, <1>5, <2>1, <2>2, <3>1
  <2> QED
    BY <2>1, <2>3, <2>4
<1>12. CASE Wait
  <2>1. /\ pc = "wait" /\ pc' \in {"wait", "done"} /\ row' \in 1..Rows
        /\ prog[c] = "none" <=> prog'[c] = "none"
    BY <1>2, <1>4, <1>12 DEF Wait
  <2>2. Forked(c)' <=> c[1] <= Rows
    BY <1>1, <1>2, <1>3, <2>1 DEF Forked
  <2>3. Forked(c) <=> c[1] <= Rows
    BY <1>2, <1>3, <1>4, <2>1 DEF Forked
  <2> QED
    BY <1>5, <2>1, <2>2, <2>3
<1> QED
  BY <1>6, <1>7, <1>8, <1>9, <1>10, <1>11, <1>12 DEF Parent

(* Every step keeps Started. *)
LEMMA StepStarted == Types /\ Started /\ [Next]_vars => Started'
<1> SUFFICES ASSUME Types, Started, [Next]_vars PROVE Started'
  OBVIOUS
<1>1. CASE Parent
  BY <1>1, ParentStarted
<1>2. ASSUME NEW c \in Children, Child(c)
      PROVE  Started'
  <2>1. row' = row /\ stage' = stage /\ pc' = pc
    BY <1>2 DEF Child, Exec, PrintNumber, Scan, Flush, PrintTotal, BrokenPipe, EndOfInput,
                Return, parent
  <2>2. \A d \in Children : prog'[d] = "none" <=> prog[d] = "none"
    BY <1>2 DEF Child, Exec, Exit, PrintNumber, Scan, Flush, PrintTotal, BrokenPipe,
                EndOfInput, Return, Types
  <2> QED
    BY <2>1, <2>2, Fixed DEF Started, Forked
<1>3. CASE UNCHANGED vars
  BY <1>3, Fixed DEF Started, Forked, vars, parent
<1> QED
  BY <1>1, <1>2, <1>3 DEF Next

-----------------------------------------------------------------------------
(* Nobody is missed *)

(* When no call has failed after a step, none failed in it. *)
LEMMA NoFailure ==
    ASSUME Types, [Next]_vars, failures' = 0
    PROVE  failures = 0 /\ ~MayFail
<1>1. ~MayFail
  BY DEF MayFail, Types
<1>2. failures' = failures
  BY <1>1 DEF Next, Parent, Child, MakePipes, Fork, CloseEnds, OpenTotals, ReadTotal,
              EndOfTotals, Wait, Exec, PrintNumber, Scan, Flush, PrintTotal, BrokenPipe,
              EndOfInput, Return, Die, vars
<1> QED
  BY <1>1, <1>2

(* A pipe nobody can write to any more was written by a child that has       *)
(* exited.                                                                   *)
LEMMA WriterGone ==
    ASSUME Types, Ends, NEW c \in Pipes, prog[c] # "none", Writers(c) = {}
    PROVE  prog[c] \in Over
<1>1. c \in Children /\ prog[c] \in ChildPlaces
  BY Grid DEF Types
<1>2. prog[c] \notin Up
  <2>1. SUFFICES ASSUME prog[c] \in Up PROVE FALSE
    OBVIOUS
  <2>2. <<c, c, "w">> \in holds
    BY <1>1, <2>1, EndsParts DEF OwnThere
  <2>3. c \in Writers(c)
    BY <1>1, <2>2 DEF Writers
  <2> QED
    BY <2>3
<1> QED
  BY <1>1, <1>2 DEF ChildPlaces

(* A child is forked after the one it reads from. *)
LEMMA SourceForked ==
    ASSUME Types, Started, pc # "died", NEW c \in Children, prog[c] # "none", c[2] > 0
    PROVE  prog[In(c)] # "none"
<1>1. /\ In(c) \in Children /\ In(c)[1] = c[1] /\ In(c)[2] = c[2] - 1
      /\ c[2] \in 1..3 /\ c[2] - 1 \in 0..2
  BY InAPipe
<1>2. Forked(c)
  BY DEF Started
<1>3. stage \in 0..3 /\ c[2] - 1 < c[2]
  BY <1>1 DEF Types
<1>4. Forked(In(c))
  BY <1>1, <1>2, <1>3 DEF Forked
<1> QED
  BY <1>1, <1>4 DEF Started

(* The reader of a pipe is its child, or the parent until it is forked.      *)
LEMMA ReaderThere ==
    ASSUME Types, Ends, Started, Ordered, Drained, failures = 0,
           NEW c \in Pipes, prog[c] \in {"running", "ending"}
    PROVE  Readers(c) # {}
<1>1. /\ c = <<c[1], c[2]>> /\ c[1] \in 1..Rows /\ c[1] \in 1..K /\ c[2] \in PipeStages
      /\ c[2] \in 0..3 /\ c \in Children /\ (c[2] = 3 => program = "cv_5")
  BY Grid, Sizes
<1>2. Forked(c) /\ row \in 1..Rows /\ stage \in 0..3
  BY <1>1 DEF Started, Ordered, Types
<1>3. ASSUME MainHas(c, "r")
      PROVE  Readers(c) # {}
  <2>1. <<Main, c, "r">> \in holds
    BY <1>3, EndsParts DEF MainEnds
  <2> QED
    BY <2>1 DEF Readers
<1>4. CASE c[2] = 3
  <2>1. prog[<<c[1], 3>>] \notin Over
    BY <1>1, <1>4 DEF Over
  <2>2. ~(pc \in {"wait", "done"} \/ c[1] < row)
    BY <1>1, <1>4, <2>1 DEF Drained
  <2>3. MainHas(c, "r")
    BY <1>2, <1>4, <2>2 DEF Forked, MainHas
  <2> QED
    BY <1>3, <2>3
<1>5. CASE c[2] \in 0..2
  <2>1. PICK d \in Children : d = <<c[1], c[2] + 1>>
    <3>1. c[2] + 1 \in 0..3
      BY <1>5
    <3> QED
      BY <1>1, <3>1, Grid
  <2>2. In(d) = c /\ d[1] = c[1] /\ d[2] = c[2] + 1 /\ d[2] \in 1..3 /\ d[2] > 0
    BY <1>1, <1>5, <2>1 DEF In
  <2>3. prog[d] \notin Over
    <3>1. SUFFICES ASSUME prog[d] \in Past PROVE prog[<<d[1], d[2] - 1>>] \in Over
      BY <2>2 DEF Past, Over, In
    <3>2. d = <<d[1], d[2]>>
      BY <2>1
    <3> QED
      BY <1>1, <2>2, <3>1, <3>2 DEF Ordered
  <2>4. CASE prog[d] = "none"
    <3>1. ~Forked(d)
      BY <2>4 DEF Started, Ordered
    <3>2. MainHas(c, "r")
      BY <1>1, <1>2, <1>5, <2>2, <3>1 DEF Forked, MainHas
    <3> QED
      BY <1>3, <3>2
  <2>5. CASE prog[d] \in Up
    <3>1. <<d, c, "r">> \in holds
      BY <2>2, <2>5, EndsParts DEF OwnThere
    <3> QED
      BY <3>1 DEF Readers
  <2> QED
    BY <2>3, <2>4, <2>5 DEF Types, ChildPlaces
<1> QED
  BY <1>1, <1>4, <1>5

(* What is over stays as it is. *)
LEMMA Frozen ==
    ASSUME Types, Started, [Next]_vars, NEW d \in Children, prog[d] \in Over
    PROVE  /\ prog'[d] \in Over /\ out'[d] = out[d] /\ printed'[d] = printed[d]
           /\ d \in Pipes /\ content[d] = <<>> => content'[d] = <<>>
<1>1. /\ prog \in [Children -> ChildPlaces] /\ out \in [Children -> Seq(Numbers)]
      /\ printed \in [Children -> 0..N] /\ content \in [Pipes -> Seq(Numbers)]
  BY DEF Types
<1>2. CASE Parent
  <2>1. out' = out /\ printed' = printed
    BY <1>2 DEF Parent, MakePipes, Fork, CloseEnds, OpenTotals, ReadTotal, EndOfTotals, Wait,
                work
  <2>2. prog'[d] \in Over
    <3>1. CASE Fork /\ prog' = [prog EXCEPT ![<<row, stage>>] = "forked"]
      <4>1. d # <<row, stage>>
        <5>1. SUFFICES ASSUME d = <<row, stage>> PROVE FALSE
          OBVIOUS
        <5>2. pc = "fork" /\ row \in 1..Rows /\ stage \in 0..3 /\ d[1] = row /\ d[2] = stage
          BY <3>1, <5>1 DEF Fork, Types
        <5>3. row \in Nat /\ Rows \in Nat
          BY <5>2, Sizes
        <5>4. ~Forked(d)
          BY <5>2, <5>3 DEF Forked
        <5> QED
          BY <5>2, <5>4 DEF Started, Over
      <4> QED
        BY <1>1, <3>1, <4>1
    <3>2. CASE Wait
      BY <1>1, <3>2 DEF Wait, Over
    <3>3. CASE prog' = prog
      BY <3>3
    <3> QED
      BY <1>2, <3>1, <3>2, <3>3 DEF Parent, MakePipes, Fork, CloseEnds, OpenTotals, ReadTotal,
                                    EndOfTotals
  <2>3. content' = content \/ (ReadTotal /\ content' = [content EXCEPT ![Result] = Tail(@)])
    BY <1>2 DEF Parent, MakePipes, Fork, CloseEnds, OpenTotals, ReadTotal, EndOfTotals, Wait
  <2>4. ReadTotal => content[Result] # <<>>
    BY DEF ReadTotal
  <2>5. d \in Pipes /\ content[d] = <<>> => content'[d] = <<>>
    BY <1>1, <2>3, <2>4
  <2> QED
    BY <2>1, <2>2, <2>5
<1>3. ASSUME NEW c \in Children, Child(c)
      PROVE  /\ prog'[d] \in Over /\ out'[d] = out[d] /\ printed'[d] = printed[d]
             /\ d \in Pipes /\ content[d] = <<>> => content'[d] = <<>>
  <2>1. prog[c] \notin Over /\ c # d
    BY <1>3 DEF Child, Exec, PrintNumber, Scan, Flush, PrintTotal, BrokenPipe, EndOfInput,
                Return, Over
  <2>2. /\ \A e \in Children : e # c =>
              prog'[e] = prog[e] /\ out'[e] = out[e] /\ printed'[e] = printed[e]
    BY <1>1, <1>3 DEF Child, Exec, Exit, PrintNumber, Scan, Flush, PrintTotal, BrokenPipe,
                EndOfInput, Return, work
  <2>3. \/ content' = content
        \/ content[In(c)] # <<>> /\ content' = [content EXCEPT ![In(c)] = Tail(@)]
        \/ content' = [content EXCEPT ![c] = Append(@, Head(out[c]))]
    BY <1>3 DEF Child, Exec, PrintNumber, Scan, Flush, PrintTotal, BrokenPipe, EndOfInput,
                Return
  <2>4. d \in Pipes /\ content[d] = <<>> => content'[d] = <<>>
    BY <1>1, <2>1, <2>3
  <2> QED
    BY <2>1, <2>2, <2>4
<1>4. CASE UNCHANGED vars
  BY <1>4 DEF vars, work
<1> QED
  BY <1>2, <1>3, <1>4 DEF Next

(* How a child gets past its input, and how it comes to its end. *)
LEMMA NewPast ==
    ASSUME Types, Ends, Started, Ordered, Drained, [Next]_vars, failures' = 0,
           NEW c \in Children
    PROVE  /\ broken' = {}
           /\ prog'[c] \in Past /\ prog[c] \notin Past => EndOfInput(c)
           /\ prog'[c] \in Over /\ prog[c] \notin Over => Return(c)
<1>1. failures = 0 /\ ~MayFail
  BY NoFailure
<1>2. prog \in [Children -> ChildPlaces] /\ broken = {}
  BY <1>1 DEF Types, Ordered
<1> USE DEF Past, Over
<1>3. CASE Parent
  <2>1. broken' = broken
    BY <1>3 DEF Parent, MakePipes, Fork, CloseEnds, OpenTotals, ReadTotal, EndOfTotals, Wait
  <2>2. prog'[c] = prog[c] \/ prog'[c] = "forked" \/ (prog[c] = "exited" /\ prog'[c] = "reaped")
    BY <1>2, <1>3 DEF Parent, MakePipes, Fork, CloseEnds, OpenTotals, ReadTotal, EndOfTotals,
                      Wait
  <2> QED
    BY <1>2, <2>1, <2>2
<1>4. ASSUME NEW d \in Children, Child(d)
      PROVE  /\ broken' = {}
             /\ prog'[c] \in Past /\ prog[c] \notin Past => EndOfInput(c)
             /\ prog'[c] \in Over /\ prog[c] \notin Over => Return(c)
  <2>1. ~BrokenPipe(d)
    BY <1>1, ReaderThere DEF BrokenPipe
  <2>2. broken' = broken
    BY <1>4, <2>1 DEF Child, Exec, PrintNumber, Scan, Flush, PrintTotal, EndOfInput, Return
  <2>3. \/ prog'[c] = prog[c]
        \/ prog[c] = "forked" /\ prog'[c] = "running"
        \/ c = d /\ EndOfInput(d) /\ prog[d] = "running" /\ prog'[d] = "ending"
        \/ c = d /\ Return(d) /\ prog[d] = "ending" /\ prog'[d] = "exited"
    <3>1. CASE EndOfInput(d)
      BY <1>2, <3>1 DEF EndOfInput
    <3>2. CASE Return(d)
      BY <1>2, <3>2 DEF Return, Exit
    <3>3. CASE Exec(d)
      BY <1>1, <1>2, <3>3 DEF Exec
    <3>4. CASE prog' = prog
      BY <3>4
    <3> QED
      BY <1>4, <2>1, <3>1, <3>2, <3>3, <3>4 DEF Child, PrintNumber, Scan, Flush, PrintTotal
  <2> QED
    BY <1>2, <2>2, <2>3
<1>5. CASE UNCHANGED vars
  BY <1>2, <1>5 DEF vars
<1> QED
  BY <1>3, <1>4, <1>5 DEF Next

(* While nothing fails, every step keeps the order in which the children of  *)
(* a row end.                                                                *)
LEMMA StepOrdered ==
    Types /\ Ends /\ Started /\ Ordered /\ Drained /\ [Next]_vars => Ordered'
<1> SUFFICES ASSUME Types, Ends, Started, Ordered, Drained, [Next]_vars, failures' = 0
             PROVE  /\ pc' # "died" /\ broken' = {}
                    /\ \A i \in 1..Rows :
                          /\ \A j \in 1..3 : prog'[<<i, j>>] \in Past =>
                                prog'[<<i, j - 1>>] \in Over /\ content'[<<i, j - 1>>] = <<>>
                          /\ \A j \in 0..3 : prog'[<<i, j>>] \in Over => out'[<<i, j>>] = <<>>
                          /\ prog'[<<i, 0>>] \in Past => printed'[<<i, 0>>] = N
  BY Fixed DEF Ordered
<1>1. failures = 0 /\ ~MayFail
  BY NoFailure
<1>2. /\ pc # "died" /\ prog \in [Children -> ChildPlaces] /\ out \in [Children -> Seq(Numbers)]
  BY <1>1 DEF Ordered, Types
<1>3. pc' # "died"
  BY <1>1, <1>2 DEF Next, Parent, Child, MakePipes, Fork, CloseEnds, OpenTotals, ReadTotal,
              EndOfTotals, Wait, Exec, PrintNumber, Scan, Flush, PrintTotal, BrokenPipe,
              EndOfInput, Return, Die, vars, parent
<1>4. broken' = {}
  <2>1. <<1, 0>> \in Children
    BY Grid, Sizes
  <2> QED
    BY <2>1, NewPast
<1>5. ASSUME NEW i \in 1..Rows, NEW j \in 1..3, prog'[<<i, j>>] \in Past
      PROVE  prog'[<<i, j - 1>>] \in Over /\ content'[<<i, j - 1>>] = <<>>
  <2>1. j \in 0..3 /\ j - 1 \in 0..2 /\ j - 1 \in 0..3 /\ j > 0
    OBVIOUS
  <2>2. PICK c \in Children : c = <<i, j>> /\ c[1] = i /\ c[2] = j
    BY <2>1, Cell
  <2>3. PICK d \in Pipes : d = <<i, j - 1>> /\ d = In(c)
    BY <2>1, <2>2, Cell DEF In
  <2>4. prog[d] \in Over /\ content[d] = <<>>
    <3>1. CASE prog[c] \in Past
      BY <1>1, <2>2, <2>3, <3>1 DEF Ordered
    <3>2. CASE prog[c] \notin Past
      <4>1. EndOfInput(c)
        BY <1>5, <2>2, <3>2, NewPast
      <4>2. prog[c] = "running" /\ content[d] = <<>> /\ Writers(d) = {}
        BY SMTT(30), <2>2, <2>3, <4>1 DEF EndOfInput, AtEnd
      <4>3. prog[d] # "none"
        BY <1>2, <2>1, <2>2, <2>3, <4>2, SourceForked
      <4> QED
        BY <4>2, <4>3, WriterGone
    <3> QED
      BY <3>1, <3>2
  <2>5. d \in Children
    BY Grid
  <2> QED
    BY <2>3, <2>4, <2>5, Frozen
<1>6. ASSUME NEW i \in 1..Rows, NEW j \in 0..3, prog'[<<i, j>>] \in Over
      PROVE  out'[<<i, j>>] = <<>>
  <2>1. PICK c \in Children : c = <<i, j>>
    BY Cell
  <2>2. CASE prog[c] \in Over
    BY <1>1, <2>1, <2>2, Frozen DEF Ordered
  <2>3. CASE prog[c] \notin Over
    <3>1. Return(c)
      BY <1>6, <2>1, <2>3, NewPast
    <3> QED
      BY <2>1, <3>1 DEF Return, work
  <2> QED
    BY <2>2, <2>3
<1>7. ASSUME NEW i \in 1..Rows, prog'[<<i, 0>>] \in Past
      PROVE  printed'[<<i, 0>>] = N
  <2>1. PICK c \in Children : c = <<i, 0>> /\ c[2] = 0
    <3>1. 0 \in 0..3
      OBVIOUS
    <3> QED
      BY <3>1, Cell
  <2>2. CASE prog[c] \in Past
    <3>1. printed[c] = N
      BY <1>1, <2>1, <2>2 DEF Ordered
    <3>2. printed'[c] = printed[c]
      <4>1. CASE \E d \in Children : PrintNumber(d)
        BY <2>2, <4>1 DEF PrintNumber, Past, Over, Types
      <4>2. CASE printed' = printed
        BY <4>2
      <4> QED
        BY <4>1, <4>2 DEF Next, Parent, Child, MakePipes, Fork, CloseEnds, OpenTotals,
              ReadTotal, EndOfTotals, Wait, Exec, Scan, Flush, PrintTotal, BrokenPipe,
              EndOfInput, Return, vars, work
    <3> QED
      BY <2>1, <3>1, <3>2
  <2>3. CASE prog[c] \notin Past
    <3>1. EndOfInput(c)
      BY <1>7, <2>1, <2>3, NewPast
    <3> QED
      BY <2>1, <3>1 DEF EndOfInput, AtEnd
  <2> QED
    BY <2>2, <2>3
<1> QED
  BY <1>3, <1>4, <1>5, <1>6, <1>7

(* The parent does not go on before the total of the row is read. *)
LEMMA StepDrained == Types /\ Ends /\ Started /\ Ordered /\ Drained /\ [Next]_vars => Drained'
<1> SUFFICES ASSUME Types, Ends, Started, Ordered, Drained, [Next]_vars, failures' = 0
             PROVE  /\ \A i \in 1..Rows :
                         program = "cv_5" /\ (pc' \in {"wait", "done"} \/ i < row') =>
                            prog'[<<i, 3>>] \in Over /\ content'[<<i, 3>>] = <<>>
                    /\ program = "pr_5" /\ pc' = "done" => prog'[<<1, 3>>] \in Over
  BY Fixed DEF Drained
<1>1. failures = 0 /\ pc # "died"
  BY NoFailure DEF Ordered
<1>2. /\ Rows \in 1..K /\ K \in Nat /\ row \in 1..Rows /\ row \in Nat /\ stage \in 0..3
      /\ prog \in [Children -> ChildPlaces]
  BY Sizes DEF Types
<1>3. ASSUME NEW i \in 1..Rows, program = "cv_5", pc' \in {"wait", "done"} \/ i < row'
      PROVE  prog'[<<i, 3>>] \in Over /\ content'[<<i, 3>>] = <<>>
  <2>1. PICK c \in Pipes : c = <<i, 3>> /\ c[1] = i /\ c[2] = 3
    BY <1>3, Grid, Sizes
  <2>2. c \in Children
    BY Grid
  <2>3. prog[c] \in Over /\ content[c] = <<>>
    <3>1. CASE pc \in {"wait", "done"} \/ i < row
      BY <1>1, <1>3, <2>1, <3>1 DEF Drained
    <3>2. CASE EndOfTotals /\ ~(pc \in {"wait", "done"} \/ i < row)
      <4>1. pc = "read" /\ content[Result] = <<>> /\ Writers(Result) = {}
        BY <3>2 DEF EndOfTotals
      <4>2. i = row
        <5>1. row = K \/ row' = row + 1
          BY <3>2 DEF EndOfTotals
        <5>2. CASE row = K
          BY <1>2, <3>2, <5>2
        <5>3. CASE row # K
          <6>1. row' = row + 1 /\ pc' = "pipe"
            BY <3>2, <5>3 DEF EndOfTotals
          <6> QED
            BY <1>2, <1>3, <3>2, <6>1
        <5> QED
          BY <5>2, <5>3
      <4>3. c = Result
        BY <2>1, <4>2 DEF Result
      <4>4. Forked(c)
        BY <2>1, <4>1, <4>2 DEF Forked
      <4>5. prog[c] # "none"
        BY <1>1, <2>2, <4>4 DEF Started
      <4> QED
        BY <4>1, <4>3, <4>5, WriterGone
    <3>3. CASE ~EndOfTotals /\ ~(pc \in {"wait", "done"} \/ i < row)
      <4>1. row' = row /\ (pc' \in {"wait", "done"} => program = "pr_5")
        BY <3>3 DEF Next, Parent, Child, MakePipes, Fork, CloseEnds, OpenTotals, ReadTotal,
              Wait, Exec, PrintNumber, Scan, Flush, PrintTotal, BrokenPipe, EndOfInput,
              Return, Die, vars, parent
      <4> QED
        BY <1>3, <3>3, <4>1
    <3> QED
      BY <3>1, <3>2, <3>3
  <2> QED
    BY <2>1, <2>2, <2>3, Frozen
<1>4. ASSUME program = "pr_5", pc' = "done"
      PROVE  prog'[<<1, 3>>] \in Over
  <2>1. PICK c \in Children : c = <<1, 3>>
    <3>1. 1 \in 1..Rows /\ 3 \in 0..3
      BY <1>2
    <3> QED
      BY <3>1, Cell
  <2>2. prog[c] \in Over \/ prog'[c] \in Over
    <3>1. CASE pc = "done"
      BY <1>1, <1>4, <2>1, <3>1 DEF Drained
    <3>2. CASE pc # "done"
      <4>1. Wait /\ stage = 3 /\ row = Rows
        BY <1>4, <3>2 DEF Next, Parent, Child, MakePipes, Fork, CloseEnds, OpenTotals,
              ReadTotal, EndOfTotals, Wait, Exec, PrintNumber, Scan, Flush, PrintTotal,
              BrokenPipe, EndOfInput, Return, Die, vars, parent
      <4>2. Rows = 1
        BY <1>4 DEF Rows
      <4> QED
        BY <1>2, <2>1, <4>1, <4>2 DEF Wait, Over
    <3> QED
      BY <3>1, <3>2
  <2> QED
    BY <2>1, <2>2, Frozen
<1> QED
  BY <1>3, <1>4

-----------------------------------------------------------------------------
(* The numbers on their way through a row *)

(* Cut does not depend on more than the six places. *)
LEMMA CutSame ==
    ASSUME NEW cut, NEW p, NEW s, NEW t, Cut(cut, p, s, t), NEW u,
           \A y \in 1..6 : u[y] = s[y]
    PROVE  Cut(cut, p, u, t)
BY DEF Cut

(* Nothing flows at the start. *)
LEMMA InitFlows == Init => Flows
<1> SUFFICES ASSUME Init, NEW i \in 1..Rows
             PROVE  \E cut : Cut(cut, printed[<<i, 0>>], Pieces(i), seen[<<i, 3>>])
  BY DEF Flows
<1>1. Types
  BY InitTypes
<1>2. /\ \E c \in Children : c = <<i, 0>>
      /\ \E c \in Children : c = <<i, 1>>
      /\ \E c \in Children : c = <<i, 2>>
      /\ \E c \in Children : c = <<i, 3>>
      /\ \E q \in Pipes : q = <<i, 0>>
      /\ \E q \in Pipes : q = <<i, 1>>
      /\ \E q \in Pipes : q = <<i, 2>>
  BY <1>1, Cell
<1>3. printed[<<i, 0>>] = 0 /\ seen[<<i, 3>>] = <<>>
  BY <1>2 DEF Init
<1>4. Pieces(i) = <<<<>>, <<>>, <<>>, <<>>, <<>>, <<>>>>
  BY <1>2 DEF Init, Pieces
<1>5. \A y \in 1..6 : Pieces(i)[y] = <<>>
  BY <1>4
<1> DEFINE cut == [y \in 0..6 |-> 0]
<1>6. cut \in [0..6 -> 0..N] /\ \A y \in 0..6 : cut[y] = 0
  BY Limits
<1> HIDE DEF cut
<1>7. \A P : Rising(<<>>, P \cap ((0 + 1)..0))
  BY DEF Rising
<1>8. Counts(<<>>, Kept \cap (1..0))
  BY DEF Counts
<1>9. ASSUME NEW z \in 1..6
      PROVE  cut[z] <= cut[z - 1]
             /\ Rising(Pieces(i)[z], Passed(z) \cap ((cut[z] + 1)..cut[z - 1]))
  <2>1. cut[z] = 0 /\ cut[z - 1] = 0
    BY <1>6, Indexes
  <2> QED
    BY <1>5, <1>7, <2>1
<1>10. cut[0] = 0 /\ cut[6] = 0
  BY <1>6
<1>11. Cut(cut, 0, Pieces(i), <<>>)
  BY <1>6, <1>8, <1>9, <1>10 DEF Cut
<1> QED
  BY <1>3, <1>11

(* How a number that moves shows in the six pieces. *)
LEMMA MovedFrom1 ==
    ASSUME NEW s \in [1..6 -> Seq(Numbers)], NEW u \in [1..6 -> Seq(Numbers)],
           s[1] # <<>>, u[1] = Tail(s[1]), u[3] = s[3], u[4] = s[4], u[5] = s[5], u[6] = s[6],
           u[2] = Append(s[2], Head(s[1]))
    PROVE  Moved(s, u, 1)
<1>1. \A y \in 1..6 : y # 1 /\ y # 1 + 1 => u[y] = s[y]
  BY SMTT(30)
<1>2. 1 + 1 = 2 /\ 1 # 2
  OBVIOUS
<1> QED
  BY <1>1, <1>2 DEF Moved

(* filter takes a number and keeps or drops it. *)
LEMMA MovedFrom2 ==
    ASSUME NEW s \in [1..6 -> Seq(Numbers)], NEW u \in [1..6 -> Seq(Numbers)],
           s[2] # <<>>, u[2] = Tail(s[2]), u[1] = s[1], u[4] = s[4], u[5] = s[5], u[6] = s[6],
           \/ u[3] = Append(s[3], Head(s[2])) /\ Head(s[2])[1] \in Kept
           \/ u[3] = s[3] /\ Head(s[2])[1] \notin Kept
    PROVE  Moved(s, u, 2)
<1>1. \A y \in 1..6 : y # 2 /\ y # 2 + 1 => u[y] = s[y]
  BY SMTT(30)
<1>2. 2 + 1 = 3
  OBVIOUS
<1> QED
  BY <1>1, <1>2 DEF Moved

(* A number goes from filter into its pipe. *)
LEMMA MovedFrom3 ==
    ASSUME NEW s \in [1..6 -> Seq(Numbers)], NEW u \in [1..6 -> Seq(Numbers)],
           s[3] # <<>>, u[3] = Tail(s[3]), u[1] = s[1], u[2] = s[2], u[5] = s[5], u[6] = s[6],
           u[4] = Append(s[4], Head(s[3]))
    PROVE  Moved(s, u, 3)
<1>1. \A y \in 1..6 : y # 3 /\ y # 3 + 1 => u[y] = s[y]
  BY SMTT(30)
<1>2. 3 + 1 = 4 /\ 3 # 2
  OBVIOUS
<1> QED
  BY <1>1, <1>2 DEF Moved

(* transform takes a number. *)
LEMMA MovedFrom4 ==
    ASSUME NEW s \in [1..6 -> Seq(Numbers)], NEW u \in [1..6 -> Seq(Numbers)],
           s[4] # <<>>, u[4] = Tail(s[4]), u[1] = s[1], u[2] = s[2], u[3] = s[3], u[6] = s[6],
           u[5] = Append(s[5], Head(s[4]))
    PROVE  Moved(s, u, 4)
<1>1. \A y \in 1..6 : y # 4 /\ y # 4 + 1 => u[y] = s[y]
  BY SMTT(30)
<1>2. 4 + 1 = 5 /\ 4 # 2
  OBVIOUS
<1> QED
  BY <1>1, <1>2 DEF Moved

(* A number goes from transform to the pipe of sum. *)
LEMMA MovedFrom5 ==
    ASSUME NEW s \in [1..6 -> Seq(Numbers)], NEW u \in [1..6 -> Seq(Numbers)],
           s[5] # <<>>, u[5] = Tail(s[5]), u[1] = s[1], u[2] = s[2], u[3] = s[3], u[4] = s[4],
           u[6] = Append(s[6], Head(s[5]))
    PROVE  Moved(s, u, 5)
<1>1. \A y \in 1..6 : y # 5 /\ y # 5 + 1 => u[y] = s[y]
  BY SMTT(30)
<1>2. 5 + 1 = 6 /\ 5 # 2
  OBVIOUS
<1> QED
  BY <1>1, <1>2 DEF Moved

(* Every step keeps the cuts of each row. *)
LEMMA StepFlows ==
    Types /\ Started /\ Flows /\ [Next]_vars => Flows'
<1> SUFFICES ASSUME Types, Started, Flows, [Next]_vars, failures' = 0, NEW i \in 1..Rows
             PROVE  \E cut : Cut(cut, printed'[<<i, 0>>], Pieces(i)', seen'[<<i, 3>>])
  BY Fixed DEF Flows
<1>1. failures = 0 /\ Types' /\ Pipes' = Pipes
  BY Fixed, NoFailure, StepTypes
<1>2. /\ 0 \in 0..3 /\ 1 \in 0..3 /\ 2 \in 0..3 /\ 3 \in 0..3
      /\ 0 \in 0..2 /\ 1 \in 0..2 /\ 2 \in 0..2
  OBVIOUS
<1>3. PICK c0 \in Pipes : c0 = <<i, 0>> /\ c0[1] = i /\ c0[2] = 0
  BY <1>2, Cell
<1>4. PICK c1 \in Pipes : c1 = <<i, 1>> /\ c1[1] = i /\ c1[2] = 1
  BY <1>2, Cell
<1>5. PICK c2 \in Pipes : c2 = <<i, 2>> /\ c2[1] = i /\ c2[2] = 2
  BY <1>2, Cell
<1>6. PICK c3 \in Children : c3 = <<i, 3>> /\ c3[1] = i /\ c3[2] = 3
  BY <1>2, Cell
<1>7. c0 \in Children /\ c1 \in Children /\ c2 \in Children
  BY Grid
<1>8. /\ out \in [Children -> Seq(Numbers)] /\ content \in [Pipes -> Seq(Numbers)]
      /\ out' \in [Children -> Seq(Numbers)] /\ content' \in [Pipes -> Seq(Numbers)]
      /\ printed \in [Children -> 0..N] /\ seen \in [Children -> Numbers]
      /\ prog \in [Children -> ChildPlaces] /\ c0 # c1 /\ c0 # c2 /\ c0 # c3 /\ c1 # c2
      /\ c1 # c3 /\ c2 # c3
  BY SMTT(30), <1>1, <1>3, <1>4, <1>5, <1>6 DEF Types
<1>9. PICK s : /\ s = Pieces(i) /\ s \in [1..6 -> Seq(Numbers)]
               /\ s[1] = out[c0] /\ s[2] = content[c0] /\ s[3] = out[c1] /\ s[4] = content[c1]
               /\ s[5] = out[c2] /\ s[6] = content[c2]
  <2>1. /\ out[c0] \in Seq(Numbers) /\ content[c0] \in Seq(Numbers) /\ out[c1] \in Seq(Numbers)
        /\ content[c1] \in Seq(Numbers) /\ out[c2] \in Seq(Numbers)
        /\ content[c2] \in Seq(Numbers)
    BY <1>7, <1>8
  <2>2. Pieces(i) = <<out[c0], content[c0], out[c1], content[c1], out[c2], content[c2]>>
    BY <1>3, <1>4, <1>5 DEF Pieces
  <2> DEFINE v == <<out[c0], content[c0], out[c1], content[c1], out[c2], content[c2]>>
  <2>3. v \in [1..6 -> Seq(Numbers)]
    BY SMTT(30), <2>1
  <2>4. /\ v[1] = out[c0] /\ v[2] = content[c0] /\ v[3] = out[c1] /\ v[4] = content[c1]
        /\ v[5] = out[c2] /\ v[6] = content[c2] /\ v = Pieces(i)
    BY <2>2
  <2> HIDE DEF v
  <2> QED
    BY <2>3, <2>4
<1>10. PICK u : /\ u = Pieces(i)' /\ u \in [1..6 -> Seq(Numbers)]
                /\ u[1] = out'[c0] /\ u[2] = content'[c0] /\ u[3] = out'[c1]
                /\ u[4] = content'[c1] /\ u[5] = out'[c2] /\ u[6] = content'[c2]
  <2>1. /\ out'[c0] \in Seq(Numbers) /\ content'[c0] \in Seq(Numbers)
        /\ out'[c1] \in Seq(Numbers) /\ content'[c1] \in Seq(Numbers)
        /\ out'[c2] \in Seq(Numbers) /\ content'[c2] \in Seq(Numbers)
    BY <1>7, <1>8
  <2>2. Pieces(i)' = <<out'[c0], content'[c0], out'[c1], content'[c1], out'[c2], content'[c2]>>
    BY <1>3, <1>4, <1>5 DEF Pieces
  <2> DEFINE v == <<out'[c0], content'[c0], out'[c1], content'[c1], out'[c2], content'[c2]>>
  <2>3. v \in [1..6 -> Seq(Numbers)]
    BY SMTT(30), <2>1
  <2>4. /\ v[1] = out'[c0] /\ v[2] = content'[c0] /\ v[3] = out'[c1]
        /\ v[4] = content'[c1] /\ v[5] = out'[c2] /\ v[6] = content'[c2] /\ v = Pieces(i)'
    BY <2>2
  <2> HIDE DEF v
  <2> QED
    BY <2>3, <2>4
<1>11. PICK cut : Cut(cut, printed[c0], s, seen[c3])
  BY <1>1, <1>3, <1>6, <1>9 DEF Flows
<1>12. SUFFICES \E new : Cut(new, printed'[c0], u, seen'[c3])
  BY <1>3, <1>6, <1>10
<1>13. ASSUME u[1] = s[1], u[2] = s[2], u[3] = s[3], u[4] = s[4], u[5] = s[5], u[6] = s[6],
              printed'[c0] = printed[c0], seen'[c3] = seen[c3]
       PROVE  \E new : Cut(new, printed'[c0], u, seen'[c3])
  <2>1. \A y \in 1..6 : u[y] = s[y]
    BY <1>13
  <2>2. Cut(cut, printed[c0], u, seen[c3])
    BY <1>11, <2>1, CutSame
  <2> QED
    BY <1>13, <2>2
<1>14. ASSUME NEW z \in 1..5, Moved(s, u, z),
              printed'[c0] = printed[c0], seen'[c3] = seen[c3]
       PROVE  \E new : Cut(new, printed'[c0], u, seen'[c3])
  BY <1>11, <1>14, CutMoved
<1>15. ASSUME printed' = printed, seen' = seen, out'[c0] = out[c0], out'[c1] = out[c1],
              out'[c2] = out[c2], content'[c0] = content[c0], content'[c1] = content[c1],
              content'[c2] = content[c2]
       PROVE  \E new : Cut(new, printed'[c0], u, seen'[c3])
  BY <1>9, <1>10, <1>13, <1>15
<1>16. CASE Parent
  <2>1. printed' = printed /\ seen' = seen /\ out' = out
    BY <1>16 DEF Parent, MakePipes, Fork, CloseEnds, OpenTotals, ReadTotal, EndOfTotals, Wait,
                 work
  <2>2. content' = content \/ content' = [content EXCEPT ![Result] = Tail(@)]
    BY <1>16 DEF Parent, MakePipes, Fork, CloseEnds, OpenTotals, ReadTotal, EndOfTotals, Wait
  <2>3. Result # c0 /\ Result # c1 /\ Result # c2
    BY <1>3, <1>4, <1>5 DEF Result
  <2>4. /\ content'[c0] = content[c0] /\ content'[c1] = content[c1]
        /\ content'[c2] = content[c2]
    BY <1>8, <2>2, <2>3
  <2> QED
    BY <1>15, <2>1, <2>4
<1>17. CASE UNCHANGED vars
  BY <1>15, <1>17 DEF vars, work
<1>18. ASSUME NEW c \in Children, Child(c)
       PROVE  \E new : Cut(new, printed'[c0], u, seen'[c3])
  <2>1. prog[c] # "none" /\ c = <<c[1], c[2]>> /\ c[2] \in 0..3
    BY <1>18, Grid DEF Child, Exec, PrintNumber, Scan, Flush, PrintTotal, BrokenPipe,
                       EndOfInput, Return
  <2>2. c[2] > 0 => In(c) = <<c[1], c[2] - 1>> /\ In(c) \in Pipes
    BY <2>1, InAPipe
  <2>3. c[1] = i => c = c0 \/ c = c1 \/ c = c2 \/ c = c3
    BY <1>3, <1>4, <1>5, <1>6, <2>1
  <2>4. In(c1) = c0 /\ In(c2) = c1 /\ In(c3) = c2
    BY <1>3, <1>4, <1>5, <1>6 DEF In
  <2>5. c[1] # i => /\ c # c0 /\ c # c1 /\ c # c2 /\ c # c3
                    /\ c[2] > 0 => In(c) # c0 /\ In(c) # c1 /\ In(c) # c2
    BY <1>3, <1>4, <1>5, <1>6, <2>1, <2>2
  <2>6. CASE PrintNumber(c)
    <3>1. /\ c[2] = 0 /\ printed[c] < N /\ printed' = [printed EXCEPT ![c] = @ + 1]
          /\ out' = [out EXCEPT ![c] = Append(@, <<printed[c] + 1>>)]
          /\ content' = content /\ seen' = seen
      BY <2>6 DEF PrintNumber
    <3>2. CASE c[1] = i
      <4>1. c = c0
        BY <1>4, <1>5, <1>6, <2>3, <3>1, <3>2
      <4>2. u[1] = Append(s[1], <<printed[c0] + 1>>)
        BY <1>7, <1>8, <1>9, <1>10, <3>1, <4>1
      <4>3. u[2] = s[2] /\ u[3] = s[3] /\ u[4] = s[4] /\ u[5] = s[5] /\ u[6] = s[6]
        BY <1>7, <1>8, <1>9, <1>10, <3>1, <4>1
      <4>4. \A y \in 2..6 : u[y] = s[y]
        BY <4>3
      <4>5. printed'[c0] = printed[c0] + 1 /\ seen'[c3] = seen[c3] /\ printed[c0] \in 0..N
        BY <1>7, <1>8, <3>1, <4>1
      <4>6. s[1] \in Seq(Numbers) /\ printed[c0] < N
        BY <1>7, <1>8, <1>9, <3>1, <4>1
      <4> QED
        <5>1. \E new : Cut(new, printed[c0] + 1, u, seen[c3])
          BY <1>11, <4>2, <4>4, <4>5, <4>6, CutPrinted
        <5> QED
          BY <4>5, <5>1
    <3>3. CASE c[1] # i
      <4>1. printed'[c0] = printed[c0] /\ seen'[c3] = seen[c3]
        BY <1>7, <1>8, <2>5, <3>1, <3>3
      <4>2. out'[c0] = out[c0] /\ out'[c1] = out[c1] /\ out'[c2] = out[c2]
        BY <1>7, <1>8, <2>5, <3>1, <3>3
      <4> QED
        BY <1>9, <1>10, <1>13, <3>1, <4>1, <4>2
    <3> QED
      BY <3>2, <3>3
  <2>7. CASE Scan(c)
    <3> DEFINE q == In(c)
               x == Head(content[q])
    <3>1. /\ c[2] > 0 /\ content[q] # <<>> /\ content' = [content EXCEPT ![q] = Tail(@)]
          /\ printed' = printed /\ q \in Pipes
      BY <2>2, <2>7 DEF Scan
    <3>2. /\ c[2] = 1 => out' = IF x[1] \in Kept THEN [out EXCEPT ![c] = Append(@, x)] ELSE out
          /\ c[2] = 2 => out' = [out EXCEPT ![c] = Append(@, x)]
          /\ c[2] = 3 => out' = out
          /\ seen' = IF c[2] = 3 THEN [seen EXCEPT ![c] = @ \o x] ELSE seen
      BY <2>7 DEF Scan
    <3>3. CASE c[1] # i
      <4>1. /\ content'[c0] = content[c0] /\ content'[c1] = content[c1]
            /\ content'[c2] = content[c2]
        BY <1>8, <2>5, <3>1, <3>3
      <4>2. out'[c0] = out[c0] /\ out'[c1] = out[c1] /\ out'[c2] = out[c2]
        <5>1. c[2] \in {1, 2, 3}
          BY <2>1, <3>1
        <5> QED
          BY <1>7, <1>8, <2>5, <3>2, <3>3, <5>1
      <4>3. seen'[c3] = seen[c3]
        BY <1>8, <2>5, <3>2, <3>3
      <4> QED
        BY <1>9, <1>10, <1>13, <3>1, <4>1, <4>2, <4>3
    <3>4. CASE c = c1
      <4>1. c[2] = 1 /\ q = c0 /\ x = Head(s[2]) /\ s[2] # <<>> /\ seen' = seen
        BY <1>4, <1>9, <2>4, <3>1, <3>2, <3>4
      <4>2. u[2] = Tail(s[2]) /\ u[1] = s[1] /\ u[4] = s[4] /\ u[5] = s[5] /\ u[6] = s[6]
        <5>1. u[2] = Tail(s[2]) /\ u[4] = s[4] /\ u[6] = s[6]
          BY <1>7, <1>8, <1>9, <1>10, <3>1, <4>1
        <5>2. out'[c0] = out[c0] /\ out'[c2] = out[c2]
          BY <1>7, <1>8, <3>2, <3>4, <4>1
        <5> QED
          BY <1>9, <1>10, <5>1, <5>2
      <4>3. CASE x[1] \in Kept
        <5>1. u[3] = Append(s[3], Head(s[2]))
          BY <1>7, <1>8, <1>9, <1>10, <3>2, <3>4, <4>1, <4>3
        <5>2. Moved(s, u, 2)
          BY <1>9, <1>10, <4>1, <4>2, <4>3, <5>1, MovedFrom2
        <5> QED
          BY <1>14, <3>1, <4>1, <5>2
      <4>4. CASE x[1] \notin Kept
        <5>1. u[3] = s[3]
          BY <1>9, <1>10, <3>2, <4>1, <4>4
        <5>2. Moved(s, u, 2)
          BY <1>9, <1>10, <4>1, <4>2, <4>4, <5>1, MovedFrom2
        <5> QED
          BY <1>14, <3>1, <4>1, <5>2
      <4> QED
        BY <4>3, <4>4
    <3>5. CASE c = c2
      <4>1. c[2] = 2 /\ q = c1 /\ x = Head(s[4]) /\ s[4] # <<>> /\ seen' = seen
        BY <1>5, <1>9, <2>4, <3>1, <3>2, <3>5
      <4>2. u[4] = Tail(s[4]) /\ u[1] = s[1] /\ u[2] = s[2] /\ u[3] = s[3] /\ u[6] = s[6]
        BY <1>7, <1>8, <1>9, <1>10, <3>1, <3>2, <3>5, <4>1
      <4>3. u[5] = Append(s[5], Head(s[4]))
        BY <1>7, <1>8, <1>9, <1>10, <3>2, <3>5, <4>1
      <4>4. Moved(s, u, 4)
        BY <1>9, <1>10, <4>1, <4>2, <4>3, MovedFrom4
      <4> QED
        BY <1>14, <3>1, <4>1, <4>4
    <3>6. CASE c = c3
      <4>1. c[2] = 3 /\ q = c2 /\ x = Head(s[6]) /\ s[6] # <<>> /\ out' = out
        BY <1>6, <1>9, <2>4, <3>1, <3>2, <3>6
      <4>2. u[6] = Tail(s[6])
        BY <1>8, <1>9, <1>10, <3>1, <4>1
      <4>3. u[1] = s[1] /\ u[2] = s[2] /\ u[3] = s[3] /\ u[4] = s[4] /\ u[5] = s[5]
        BY <1>8, <1>9, <1>10, <3>1, <4>1
      <4>4. \A y \in 1..5 : u[y] = s[y]
        BY <4>3
      <4>5. seen'[c3] = seen[c3] \o Head(s[6]) /\ seen[c3] \in Numbers
        BY <1>8, <3>2, <3>6, <4>1
      <4>6. s[6] \in Seq(Numbers)
        BY <1>7, <1>8, <1>9
      <4> QED
        BY <1>11, <3>1, <4>1, <4>2, <4>4, <4>5, <4>6, CutAdded
    <3>7. c # c0
      BY <1>3, <3>1
    <3> QED
      BY <2>3, <3>3, <3>4, <3>5, <3>6, <3>7
  <2>8. CASE Flush(c)
    <3>1. /\ out[c] # <<>> /\ content' = [content EXCEPT ![c] = Append(@, Head(out[c]))]
          /\ out' = [out EXCEPT ![c] = Tail(@)] /\ printed' = printed /\ seen' = seen
      BY <2>8 DEF Flush
    <3>2. CASE c = c0
      <4>1. s[1] # <<>> /\ u[1] = Tail(s[1]) /\ u[2] = Append(s[2], Head(s[1]))
        BY <1>7, <1>8, <1>9, <1>10, <3>1, <3>2
      <4>2. u[3] = s[3] /\ u[4] = s[4] /\ u[5] = s[5] /\ u[6] = s[6]
        BY <1>7, <1>8, <1>9, <1>10, <3>1, <3>2
      <4>3. Moved(s, u, 1)
        BY <1>9, <1>10, <4>1, <4>2, MovedFrom1
      <4> QED
        BY <1>14, <3>1, <4>3
    <3>3. CASE c = c1
      <4>1. s[3] # <<>> /\ u[3] = Tail(s[3]) /\ u[4] = Append(s[4], Head(s[3]))
        BY <1>7, <1>8, <1>9, <1>10, <3>1, <3>3
      <4>2. u[1] = s[1] /\ u[2] = s[2] /\ u[5] = s[5] /\ u[6] = s[6]
        BY <1>7, <1>8, <1>9, <1>10, <3>1, <3>3
      <4>3. Moved(s, u, 3)
        BY <1>9, <1>10, <4>1, <4>2, MovedFrom3
      <4> QED
        BY <1>14, <3>1, <4>3
    <3>4. CASE c = c2
      <4>1. s[5] # <<>> /\ u[5] = Tail(s[5]) /\ u[6] = Append(s[6], Head(s[5]))
        BY <1>7, <1>8, <1>9, <1>10, <3>1, <3>4
      <4>2. u[1] = s[1] /\ u[2] = s[2] /\ u[3] = s[3] /\ u[4] = s[4]
        BY <1>7, <1>8, <1>9, <1>10, <3>1, <3>4
      <4>3. Moved(s, u, 5)
        BY <1>9, <1>10, <4>1, <4>2, MovedFrom5
      <4> QED
        BY <1>14, <3>1, <4>3
    <3>5. CASE c # c0 /\ c # c1 /\ c # c2
      <4>1. out'[c0] = out[c0] /\ out'[c1] = out[c1] /\ out'[c2] = out[c2]
        BY <1>7, <1>8, <3>1, <3>5
      <4>2. /\ content'[c0] = content[c0] /\ content'[c1] = content[c1]
            /\ content'[c2] = content[c2]
        BY <1>8, <3>1, <3>5
      <4> QED
        BY <1>15, <3>1, <4>1, <4>2
    <3> QED
      BY <3>2, <3>3, <3>4, <3>5
  <2>9. CASE PrintTotal(c)
    <3>1. /\ c # c0 /\ c # c1 /\ c # c2 /\ out' = [out EXCEPT ![c] = <<>>]
          /\ content' = content /\ printed' = printed /\ seen' = seen
      BY <2>9 DEF PrintTotal
    <3>2. out'[c0] = out[c0] /\ out'[c1] = out[c1] /\ out'[c2] = out[c2]
      BY <1>7, <1>8, <3>1
    <3> QED
      BY <1>15, <3>1, <3>2
  <2>10. CASE EndOfInput(c)
    <3>1. /\ content' = content /\ printed' = printed /\ seen' = seen
          /\ out' = IF c[2] = 3 THEN [out EXCEPT ![c] = Append(@, seen[c])] ELSE out
      BY <2>10 DEF EndOfInput
    <3>2. CASE c[2] = 3
      <4>1. c # c0 /\ c # c1 /\ c # c2
        BY <1>3, <1>4, <1>5, <3>2
      <4>2. out' = [out EXCEPT ![c] = Append(@, seen[c])]
        BY <3>1, <3>2
      <4>3. out'[c0] = out[c0] /\ out'[c1] = out[c1] /\ out'[c2] = out[c2]
        BY <1>8, <4>1, <4>2
      <4> QED
        BY <1>15, <3>1, <4>3
    <3>3. CASE c[2] # 3
      <4>1. out' = out
        BY <3>1, <3>3
      <4> QED
        BY <1>15, <3>1, <4>1
    <3> QED
      BY <3>2, <3>3
  <2>11. CASE content' = content /\ UNCHANGED work
    BY <1>15, <2>11 DEF work
  <2> QED
    BY <1>18, <2>6, <2>7, <2>8, <2>9, <2>10, <2>11 DEF Child, Exec, BrokenPipe, Return
<1> QED
  BY <1>16, <1>17, <1>18 DEF Next

-----------------------------------------------------------------------------
(* The total of a row *)

(* A child past its input stays so. *)
LEMMA StaysPast ==
    ASSUME Types, Started, [Next]_vars, NEW d \in Children, prog[d] \in Past
    PROVE  prog'[d] \in Past
<1>1. prog \in [Children -> ChildPlaces]
  BY DEF Types
<1>2. CASE prog[d] \in Over
  BY <1>2, Frozen DEF Past
<1>3. CASE prog[d] = "ending"
  <2>1. CASE Fork /\ prog' = [prog EXCEPT ![<<row, stage>>] = "forked"]
    <3>1. d # <<row, stage>>
      <4>1. SUFFICES ASSUME d = <<row, stage>> PROVE FALSE
        OBVIOUS
      <4>2. pc = "fork" /\ row \in 1..Rows /\ stage \in 0..3 /\ d[1] = row /\ d[2] = stage
        BY <2>1, <4>1 DEF Fork, Types
      <4>3. row \in Nat /\ Rows \in Nat
        BY <4>2, Sizes
      <4>4. ~Forked(d)
        BY <4>2, <4>3 DEF Forked
      <4> QED
        BY <1>3, <4>2, <4>4 DEF Started
    <3> QED
      BY <1>1, <1>3, <2>1, <3>1 DEF Past
  <2>2. CASE Wait
    BY <1>1, <1>3, <2>2 DEF Wait, Past, Over
  <2>3. CASE prog' = prog
    BY <1>3, <2>3 DEF Past
  <2>4. ASSUME NEW c \in Children, Child(c)
        PROVE  prog'[d] \in Past
    BY <1>1, <1>3, <2>4 DEF Child, Exec, Exit, PrintNumber, Scan, Flush, PrintTotal,
                            BrokenPipe, EndOfInput, Return, Past, Over
  <2> QED
    BY <2>1, <2>2, <2>3, <2>4 DEF Next, Parent, MakePipes, Fork, CloseEnds, OpenTotals,
                                  ReadTotal, EndOfTotals, vars
<1> QED
  BY <1>2, <1>3 DEF Past

(* No total is collected at the start. *)
LEMMA InitCollects == Init => Collects
<1> SUFFICES ASSUME Init, NEW i \in 1..Rows PROVE Totals(i)
  BY DEF Collects
<1>1. Types /\ 3 \in 0..3
  BY InitTypes
<1>2. PICK c \in Children : c = <<i, 3>>
  BY <1>1, Cell
<1>3. i \in 1..K /\ (program = "cv_5" => <<i, 3>> \in Pipes)
  BY <1>1, Sizes, Grid
<1> QED
  BY <1>2, <1>3 DEF Init, Totals, Past, Over

(* Every step keeps the total with sum, in the last pipe or with the parent. *)
LEMMA StepCollects ==
    Types /\ Ends /\ Started /\ Ordered /\ Drained /\ Collects /\ [Next]_vars => Collects'
<1> SUFFICES ASSUME Types, Ends, Started, Ordered, Drained, Collects, [Next]_vars,
                    failures' = 0, NEW i \in 1..Rows
             PROVE  Totals(i)'
  BY Fixed DEF Collects
<1>1. failures = 0 /\ program' = program /\ Totals(i)
  BY NoFailure, Fixed DEF Collects
<1>2. PICK c3 \in Children : c3 = <<i, 3>> /\ c3[1] = i /\ c3[2] = 3
  <2>1. 3 \in 0..3
    OBVIOUS
  <2> QED
    BY <2>1, Cell
<1>3. i \in 1..K /\ (program = "cv_5" <=> c3 \in Pipes) /\ program \in {"cv_5", "pr_5"}
  BY <1>2, Sizes, Grid
<1>4. /\ out \in [Children -> Seq(Numbers)] /\ content \in [Pipes -> Seq(Numbers)]
      /\ result \in [1..K -> Seq(Numbers)] /\ seen \in [Children -> Numbers]
      /\ prog \in [Children -> ChildPlaces] /\ seen[c3] \in Numbers
  BY DEF Types
<1>5. /\ prog[c3] \in Past => prog'[c3] \in Past
      /\ prog'[c3] \in Past /\ prog[c3] \notin Past => EndOfInput(c3)
  BY NewPast, StaysPast
<1>6. /\ prog[c3] \notin Past =>
            result[i] = <<>> /\ out[c3] = <<>> /\ (c3 \in Pipes => content[c3] = <<>>)
      /\ prog[c3] \in Past =>
            \/ /\ out[c3] = <<seen[c3]>> /\ result[i] = <<>>
               /\ c3 \in Pipes => content[c3] = <<>>
            \/ /\ out[c3] = <<>> /\ result[i] = <<>>
               /\ c3 \in Pipes /\ content[c3] = <<seen[c3]>>
            \/ /\ out[c3] = <<>> /\ result[i] = <<seen[c3]>>
               /\ c3 \in Pipes => content[c3] = <<>>
  BY <1>1, <1>2, <1>3 DEF Totals
<1>7. SUFFICES
         /\ prog'[c3] \notin Past =>
               result'[i] = <<>> /\ out'[c3] = <<>> /\ (c3 \in Pipes => content'[c3] = <<>>)
         /\ prog'[c3] \in Past =>
            \/ /\ out'[c3] = <<seen'[c3]>> /\ result'[i] = <<>>
               /\ c3 \in Pipes => content'[c3] = <<>>
            \/ /\ out'[c3] = <<>> /\ result'[i] = <<>>
               /\ c3 \in Pipes /\ content'[c3] = <<seen'[c3]>>
            \/ /\ out'[c3] = <<>> /\ result'[i] = <<seen'[c3]>>
               /\ c3 \in Pipes => content'[c3] = <<>>
  BY <1>1, <1>2, <1>3 DEF Totals
<1> DEFINE Goal ==
         /\ prog'[c3] \notin Past =>
               result'[i] = <<>> /\ out'[c3] = <<>> /\ (c3 \in Pipes => content'[c3] = <<>>)
         /\ prog'[c3] \in Past =>
            \/ /\ out'[c3] = <<seen'[c3]>> /\ result'[i] = <<>>
               /\ c3 \in Pipes => content'[c3] = <<>>
            \/ /\ out'[c3] = <<>> /\ result'[i] = <<>>
               /\ c3 \in Pipes /\ content'[c3] = <<seen'[c3]>>
            \/ /\ out'[c3] = <<>> /\ result'[i] = <<seen'[c3]>>
               /\ c3 \in Pipes => content'[c3] = <<>>
<1>8. ASSUME ~EndOfInput(c3), out'[c3] = out[c3], result'[i] = result[i],
             c3 \in Pipes => content'[c3] = content[c3],
             prog[c3] \in Past => seen'[c3] = seen[c3]
      PROVE  Goal
  BY <1>5, <1>6, <1>8
<1>9. CASE EndOfInput(c3)
  <2>1. /\ prog[c3] = "running" /\ prog'[c3] = "ending" /\ out'[c3] = Append(out[c3], seen[c3])
        /\ content' = content /\ result' = result /\ seen' = seen
    BY <1>2, <1>4, <1>9 DEF EndOfInput
  <2>2. prog[c3] \notin Past /\ prog'[c3] \in Past
    BY <2>1 DEF Past, Over
  <2>3. out'[c3] = <<seen[c3]>>
    <3>1. out[c3] = <<>>
      BY <1>6, <2>2
    <3>2. out'[c3] = Append(<<>>, seen[c3])
      BY <2>1, <3>1
    <3> QED
      BY <3>2
  <2> QED
    BY <1>6, <2>1, <2>2, <2>3
<1>10. CASE ReadTotal
  <2>1. /\ content[Result] # <<>>
        /\ result' = [result EXCEPT ![row] = Append(@, Head(content[Result]))]
        /\ content' = [content EXCEPT ![Result] = Tail(@)] /\ out' = out /\ seen' = seen
        /\ prog' = prog /\ program = "cv_5"
    BY <1>10 DEF ReadTotal, work, Types
  <2>2. CASE row = i
    <3>1. Result = c3 /\ c3 \in Pipes /\ content[c3] # <<>>
      BY <1>2, <1>3, <2>1, <2>2 DEF Result
    <3>2. prog[c3] \in Past /\ out[c3] = <<>> /\ result[i] = <<>> /\ content[c3] = <<seen[c3]>>
      BY <1>6, <3>1
    <3>3. /\ result'[i] = Append(<<>>, Head(<<seen[c3]>>)) /\ content'[c3] = Tail(<<seen[c3]>>)
      BY <1>3, <1>4, <2>1, <2>2, <3>1, <3>2
    <3>4. result'[i] = <<seen[c3]>> /\ content'[c3] = <<>>
      BY <3>3
    <3> QED
      BY <2>1, <3>2, <3>4
  <2>3. CASE row # i
    <3>1. Result # c3
      BY <1>2, <2>3 DEF Result
    <3> QED
      BY <1>3, <1>4, <1>8, <2>1, <2>3, <3>1, <1>9
  <2> QED
    BY <2>2, <2>3
<1>11. CASE Parent /\ ~ReadTotal
  <2>1. out' = out /\ seen' = seen /\ result' = result /\ content' = content
    BY <1>11 DEF Parent, MakePipes, Fork, CloseEnds, OpenTotals, EndOfTotals, Wait, work
  <2> QED
    BY <1>8, <1>9, <2>1
<1>12. ASSUME NEW c \in Children, Child(c), c # c3
       PROVE  Goal
  <2>1. prog[c] # "none" /\ c = <<c[1], c[2]>> /\ c[2] \in 0..3 /\ c[1] \in 1..Rows
    BY <1>12, Grid DEF Child, Exec, PrintNumber, Scan, Flush, PrintTotal, BrokenPipe,
                       EndOfInput, Return, Types
  <2>2. out'[c3] = out[c3] /\ seen'[c3] = seen[c3]
    BY <1>4, <1>12 DEF Child, Exec, PrintNumber, Scan, Flush, PrintTotal, BrokenPipe,
                       EndOfInput, Return, work
  <2>3. result'[i] = result[i]
    <3>1. CASE PrintTotal(c)
      <4>1. c \notin Pipes /\ result' = [result EXCEPT ![c[1]] = @ \o out[c]]
        BY <3>1 DEF PrintTotal
      <4>2. c[2] = 3
        <5>1. c[2] \notin PipeStages
          BY <2>1, <4>1, Grid
        <5> QED
          BY <2>1, <5>1, Sizes
      <4>3. c[1] # i
        BY <1>2, <1>12, <2>1, <4>2
      <4> QED
        BY <1>3, <1>4, <4>1, <4>3
    <3>2. CASE ~PrintTotal(c)
      BY <1>12, <3>2 DEF Child, Exec, PrintNumber, Scan, Flush, BrokenPipe, EndOfInput, Return
    <3> QED
      BY <3>1, <3>2
  <2>4. c3 \in Pipes => content'[c3] = content[c3]
    <3>1. \/ content' = content
          \/ c[2] > 0 /\ content' = [content EXCEPT ![In(c)] = Tail(@)]
          \/ content' = [content EXCEPT ![c] = Append(@, Head(out[c]))]
      BY <1>12 DEF Child, Exec, PrintNumber, Scan, Flush, PrintTotal, BrokenPipe, EndOfInput,
                   Return
    <3>2. c[2] > 0 => In(c) # c3
      BY <1>2, <2>1 DEF In
    <3> QED
      BY <1>4, <1>12, <3>1, <3>2
  <2> QED
    BY <1>8, <1>9, <2>2, <2>3, <2>4
<1>13. ASSUME Child(c3), ~EndOfInput(c3)
       PROVE  Goal
  <2>1. CASE Flush(c3)
    <3>1. /\ c3 \in Pipes /\ out[c3] # <<>>
          /\ content' = [content EXCEPT ![c3] = Append(@, Head(out[c3]))]
          /\ out' = [out EXCEPT ![c3] = Tail(@)] /\ prog' = prog /\ seen' = seen
          /\ result' = result
      BY <2>1 DEF Flush
    <3>2. prog[c3] \in Past /\ out[c3] = <<seen[c3]>> /\ result[i] = <<>> /\ content[c3] = <<>>
      BY <1>6, <3>1
    <3>3. content'[c3] = Append(<<>>, Head(<<seen[c3]>>)) /\ out'[c3] = Tail(<<seen[c3]>>)
      BY <1>4, <3>1, <3>2
    <3>4. content'[c3] = <<seen[c3]>> /\ out'[c3] = <<>>
      BY <3>3
    <3> QED
      BY <3>1, <3>2, <3>4
  <2>2. CASE PrintTotal(c3)
    <3>1. /\ c3 \notin Pipes /\ out[c3] # <<>> /\ result' = [result EXCEPT ![i] = @ \o out[c3]]
          /\ out' = [out EXCEPT ![c3] = <<>>] /\ prog' = prog /\ seen' = seen
      BY <1>2, <2>2 DEF PrintTotal
    <3>2. prog[c3] \in Past /\ out[c3] = <<seen[c3]>> /\ result[i] = <<>>
      BY <1>6, <3>1
    <3>3. result'[i] = <<>> \o <<seen[c3]>> /\ out'[c3] = <<>>
      BY <1>3, <1>4, <3>1, <3>2
    <3>4. result'[i] = <<seen[c3]>>
      BY <3>3
    <3> QED
      BY <3>1, <3>2, <3>3, <3>4
  <2>3. CASE Scan(c3)
    <3>1. /\ prog[c3] = "running" /\ result' = result /\ out' = out
          /\ content' = [content EXCEPT ![In(c3)] = Tail(@)]
      BY <1>2, <2>3 DEF Scan
    <3>2. In(c3) # c3 /\ prog[c3] \notin Past
      BY <1>2, <3>1 DEF In, Past, Over
    <3> QED
      BY <1>4, <1>8, <1>13, <3>1, <3>2
  <2>4. CASE UNCHANGED <<out, seen, content, result>>
    BY <1>8, <1>13, <2>4
  <2> QED
    BY <1>2, <1>13, <2>1, <2>2, <2>3, <2>4 DEF Child, Exec, PrintNumber, BrokenPipe, Return, work
<1>14. CASE UNCHANGED vars
  BY <1>8, <1>9, <1>14 DEF vars, work
<1> QED
  BY <1>9, <1>10, <1>11, <1>12, <1>13, <1>14 DEF Next

-----------------------------------------------------------------------------
(* The theorems *)

(* When all places are empty the total is of all kept numbers. *)
LEMMA NothingLeft ==
    ASSUME NEW cut, NEW s, NEW t, Cut(cut, N, s, t), \A z \in 1..6 : s[z] = <<>>
    PROVE  Counts(t, Kept)
<1>1. /\ cut[0] = N /\ Counts(t, Kept \cap (1..cut[6]))
      /\ \A y \in 0..6 : cut[y] \in Nat /\ cut[y] <= N
      /\ \A y \in 1..6 : /\ cut[y] <= cut[y - 1]
                         /\ Rising(s[y], Passed(y) \cap ((cut[y] + 1)..cut[y - 1]))
  BY CutFacts
<1>2. ASSUME NEW z \in 1..6, NEW n \in Kept, n <= cut[z - 1]
      PROVE  n <= cut[z]
  <2>1. n \in Passed(z) /\ n \in Nat
    <3>1. z \in {1, 3, 4, 5, 6} \/ z = 2
      OBVIOUS
    <3> QED
      BY <3>1, PipelineAssumption DEF Passed
  <2>2. \A m \in Passed(z) \cap ((cut[z] + 1)..cut[z - 1]) : FALSE
    <3>1. Rising(<<>>, Passed(z) \cap ((cut[z] + 1)..cut[z - 1]))
      BY <1>1
    <3> QED
      BY <3>1 DEF Rising
  <2>3. cut[z] \in Nat /\ cut[z - 1] \in Nat
    BY <1>1, Indexes
  <2>4. ~(cut[z] + 1 <= n)
    BY <1>2, <2>1, <2>2, <2>3
  <2> QED
    BY <2>1, <2>3, <2>4
<1>3. ASSUME NEW n \in Kept
      PROVE  n <= cut[6]
  <2>1. n <= cut[0]
    BY <1>1, Limits
  <2>2. n <= cut[1]
    BY <1>2, <2>1
  <2>3. n <= cut[2]
    BY <1>2, <2>2
  <2>4. n <= cut[3]
    BY <1>2, <2>3
  <2>5. n <= cut[4]
    BY <1>2, <2>4
  <2>6. n <= cut[5]
    BY <1>2, <2>5
  <2> QED
    BY <1>2, <2>6
<1>4. ASSUME NEW n \in Kept
      PROVE  n \in 1..cut[6]
  BY <1>1, <1>3, PipelineAssumption
<1>5. Kept \cap (1..cut[6]) = Kept
  BY <1>4
<1> QED
  BY <1>1, <1>5

(* RowTotal from the invariant. *)
LEMMA CollectedTotal ==
    Types /\ Ordered /\ Drained /\ Flows /\ Collects => RowTotal
<1> SUFFICES ASSUME Types, Ordered, Drained, Flows, Collects, failures = 0,
                    NEW i \in 1..Rows, Collected(i)
             PROVE  Len(result[i]) = 1 /\ Counts(result[i][1], Kept)
  BY DEF RowTotal, Ordered
<1>1. program \in {"cv_5", "pr_5"} /\ pc # "died"
  BY Sizes DEF Ordered
<1>2. prog[<<i, 3>>] \in Over /\ (program = "cv_5" => content[<<i, 3>>] = <<>>)
  <2>1. CASE program = "cv_5"
    BY <1>1, <2>1 DEF Collected, Drained, Types
  <2>2. CASE program = "pr_5"
    <3>1. Rows = 1 /\ pc = "done"
      BY <1>1, <2>2 DEF Rows, Collected
    <3> QED
      BY <2>2, <3>1 DEF Drained
  <2> QED
    BY <1>1, <2>1, <2>2
<1>3. result[i] = <<seen[<<i, 3>>]>>
  <2>1. 3 \in 0..3
    OBVIOUS
  <2>2. out[<<i, 3>>] = <<>>
    BY <1>2, <2>1 DEF Ordered
  <2> QED
    BY <1>2, <2>2 DEF Collects, Totals, Past
<1>4. ASSUME NEW j \in 1..3, prog[<<i, j>>] \in Over
      PROVE  /\ prog[<<i, j - 1>>] \in Over /\ content[<<i, j - 1>>] = <<>>
             /\ out[<<i, j - 1>>] = <<>>
  <2>1. prog[<<i, j - 1>>] \in Over /\ content[<<i, j - 1>>] = <<>>
    BY <1>4 DEF Ordered, Past
  <2>2. j - 1 \in 0..3
    OBVIOUS
  <2> QED
    BY <2>1, <2>2 DEF Ordered
<1>5. /\ 3 \in 1..3 /\ 2 \in 1..3 /\ 1 \in 1..3 /\ 3 - 1 = 2 /\ 2 - 1 = 1 /\ 1 - 1 = 0
  OBVIOUS
<1>6. prog[<<i, 2>>] \in Over /\ content[<<i, 2>>] = <<>> /\ out[<<i, 2>>] = <<>>
  BY <1>2, <1>4, <1>5
<1>7. prog[<<i, 1>>] \in Over /\ content[<<i, 1>>] = <<>> /\ out[<<i, 1>>] = <<>>
  BY <1>4, <1>5, <1>6
<1>8. prog[<<i, 0>>] \in Over /\ content[<<i, 0>>] = <<>> /\ out[<<i, 0>>] = <<>>
  BY <1>4, <1>5, <1>7
<1>9. printed[<<i, 0>>] = N
  BY <1>8 DEF Ordered, Past
<1>10. Pieces(i) = <<<<>>, <<>>, <<>>, <<>>, <<>>, <<>>>>
  BY <1>6, <1>7, <1>8 DEF Pieces
<1>11. \A z \in 1..6 : Pieces(i)[z] = <<>>
  BY <1>10
<1>12. PICK cut : Cut(cut, N, Pieces(i), seen[<<i, 3>>])
  BY <1>9 DEF Flows
<1>13. Counts(seen[<<i, 3>>], Kept)
  BY <1>11, <1>12, NothingLeft
<1> QED
  BY <1>3, <1>13

(* The inductive invariant, and that it is one. *)
THEOREM PipelineInvariant == Spec => []PipeInv
<1>1. Init => PipeInv
  <2> SUFFICES ASSUME Init PROVE PipeInv
    OBVIOUS
  <2>1. Types /\ Ends /\ Started /\ Flows /\ Collects
    BY InitTypes, InitEnds, InitStarted, InitFlows, InitCollects
  <2>2. Ordered
    <3>1. ASSUME NEW i \in 1..Rows, NEW j \in 0..3
          PROVE  prog[<<i, j>>] = "none"
      BY <2>1, Cell DEF Init
    <3>2. ASSUME NEW i \in 1..Rows, NEW j \in 1..3
          PROVE  prog[<<i, j>>] = "none"
      <4>1. j \in 0..3
        OBVIOUS
      <4> QED
        BY <3>1, <4>1
    <3>3. ASSUME NEW i \in 1..Rows
          PROVE  prog[<<i, 0>>] = "none"
      <4>1. 0 \in 0..3
        OBVIOUS
      <4> QED
        BY <3>1, <4>1
    <3> QED
      BY <3>1, <3>2, <3>3 DEF Ordered, Init, Past, Over
  <2>3. Drained
    <3>1. pc = "pipe" /\ row = 1 /\ \A i \in 1..Rows : ~(i < row)
      BY <2>1, Sizes DEF Init
    <3> QED
      BY <3>1 DEF Drained
  <2> QED
    BY <2>1, <2>2, <2>3 DEF PipeInv
<1>2. PipeInv /\ [Next]_vars => PipeInv'
  BY StepTypes, StepEnds, StepStarted, StepOrdered, StepDrained, StepFlows, StepCollects
     DEF PipeInv
<1> QED
  BY <1>1, <1>2, PTL DEF Spec

(* DescriptorsReturned of both programs: whatever call fails, the parent     *)
(* holds no pipe end between two rows, while it waits and once it is done or *)
(* has died, a child that runs holds only the ends it was given, and one     *)
(* that has exited none.                                                     *)
THEOREM NoEndKept == Spec => []DescriptorsReturned
<1>1. PipeInv => DescriptorsReturned
  BY ReturnedDescriptors DEF PipeInv
<1> QED
  BY <1>1, PipelineInvariant, PTL

(* RowTotal of both programs: when no call fails nobody is killed by SIGPIPE, *)
(* and the total of a row that is collected is made of every number that     *)
(* passes the filter, once and in order.                                     *)
THEOREM TotalsComplete == Spec => []RowTotal
<1>1. PipeInv => RowTotal
  BY CollectedTotal DEF PipeInv
<1> QED
  BY <1>1, PipelineInvariant, PTL
=============================================================================
