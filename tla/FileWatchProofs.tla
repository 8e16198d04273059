---------------------------- MODULE FileWatchProofs ----------------------------
(* Proofs about FileWatch, for files of any length at the start, any number  *)
(* of writes and any habits of the writers.                                  *)
EXTENDS FileWatch, SequenceTheorems, FiniteSetTheorems, TLAPS

-----------------------------------------------------------------------------
(* The invariant *)

Entry == {"line", "shrunk", "mode", "gone"} \X Nat
First == {"statFirst1", "statFirst2", "compare"}
Places == First \cup {"sleep", "stat1", "stat2", "read1", "read2", "update", "done"}

Types ==
    /\ writer \in Habits /\ pc \in Places
    /\ cont \in [Files -> Seq(Nat)] /\ exists \in [Files -> BOOLEAN]
    /\ mode \in [Files -> {0, 1}] /\ writes \in [Files -> Nat]
    /\ acted \in [Files -> BOOLEAN]
    /\ stSize \in [Files -> Nat] /\ stMode \in [Files -> {0, 1}]
    /\ size \in [Files -> Nat] /\ fmode \in [Files -> {0, 1}]
    /\ offset \in [Files -> Nat]
    /\ compared \in [Files -> SUBSET Nat] /\ base \in [Files -> Nat]
    /\ out \in [Files -> Seq(Entry)]

(* The lines of a file are numbered upwards, and those of the writes to come *)
(* have numbers that nothing has had before.                                 *)
LinesIn(s) == {i \in 1..Len(s) : s[i][1] = "line"}
Rising(c) == \A i, j \in 1..Len(c) : i < j => c[i] < c[j]
Numbered ==
    \A f \in Files :
        /\ Rising(cont[f])
        /\ \A i \in 1..Len(cont[f]) : cont[f][i] <= Initial + writes[f]
        /\ \A l \in compared[f] : l <= Initial + writes[f]
        /\ \A i \in LinesIn(out[f]) : out[f][i][2] <= Initial + writes[f]
        /\ pc \in First => out[f] = <<>> /\ compared[f] = {} /\ offset[f] = 0

(* PrintedOnce of a file whose content is c, after s was printed and p was   *)
(* compared, from size b at the first stat up to offset o.                   *)
Account(s, c, p, b, o) ==
    /\ b \in 0..o /\ o <= Len(c)
    /\ \A i, j \in LinesIn(s) : i < j => s[i][2] < s[j][2]
    /\ \A k \in 1..b : c[k] \in p
    /\ {s[i][2] : i \in LinesIn(s)} = {c[k] : k \in (b + 1)..o}
Grown ==
    "truncate" \notin writer.does => \A f \in Files :
        /\ size[f] <= stSize[f] /\ stSize[f] <= Len(cont[f])
        /\ Account(out[f], cont[f], compared[f], base[f], offset[f])

(* With calm writers, what stat has returned is true until the next sleep,   *)
(* and offset follows size.                                                  *)
Fresh(f) == stSize[f] = Len(cont[f]) /\ stMode[f] = mode[f]
Known(f) == size[f] = Len(cont[f]) /\ offset[f] = size[f] /\ fmode[f] = mode[f]
Round ==
    writer.calm =>
        /\ \A f \in Files : acted[f] => pc = "sleep"
        /\ pc \in {"statFirst2", "compare", "stat2", "read1", "read2", "update"} => Fresh(1)
        /\ pc \in {"compare", "read1", "read2", "update"} => Fresh(2)
        /\ pc \in {"sleep", "stat1", "stat2", "read1"} => offset[1] = size[1]
        /\ pc \in {"sleep", "stat1", "stat2", "read1", "read2"} => offset[2] = size[2]
        /\ pc \in {"read2", "update"} => offset[1] = Greater(size[1], stSize[1])
        /\ pc = "update" => offset[2] = Greater(size[2], stSize[2])
        /\ pc = "sleep" => \A f \in Files : ~acted[f] => Known(f)

(* With calm writers, the lines up to offset were compared or printed once,  *)
(* those behind it not yet.                                                  *)
Once(s, l) ==
    \E i \in 1..Len(s) : /\ s[i] = <<"line", l>>
                         /\ \A j \in 1..Len(s) : s[j] = <<"line", l>> => j = i
Never(s, l) == \A i \in 1..Len(s) : s[i] # <<"line", l>>
Told(s, c, p, o) ==
    \A k \in 1..Len(c) : /\ k <= o => c[k] \in p \/ Once(s, c[k])
                         /\ k > o => c[k] \notin p /\ Never(s, c[k])
Shown ==
    writer.calm => \A f \in Files :
        pc \notin First => Told(out[f], cont[f], compared[f], offset[f])

WatchInv == Types /\ Numbered /\ Grown /\ Round /\ Shown

-----------------------------------------------------------------------------
(* Sequences *)

(* Two sequences one behind the other. *)
LEMMA Joined ==
    ASSUME NEW S, NEW s \in Seq(S), NEW t \in Seq(S)
    PROVE  /\ s \o t \in Seq(S) /\ Len(s \o t) = Len(s) + Len(t)
           /\ Len(s) \in Nat /\ Len(t) \in Nat
           /\ \A i \in 1..Len(s) : i \in 1..Len(s \o t) /\ (s \o t)[i] = s[i]
           /\ \A i \in 1..Len(t) :
                 Len(s) + i \in 1..Len(s \o t) /\ (s \o t)[Len(s) + i] = t[i]
           /\ \A i \in 1..Len(s \o t) : i \in 1..Len(s) \/ i - Len(s) \in 1..Len(t)
<1> DEFINE m == Len(s)
           n == Len(t)
<1>1. m \in Nat /\ n \in Nat
  BY LenProperties
<1>2. /\ s \o t \in Seq(S) /\ Len(s \o t) = m + n
      /\ \A i \in 1..(m + n) : (s \o t)[i] = IF i <= m THEN s[i] ELSE t[i - m]
  BY ConcatProperties
<1> HIDE DEF m, n
<1>3. /\ \A i \in 1..m : i \in 1..(m + n) /\ i <= m
      /\ \A i \in 1..n : m + i \in 1..(m + n) /\ ~(m + i <= m) /\ (m + i) - m = i
      /\ \A i \in 1..(m + n) : i \in 1..m \/ i - m \in 1..n
  BY <1>1
<1> QED
  BY <1>1, <1>2, <1>3 DEF m, n

(* One more element at the end. *)
LEMMA Appended ==
    ASSUME NEW S, NEW s \in Seq(S), NEW e \in S
    PROVE  /\ Append(s, e) \in Seq(S) /\ Len(Append(s, e)) = Len(s) + 1 /\ Len(s) \in Nat
           /\ Append(s, e)[Len(s) + 1] = e
           /\ \A k \in 1..Len(s) : Append(s, e)[k] = s[k]
           /\ \A k \in 1..(Len(s) + 1) : k \in 1..Len(s) \/ k = Len(s) + 1
BY AppendProperties, LenProperties

(* The first k elements. *)
LEMMA Prefix ==
    ASSUME NEW S, NEW s \in Seq(S), NEW k \in 0..(Len(s) - 1)
    PROVE  /\ SubSeq(s, 1, k) \in Seq(S) /\ Len(SubSeq(s, 1, k)) = k
           /\ k \in Nat /\ k <= Len(s) /\ Len(s) \in Nat
           /\ \A i \in 1..k : i \in 1..Len(s) /\ SubSeq(s, 1, k)[i] = s[i]
<1>1. Len(s) \in Nat /\ k \in Nat /\ k <= Len(s)
  BY LenProperties
<1>2. /\ \A i \in 1..k : i \in 1..Len(s) /\ i = 1 + i - 1
      /\ \A i \in 1..k : s[i] \in S
  BY <1>1, ElementOfSeq
<1>3. /\ SubSeq(s, 1, k) \in Seq(S) /\ Len(SubSeq(s, 1, k)) = IF 1 <= k THEN k - 1 + 1 ELSE 0
      /\ \A i \in 1..(k - 1 + 1) : SubSeq(s, 1, k)[i] = s[1 + i - 1]
  BY <1>1, <1>2, SubSeqProperties
<1>4. (IF 1 <= k THEN k - 1 + 1 ELSE 0) = k /\ k - 1 + 1 = k
  BY <1>1
<1> QED
  BY <1>1, <1>2, <1>3, <1>4

-----------------------------------------------------------------------------
(* What read_new and the reports add to out *)

Read(s, c, o) == s \o Lines(SubSeq(c, o + 1, Len(c)))
Silent(t) == \A i \in 1..Len(t) : t[i][1] # "line"

(* The lines of a file as they are printed. *)
LEMMA LinesAre ==
    ASSUME NEW s \in Seq(Nat)
    PROVE  /\ Lines(s) \in Seq(Entry) /\ Len(Lines(s)) = Len(s)
           /\ \A k \in 1..Len(s) : Lines(s)[k] = <<"line", s[k]>>
<1>1. Len(s) \in Nat /\ DOMAIN s = 1..Len(s) /\ \A k \in 1..Len(s) : s[k] \in Nat
  BY LenProperties, ElementOfSeq
<1>2. \A k \in 1..Len(s) : <<"line", s[k]>> \in Entry
  BY <1>1 DEF Entry
<1>3. Lines(s) = [k \in 1..Len(s) |-> <<"line", s[k]>>]
  BY <1>1 DEF Lines
<1>4. Lines(s) \in [1..Len(s) -> Entry]
  BY <1>2, <1>3
<1>5. Lines(s) \in Seq(Entry)
  BY <1>1, <1>4, SeqDef
<1>6. Len(Lines(s)) = Len(s)
  BY <1>1, <1>3, <1>5, LenProperties
<1> QED
  BY <1>3, <1>5, <1>6

(* What is printed after a read is what was printed before, or lines of the  *)
(* file.                                                                     *)
LEMMA ReadTypes ==
    ASSUME NEW s \in Seq(Entry), NEW c \in Seq(Nat), NEW o \in Nat
    PROVE  /\ Read(s, c, o) \in Seq(Entry)
           /\ \A i \in 1..Len(Read(s, c, o)) :
                 \/ i \in 1..Len(s) /\ Read(s, c, o)[i] = s[i]
                 \/ \E k \in 1..Len(c) : Read(s, c, o)[i] = <<"line", c[k]>>
<1> DEFINE n == Len(c)
           t == SubSeq(c, o + 1, n)
<1>1. n \in Nat /\ \A k \in 1..n : c[k] \in Nat
  BY LenProperties, ElementOfSeq
<1>2. \A i \in (o + 1)..n : c[i] \in Nat
  BY <1>1
<1>3. /\ t \in Seq(Nat) /\ Len(t) = IF o + 1 <= n THEN n - (o + 1) + 1 ELSE 0
      /\ \A i \in 1..(n - (o + 1) + 1) : t[i] = c[(o + 1) + i - 1]
  BY <1>1, <1>2, SubSeqProperties
<1>4. \A i \in 1..Len(t) : \E k \in 1..n : t[i] = c[k]
  <2> HIDE DEF n, t
  <2>1. ASSUME NEW i \in 1..Len(t)
        PROVE  i \in 1..(n - (o + 1) + 1) /\ (o + 1) + i - 1 \in 1..n
    BY <1>1, <1>3
  <2> QED
    BY <1>3, <2>1
<1> HIDE DEF t
<1>5. /\ Lines(t) \in Seq(Entry) /\ Len(Lines(t)) = Len(t)
      /\ \A k \in 1..Len(t) : Lines(t)[k] = <<"line", t[k]>>
  BY <1>3, LinesAre
<1>6. Read(s, c, o) = s \o Lines(t)
  BY DEF Read, t
<1> DEFINE r == Lines(t)
<1> HIDE DEF r
<1>7. /\ s \o r \in Seq(Entry)
      /\ \A i \in 1..Len(s \o r) : \/ i \in 1..Len(s) /\ (s \o r)[i] = s[i]
                                   \/ \E k \in 1..Len(r) : (s \o r)[i] = r[k]
  <2>0. r \in Seq(Entry)
    BY <1>5 DEF r
  <2>1. /\ s \o r \in Seq(Entry) /\ Len(s) \in Nat /\ Len(s \o r) \in Nat
        /\ \A i \in 1..Len(s) : (s \o r)[i] = s[i]
        /\ \A i \in 1..Len(r) : (s \o r)[Len(s) + i] = r[i]
        /\ \A i \in 1..Len(s \o r) : i \in 1..Len(s) \/ i - Len(s) \in 1..Len(r)
    BY <2>0, Joined, LenProperties
  <2>2. \A i \in 1..Len(s \o r) : Len(s) + (i - Len(s)) = i
    BY <2>1
  <2> QED
    BY <2>1, <2>2
<1>8. r \in Seq(Entry) /\ Len(r) = Len(t) /\ \A k \in 1..Len(r) : r[k] = <<"line", t[k]>>
  BY <1>5 DEF r
<1>9. \A k \in 1..Len(r) : \E l \in 1..n : r[k] = <<"line", c[l]>>
  BY <1>4, <1>8
<1>10. Read(s, c, o) = s \o r
  BY <1>6 DEF r
<1> QED
  BY ZenonT(60), <1>7, <1>9, <1>10

(* read_new of a file that has not shrunk below offset. *)
LEMMA ReadAll ==
    ASSUME NEW s \in Seq(Entry), NEW c \in Seq(Nat), NEW o \in Nat, o <= Len(c)
    PROVE  LET r == Read(s, c, o) IN
             /\ r \in Seq(Entry) /\ Len(r) = Len(s) + (Len(c) - o)
             /\ Len(s) \in Nat /\ Len(c) \in Nat
             /\ \A i \in 1..Len(s) : i \in 1..Len(r) /\ r[i] = s[i]
             /\ \A k \in (o + 1)..Len(c) :
                   Len(s) + (k - o) \in 1..Len(r) /\ r[Len(s) + (k - o)] = <<"line", c[k]>>
             /\ \A i \in 1..Len(r) :
                   \/ i \in 1..Len(s)
                   \/ \E k \in (o + 1)..Len(c) : i = Len(s) + (k - o)
<1> DEFINE n == Len(c)
           m == Len(s)
           t == SubSeq(c, o + 1, n)
<1>1. n \in Nat /\ m \in Nat /\ o <= n /\ \A k \in 1..n : c[k] \in Nat
  BY LenProperties, ElementOfSeq
<1>2. \A i \in (o + 1)..n : c[i] \in Nat
  BY <1>1
<1>3. /\ t \in Seq(Nat) /\ Len(t) = IF o + 1 <= n THEN n - (o + 1) + 1 ELSE 0
      /\ \A i \in 1..(n - (o + 1) + 1) : t[i] = c[(o + 1) + i - 1]
  BY <1>1, <1>2, SubSeqProperties
<1> HIDE DEF n, m, t
<1>4. Len(t) = n - o
  BY <1>1, <1>3
<1>5. \A k \in (o + 1)..n : k - o \in 1..(n - o) /\ t[k - o] = c[k]
  <2>1. ASSUME NEW k \in (o + 1)..n
        PROVE  /\ k - o \in 1..(n - o) /\ k - o \in 1..(n - (o + 1) + 1)
               /\ (o + 1) + (k - o) - 1 = k
    BY <1>1
  <2> QED
    BY <1>3, <2>1
<1>6. /\ Lines(t) \in Seq(Entry) /\ Len(Lines(t)) = Len(t)
      /\ \A k \in 1..Len(t) : Lines(t)[k] = <<"line", t[k]>>
  BY <1>3, LinesAre
<1> DEFINE u == Lines(t)
           r == s \o u
<1>7. Read(s, c, o) = r
  BY DEF Read, t, n
<1> HIDE DEF u
<1>8. /\ r \in Seq(Entry) /\ Len(r) = m + Len(u)
      /\ \A i \in 1..m : i \in 1..Len(r) /\ r[i] = s[i]
      /\ \A i \in 1..Len(u) : m + i \in 1..Len(r) /\ r[m + i] = u[i]
      /\ \A i \in 1..Len(r) : i \in 1..m \/ i - m \in 1..Len(u)
  <2>1. u \in Seq(Entry)
    BY <1>6 DEF u
  <2> QED
    BY <2>1, Joined DEF m
<1> HIDE DEF r
<1>9. /\ Len(u) = n - o /\ \A k \in 1..(n - o) : u[k] = <<"line", t[k]>>
  BY <1>4, <1>6 DEF u
<1>10. \A k \in (o + 1)..n : m + (k - o) \in 1..Len(r) /\ r[m + (k - o)] = <<"line", c[k]>>
  BY <1>5, <1>8, <1>9
<1>11. ASSUME NEW i \in 1..Len(r)
       PROVE  i \in 1..m \/ \E k \in (o + 1)..n : i = m + (k - o)
  <2>1. CASE i - m \in 1..(n - o)
    <3>1. /\ (i - m) + o \in (o + 1)..n /\ i = m + (((i - m) + o) - o)
      BY <1>1, <1>8, <2>1
    <3> QED
      BY <3>1
  <2> QED
    BY <1>8, <1>9, <2>1
<1> QED
  BY <1>1, <1>7, <1>8, <1>9, <1>10, <1>11 DEF n, m

(* After a read the lines up to the end of the file are printed. *)
LEMMA AccountRead ==
    ASSUME NEW s \in Seq(Entry), NEW c \in Seq(Nat), NEW p, NEW b, NEW o \in Nat,
           Rising(c), Account(s, c, p, b, o)
    PROVE  Account(Read(s, c, o), c, p, b, Len(c))
<1> DEFINE r == Read(s, c, o)
           m == Len(s)
           n == Len(c)
<1>1. o <= n
  BY DEF Account
<1>2. /\ r \in Seq(Entry) /\ Len(r) = m + (n - o) /\ m \in Nat /\ n \in Nat
      /\ \A i \in 1..m : i \in 1..Len(r) /\ r[i] = s[i]
      /\ \A k \in (o + 1)..n : /\ m + (k - o) \in 1..Len(r)
                               /\ r[m + (k - o)] = <<"line", c[k]>>
      /\ \A i \in 1..Len(r) : i \in 1..m \/ \E k \in (o + 1)..n : i = m + (k - o)
  BY <1>1, ReadAll
<1>3. /\ \A i, j \in LinesIn(s) : i < j => s[i][2] < s[j][2]
      /\ \A i, j \in 1..n : i < j => c[i] < c[j]
  BY DEF Account, Rising
<1>4. /\ b \in 0..o /\ \A k \in 1..b : c[k] \in p
      /\ {s[i][2] : i \in LinesIn(s)} = {c[k] : k \in (b + 1)..o}
  BY DEF Account
<1> HIDE DEF r, m, n
<1>5. ASSUME NEW i \in LinesIn(r)
      PROVE  \/ i \in 1..m /\ i \in LinesIn(s) /\ r[i] = s[i]
             \/ \E k \in (o + 1)..n : i = m + (k - o) /\ r[i][2] = c[k]
  <2>1. i \in 1..Len(r) /\ r[i][1] = "line"
    BY DEF LinesIn
  <2>2. CASE i \in 1..m
    BY <1>2, <2>1, <2>2 DEF LinesIn, m
  <2>3. CASE \E k \in (o + 1)..n : i = m + (k - o)
    BY <1>2, <2>3
  <2> QED
    BY <1>2, <2>1, <2>2, <2>3
<1>6. ASSUME NEW i \in LinesIn(s)
      PROVE  i \in LinesIn(r) /\ r[i] = s[i]
  BY <1>2 DEF LinesIn, m
<1>7. ASSUME NEW k \in (o + 1)..n
      PROVE  m + (k - o) \in LinesIn(r) /\ r[m + (k - o)][2] = c[k]
  BY <1>2 DEF LinesIn
<1>8. \A i \in LinesIn(s) : \E k \in (b + 1)..o : s[i][2] = c[k]
  BY <1>4
<1>9. \A k \in (b + 1)..o : \E i \in LinesIn(s) : s[i][2] = c[k]
  BY <1>4
<1>10. ASSUME NEW i \in LinesIn(r), NEW j \in LinesIn(r), i < j
       PROVE  r[i][2] < r[j][2]
  <2>1. CASE i \in LinesIn(s) /\ r[i] = s[i] /\ j \in LinesIn(s) /\ r[j] = s[j]
    BY <1>3, <1>10, <2>1
  <2>2. CASE /\ i \in LinesIn(s) /\ r[i] = s[i]
             /\ \E k \in (o + 1)..n : j = m + (k - o) /\ r[j][2] = c[k]
    <3>1. PICK k \in (o + 1)..n : r[j][2] = c[k]
      BY <2>2
    <3>2. PICK l \in (b + 1)..o : s[i][2] = c[l]
      BY <1>8, <2>2
    <3>3. k \in 1..n /\ l \in 1..n /\ l < k
      BY <1>1, <1>2, <1>4 DEF n
    <3> QED
      BY <1>3, <2>2, <3>1, <3>2, <3>3
  <2>3. CASE /\ \E k \in (o + 1)..n : i = m + (k - o) /\ r[i][2] = c[k]
             /\ j \in 1..m
    BY <1>2, <1>10, <2>3
  <2>4. CASE /\ \E k \in (o + 1)..n : i = m + (k - o) /\ r[i][2] = c[k]
             /\ \E k \in (o + 1)..n : j = m + (k - o) /\ r[j][2] = c[k]
    <3>1. PICK k \in (o + 1)..n : i = m + (k - o) /\ r[i][2] = c[k]
      BY <2>4
    <3>2. PICK l \in (o + 1)..n : j = m + (l - o) /\ r[j][2] = c[l]
      BY <2>4
    <3>3. k \in 1..n /\ l \in 1..n /\ k < l
      BY <1>1, <1>2, <1>10, <3>1, <3>2
    <3> QED
      BY <1>3, <3>1, <3>2, <3>3
  <2> QED
    BY <1>5, <2>1, <2>2, <2>3, <2>4
<1>11. {r[i][2] : i \in LinesIn(r)} = {c[k] : k \in (b + 1)..n}
  <2>1. ASSUME NEW i \in LinesIn(r)
        PROVE  \E k \in (b + 1)..n : r[i][2] = c[k]
    <3>1. (b + 1)..o \subseteq (b + 1)..n /\ (o + 1)..n \subseteq (b + 1)..n
      BY <1>1, <1>2, <1>4
    <3> QED
      BY <1>5, <1>8, <3>1
  <2>2. ASSUME NEW k \in (b + 1)..n
        PROVE  \E i \in LinesIn(r) : r[i][2] = c[k]
    <3>1. k \in (b + 1)..o \/ k \in (o + 1)..n
      BY <1>1, <1>2
    <3>2. CASE k \in (b + 1)..o
      BY <1>6, <1>9, <3>2
    <3>3. CASE k \in (o + 1)..n
      BY <1>7, <3>3
    <3> QED
      BY <3>1, <3>2, <3>3
  <2>3. {r[i][2] : i \in LinesIn(r)} \subseteq {c[k] : k \in (b + 1)..n}
    BY <2>1
  <2>4. {c[k] : k \in (b + 1)..n} \subseteq {r[i][2] : i \in LinesIn(r)}
    BY <2>2
  <2> QED
    BY <2>3, <2>4
<1>12. b \in 0..n /\ n <= n
  BY <1>1, <1>2, <1>4
<1> QED
  BY <1>4, <1>10, <1>11, <1>12 DEF Account, r, n

(* A line more in the file is one behind the offset. *)
LEMMA AccountAppended ==
    ASSUME NEW s, NEW c \in Seq(Nat), NEW p, NEW b, NEW o \in Nat,
           NEW l \in Nat, Account(s, c, p, b, o)
    PROVE  Account(s, Append(c, l), p, b, o)
<1> DEFINE d == Append(c, l)
<1>1. /\ Len(d) = Len(c) + 1 /\ Len(c) \in Nat /\ o <= Len(c)
      /\ \A k \in 1..Len(c) : d[k] = c[k]
  BY Appended DEF Account
<1>2. /\ b \in 0..o /\ \A k \in 1..b : c[k] \in p
      /\ {s[i][2] : i \in LinesIn(s)} = {c[k] : k \in (b + 1)..o}
  BY DEF Account
<1> HIDE DEF d
<1>3. \A k \in 1..o : d[k] = c[k]
  BY <1>1
<1>4. /\ \A k \in 1..b : k \in 1..o
      /\ \A k \in (b + 1)..o : k \in 1..o
  BY <1>2
<1>5. {c[k] : k \in (b + 1)..o} = {d[k] : k \in (b + 1)..o}
  BY <1>3, <1>4
<1>6. o <= Len(d) /\ \A k \in 1..b : d[k] \in p
  BY <1>1, <1>2, <1>3, <1>4
<1> QED
  BY <1>2, <1>5, <1>6 DEF Account, d

(* What is printed beside lines moves no line. *)
LEMMA SilentLines ==
    ASSUME NEW s \in Seq(Entry), NEW t \in Seq(Entry), Silent(t)
    PROVE  /\ s \o t \in Seq(Entry)
           /\ LinesIn(s \o t) = LinesIn(s)
           /\ \A i \in LinesIn(s) : (s \o t)[i] = s[i]
<1> DEFINE u == s \o t
<1>1. /\ u \in Seq(Entry) /\ Len(s) \in Nat /\ Len(u) \in Nat
      /\ \A i \in 1..Len(s) : i \in 1..Len(u) /\ u[i] = s[i]
      /\ \A i \in 1..Len(t) : u[Len(s) + i] = t[i]
      /\ \A i \in 1..Len(u) : i \in 1..Len(s) \/ i - Len(s) \in 1..Len(t)
  BY Joined, LenProperties
<1> HIDE DEF u
<1>2. \A i \in 1..Len(u) : i \in 1..Len(s) \/ u[i][1] # "line"
  <2>1. ASSUME NEW i \in 1..Len(u), i - Len(s) \in 1..Len(t)
        PROVE  u[i][1] # "line"
    <3>1. Len(s) + (i - Len(s)) = i
      BY <1>1
    <3>2. u[i] = t[i - Len(s)]
      BY <1>1, <2>1, <3>1
    <3> QED
      BY <2>1, <3>2 DEF Silent
  <2> QED
    BY <1>1, <2>1
<1>3. LinesIn(u) = LinesIn(s)
  BY <1>1, <1>2 DEF LinesIn
<1> QED
  BY <1>1, <1>3 DEF LinesIn, u

(* It does not change the account. *)
LEMMA AccountSilent ==
    ASSUME NEW s \in Seq(Entry), NEW t \in Seq(Entry), Silent(t), NEW c, NEW p, NEW b, NEW o,
           Account(s, c, p, b, o)
    PROVE  Account(s \o t, c, p, b, o)
<1> DEFINE u == s \o t
<1>1. LinesIn(u) = LinesIn(s) /\ \A i \in LinesIn(s) : u[i] = s[i]
  BY SilentLines
<1> HIDE DEF u
<1>2. {u[i][2] : i \in LinesIn(u)} = {s[i][2] : i \in LinesIn(s)}
  BY <1>1
<1>3. \A i, j \in LinesIn(u) : i < j => u[i][2] < u[j][2]
  BY <1>1 DEF Account
<1> QED
  BY <1>2, <1>3 DEF Account, u

(* It does not change how often a line was printed. *)
LEMMA OnceSilent ==
    ASSUME NEW s \in Seq(Entry), NEW t \in Seq(Entry), Silent(t), NEW l
    PROVE  /\ Once(s, l) => Once(s \o t, l)
           /\ Never(s, l) => Never(s \o t, l)
<1> DEFINE u == s \o t
           e == <<"line", l>>
<1>1. LinesIn(u) = LinesIn(s) /\ \A i \in LinesIn(s) : u[i] = s[i]
  BY SilentLines
<1>2. /\ Len(s) \in Nat /\ Len(u) \in Nat
      /\ \A i \in 1..Len(s) : i \in 1..Len(u) /\ u[i] = s[i]
  BY Joined, LenProperties
<1>3. e[1] = "line"
  OBVIOUS
<1> HIDE DEF u, e
<1>4. ASSUME NEW i \in 1..Len(u), u[i] = e
      PROVE  i \in 1..Len(s) /\ s[i] = e
  <2>1. i \in LinesIn(u)
    BY <1>3, <1>4 DEF LinesIn
  <2> QED
    BY <1>1, <1>4, <2>1 DEF LinesIn
<1>5. Once(s, l) => Once(u, l)
  <2>1. ASSUME NEW i \in 1..Len(s), s[i] = e, \A j \in 1..Len(s) : s[j] = e => j = i
        PROVE  /\ i \in 1..Len(u) /\ u[i] = e
               /\ \A j \in 1..Len(u) : u[j] = e => j = i
    BY <1>2, <1>4, <2>1
  <2> QED
    BY <2>1 DEF Once, e
<1>6. Never(s, l) => Never(u, l)
  BY <1>4 DEF Never, e
<1> QED
  BY <1>5, <1>6 DEF u

(* Nor which lines were told. *)
LEMMA ToldSilent ==
    ASSUME NEW s \in Seq(Entry), NEW t \in Seq(Entry), Silent(t), NEW c, NEW p, NEW b, NEW o,
           Told(s, c, p, o)
    PROVE  Told(s \o t, c, p, o)
BY OnceSilent DEF Told

(* After a read all lines of the file were told. *)
LEMMA ToldRead ==
    ASSUME NEW s \in Seq(Entry), NEW c \in Seq(Nat), NEW p, NEW b, NEW o \in Nat, o <= Len(c),
           Rising(c), Told(s, c, p, o)
    PROVE  Told(Read(s, c, o), c, p, Len(c))
<1> DEFINE r == Read(s, c, o)
           m == Len(s)
           n == Len(c)
<1>1. /\ r \in Seq(Entry) /\ Len(r) = m + (n - o) /\ m \in Nat /\ n \in Nat
      /\ \A i \in 1..m : i \in 1..Len(r) /\ r[i] = s[i]
      /\ \A k \in (o + 1)..n : /\ m + (k - o) \in 1..Len(r)
                               /\ r[m + (k - o)] = <<"line", c[k]>>
      /\ \A i \in 1..Len(r) : i \in 1..m \/ \E k \in (o + 1)..n : i = m + (k - o)
  BY ReadAll
<1>2. \A i, j \in 1..n : c[i] = c[j] => i = j
  <2>1. \A i \in 1..n : c[i] \in Nat
    BY ElementOfSeq
  <2>2. \A i, j \in 1..n : i < j => c[i] < c[j]
    BY DEF Rising
  <2> QED
    BY <2>1, <2>2
<1>3. \A k \in 1..n : /\ k <= o => c[k] \in p \/ Once(s, c[k])
                      /\ k > o => c[k] \notin p /\ Never(s, c[k])
  BY DEF Told
<1> HIDE DEF r, m, n
<1>4. ASSUME NEW k \in 1..n, k <= o, Once(s, c[k])
      PROVE  Once(r, c[k])
  <2>1. PICK i \in 1..m : /\ s[i] = <<"line", c[k]>>
                          /\ \A j \in 1..m : s[j] = <<"line", c[k]>> => j = i
    BY <1>4 DEF Once, m
  <2>2. ASSUME NEW j \in 1..Len(r), r[j] = <<"line", c[k]>>
        PROVE  j = i
    <3>1. CASE j \in 1..m
      BY <1>1, <2>1, <2>2, <3>1
    <3>2. CASE \E l \in (o + 1)..n : j = m + (l - o)
      <4>1. PICK l \in (o + 1)..n : j = m + (l - o)
        BY <3>2
      <4>2. c[l] = c[k] /\ l \in 1..n /\ l # k
        BY <1>1, <1>4, <2>2, <4>1
      <4> QED
        BY <1>2, <4>2
    <3> QED
      BY <1>1, <3>1, <3>2
  <2>3. i \in 1..Len(r) /\ r[i] = <<"line", c[k]>>
    BY <1>1, <2>1
  <2> QED
    BY <2>2, <2>3 DEF Once
<1>5. ASSUME NEW k \in 1..n, ~(k <= o), Never(s, c[k])
      PROVE  Once(r, c[k])
  <2> DEFINE i == m + (k - o)
  <2>0. k \in (o + 1)..n
    BY <1>1, <1>5
  <2>1. i \in 1..Len(r) /\ r[i] = <<"line", c[k]>>
    BY <1>1, <2>0
  <2>2. ASSUME NEW j \in 1..Len(r), r[j] = <<"line", c[k]>>
        PROVE  j = i
    <3>1. CASE j \in 1..m
      BY <1>1, <1>5, <2>2, <3>1 DEF Never, m
    <3>2. CASE \E l \in (o + 1)..n : j = m + (l - o)
      <4>1. PICK l \in (o + 1)..n : j = m + (l - o)
        BY <3>2
      <4>2. c[l] = c[k] /\ l \in 1..n
        BY <1>1, <2>2, <4>1
      <4> QED
        BY <1>2, <4>1, <4>2
    <3> QED
      BY <1>1, <3>1, <3>2
  <2> HIDE DEF i
  <2> QED
    BY <2>1, <2>2 DEF Once
<1>6. ASSUME NEW k \in 1..n
      PROVE  (c[k] \in p \/ Once(r, c[k])) /\ ~(k > n)
  <2>1. k <= o \/ ~(k <= o)
    OBVIOUS
  <2>2. ~(k <= o) => k > o
    BY <1>1
  <2> QED
    BY <1>1, <1>3, <1>4, <1>5, <2>1, <2>2
<1> QED
  BY <1>6 DEF Told, r, n

(* A line that is new in the file was not told. *)
LEMMA ToldAppended ==
    ASSUME NEW s, NEW c \in Seq(Nat), NEW p, NEW b, NEW o \in Nat, NEW l \in Nat, Told(s, c, p, o),
           o <= Len(c), l \notin p, Never(s, l)
    PROVE  Told(s, Append(c, l), p, o)
<1> DEFINE d == Append(c, l)
<1>1. /\ Len(d) = Len(c) + 1 /\ Len(c) \in Nat /\ d[Len(c) + 1] = l
      /\ \A k \in 1..Len(c) : d[k] = c[k]
      /\ \A k \in 1..(Len(c) + 1) : k \in 1..Len(c) \/ k = Len(c) + 1
  BY Appended
<1> HIDE DEF d
<1>2. ASSUME NEW k \in 1..Len(d)
      PROVE  /\ k <= o => d[k] \in p \/ Once(s, d[k])
             /\ k > o => d[k] \notin p /\ Never(s, d[k])
  <2>1. CASE k \in 1..Len(c)
    BY <1>1, <2>1 DEF Told
  <2>2. CASE k = Len(c) + 1
    BY <1>1, <2>2
  <2> QED
    BY <1>1, <2>1, <2>2
<1> QED
  BY <1>2 DEF Told, d

(* A file that is shorter has fewer lines to tell. *)
LEMMA ToldTruncated ==
    ASSUME NEW s, NEW c \in Seq(Nat), NEW p, NEW o, NEW k \in 0..(Len(c) - 1), Told(s, c, p, o)
    PROVE  Told(s, SubSeq(c, 1, k), p, o)
BY Prefix DEF Told

(* A new line has a number above all others. *)
LEMMA RisingAppended ==
    ASSUME NEW c \in Seq(Nat), NEW l \in Nat, Rising(c), \A i \in 1..Len(c) : c[i] < l
    PROVE  Rising(Append(c, l))
<1> DEFINE d == Append(c, l)
<1>1. /\ Len(d) = Len(c) + 1 /\ Len(c) \in Nat /\ d[Len(c) + 1] = l
      /\ \A k \in 1..Len(c) : d[k] = c[k]
      /\ \A k \in 1..(Len(c) + 1) : k \in 1..Len(c) \/ k = Len(c) + 1
  BY Appended
<1> HIDE DEF d
<1>2. ASSUME NEW i \in 1..Len(d), NEW j \in 1..Len(d), i < j
      PROVE  d[i] < d[j]
  <2>1. i \in 1..Len(c)
    BY <1>1, <1>2
  <2>2. CASE j \in 1..Len(c)
    BY <1>1, <1>2, <2>1, <2>2 DEF Rising
  <2>3. CASE j = Len(c) + 1
    BY <1>1, <2>1, <2>3
  <2> QED
    BY <1>1, <2>2, <2>3
<1> QED
  BY <1>2 DEF Rising, d

(* A part of a rising sequence rises. *)
LEMMA RisingTruncated ==
    ASSUME NEW c \in Seq(Nat), NEW k \in 0..(Len(c) - 1), Rising(c)
    PROVE  Rising(SubSeq(c, 1, k))
BY SMTT(30), Prefix DEF Rising

(* A sequence of one entry. *)
LEMMA OneEntry ==
    ASSUME NEW e \in Entry
    PROVE  <<e>> \in Seq(Entry) /\ Len(<<e>>) = 1 /\ \A i \in 1..Len(<<e>>) : <<e>>[i] = e
OBVIOUS

(* A report on mode or size is no line. *)
LEMMA ReportIs ==
    ASSUME Types, NEW f \in Files
    PROVE  Report(f) \in Seq(Entry) /\ Silent(Report(f))
<1> DEFINE a == IF stSize[f] < size[f] THEN <<<<"shrunk", stSize[f]>>>> ELSE <<>>
           b == IF stMode[f] # fmode[f] THEN <<<<"mode", stMode[f]>>>> ELSE <<>>
<1>1. /\ <<"shrunk", stSize[f]>> \in Entry /\ <<"shrunk", stSize[f]>>[1] # "line"
      /\ <<"mode", stMode[f]>> \in Entry /\ <<"mode", stMode[f]>>[1] # "line"
  <2>1. stSize[f] \in Nat /\ stMode[f] \in {0, 1}
    BY DEF Types
  <2> QED
    BY <2>1 DEF Entry
<1>2. a \in Seq(Entry) /\ Silent(a)
  BY <1>1, OneEntry DEF Silent
<1>3. b \in Seq(Entry) /\ Silent(b)
  BY <1>1, OneEntry DEF Silent
<1>4. Report(f) = a \o b
  BY DEF Report
<1> HIDE DEF a, b
<1>5. /\ a \o b \in Seq(Entry) /\ Len(a) \in Nat
      /\ \A i \in 1..Len(a) : (a \o b)[i] = a[i]
      /\ \A i \in 1..Len(b) : (a \o b)[Len(a) + i] = b[i]
      /\ \A i \in 1..Len(a \o b) : i \in 1..Len(a) \/ i - Len(a) \in 1..Len(b)
      /\ Len(a \o b) \in Nat
  BY <1>2, <1>3, Joined, LenProperties
<1>6. \A i \in 1..Len(a \o b) : Len(a) + (i - Len(a)) = i
  BY <1>5
<1>7. Silent(a \o b)
  BY <1>2, <1>3, <1>5, <1>6 DEF Silent
<1> QED
  BY <1>4, <1>5, <1>7

(* Nor is the report that a file is gone. *)
LEMMA Gone ==
    ASSUME NEW s \in Seq(Entry)
    PROVE  LET t == <<<<"gone", 0>>>> IN
             t \in Seq(Entry) /\ Silent(t) /\ Append(s, <<"gone", 0>>) = s \o t
<1>1. <<"gone", 0>> \in Entry /\ <<"gone", 0>>[1] # "line"
  BY DEF Entry
<1>2. Append(s, <<"gone", 0>>) = s \o <<<<"gone", 0>>>>
  BY <1>1, AppendProperties
<1> QED
  BY <1>1, <1>2, OneEntry DEF Silent

-----------------------------------------------------------------------------
(* What the actions do *)

(* The types hold at the start. *)
LEMMA InitTypes == Init => Types
<1>1. ASSUME Init
      PROVE  Types
  <2>1. [k \in 1..Initial |-> k] \in Seq(Nat)
    BY FileWatchAssumption, SeqDef
  <2>2. <<>> \in Seq(Entry)
    BY EmptySeq
  <2> QED
    BY <1>1, <2>1, <2>2 DEF Init, Types, Places, First
<1> QED
  BY <1>1

(* The steps of the writers keep the types. *)
LEMMA WriterTypes ==
    ASSUME Types, Writer
    PROVE  Types'
<1>1. PICK f \in Files : AppendLine(f) \/ Truncate(f) \/ Chmod(f) \/ RemoveFile(f)
  BY DEF Writer
<1>2. \E what : MayWrite(f, what)
  BY <1>1 DEF AppendLine, Truncate, Chmod, RemoveFile
<1>3. /\ UNCHANGED <<writer, pc, stSize, stMode, size, fmode, offset, compared, base, out>>
      /\ writes' \in [Files -> Nat] /\ acted' \in [Files -> BOOLEAN]
  BY <1>2 DEF MayWrite, st, info, Types
<1>4. CASE AppendLine(f)
  <2>1. cont[f] \in Seq(Nat) /\ Initial + writes[f] + 1 \in Nat
    BY FileWatchAssumption DEF Types
  <2>2. Append(cont[f], Initial + writes[f] + 1) \in Seq(Nat)
    BY <2>1, Appended
  <2> QED
    BY <1>3, <1>4, <2>2 DEF AppendLine, Types
<1>5. CASE Truncate(f)
  <2>1. PICK k \in 0..(Len(cont[f]) - 1) : cont' = [cont EXCEPT ![f] = SubSeq(@, 1, k)]
    BY <1>5 DEF Truncate
  <2>2. SubSeq(cont[f], 1, k) \in Seq(Nat)
    BY Prefix DEF Types
  <2> QED
    BY <1>3, <1>5, <2>1, <2>2 DEF Truncate, Types
<1>6. CASE Chmod(f)
  <2>1. mode[f] \in {0, 1} => 1 - mode[f] \in {0, 1}
    OBVIOUS
  <2>2. mode' \in [Files -> {0, 1}]
    BY <1>6, <2>1 DEF Chmod, Types
  <2> QED
    BY <1>3, <1>6, <2>2 DEF Chmod, Types
<1>7. CASE RemoveFile(f)
  BY <1>3, <1>7 DEF RemoveFile, Types
<1> QED
  BY <1>1, <1>4, <1>5, <1>6, <1>7

(* The results of stat have their types. *)
LEMMA StatTypes ==
    ASSUME Types, NEW f \in Files, Stat(f)
    PROVE  stSize' \in [Files -> Nat] /\ stMode' \in [Files -> {0, 1}]
<1>1. Len(cont[f]) \in Nat
  BY LenProperties DEF Types
<1> QED
  BY <1>1 DEF Stat, Types

(* The steps of the program keep the types. *)
LEMMA ProgramTypes ==
    ASSUME Types, Program
    PROVE  Types'
<1>1. ASSUME NEW f \in Files, NEW next \in Places, StatFirst(f, next)
      PROVE  Types'
  <2>1. stSize' \in [Files -> Nat] /\ stMode' \in [Files -> {0, 1}] /\ pc' \in Places
    BY <1>1, StatTypes DEF StatFirst, st, Types, Places
  <2> QED
    BY <1>1, <2>1 DEF StatFirst, disk, info, Types
<1>2. CASE Compare
  <2>1. \A f \in Files : ToSet(cont[f]) \subseteq Nat
    <3>1. ASSUME NEW f \in Files
          PROVE  ToSet(cont[f]) \subseteq Nat
      <4>1. cont[f] \in Seq(Nat)
        BY DEF Types
      <4>2. DOMAIN cont[f] = 1..Len(cont[f]) /\ \A k \in 1..Len(cont[f]) : cont[f][k] \in Nat
        BY <4>1, LenProperties, ElementOfSeq
      <4> QED
        BY <4>2 DEF ToSet
    <3> QED
      BY <3>1
  <2> QED
    BY <1>2, <2>1 DEF Compare, disk, st, Types, Places
<1>3. CASE Wake
  BY <1>3 DEF Wake, st, info, Types, Places
<1>4. CASE Update
  <2>1. \A f \in Files : out[f] \o Report(f) \in Seq(Entry)
    BY ReportIs, Joined DEF Types
  <2>2. out' \in [Files -> Seq(Entry)] /\ offset' \in [Files -> Nat]
    BY <1>4, <2>1 DEF Update, Types
  <2> QED
    BY <1>4, <2>2 DEF Update, disk, st, Types, Places
<1>5. ASSUME NEW f \in Files, StatPoll(f)
      PROVE  Types'
  <2>1. CASE exists[f]
    <3>1. stSize' \in [Files -> Nat] /\ stMode' \in [Files -> {0, 1}] /\ pc' \in Places
      BY <1>5, <2>1, StatTypes DEF StatPoll, Places
    <3> QED
      BY <1>5, <2>1, <3>1 DEF StatPoll, disk, info, Types
  <2>2. CASE ~exists[f]
    <3>1. Append(out[f], <<"gone", 0>>) \in Seq(Entry)
      BY Appended DEF Types, Entry
    <3> QED
      BY <1>5, <2>2, <3>1 DEF StatPoll, disk, st, info, Types, Places
  <2> QED
    BY <2>1, <2>2
<1>6. ASSUME NEW f \in Files, ReadPoll(f)
      PROVE  Types'
  <2>1. CASE read_new(f)
    <3>1. out' = [out EXCEPT ![f] = Read(out[f], cont[f], offset[f])]
      BY <2>1 DEF read_new, Read
    <3>2. Read(out[f], cont[f], offset[f]) \in Seq(Entry)
      BY ReadTypes DEF Types
    <3>3. out' \in [Files -> Seq(Entry)]
      BY <3>1, <3>2 DEF Types
    <3>4. offset' \in [Files -> Nat]
      <4>1. Greater(offset[f], Len(cont[f])) \in Nat
        BY LenProperties DEF Greater, Types
      <4> QED
        BY <2>1, <4>1 DEF read_new, Types
    <3> QED
      BY <1>6, <3>3, <3>4 DEF ReadPoll, disk, st, Types, Places
  <2>2. CASE UNCHANGED <<out, offset>>
    BY <1>6, <2>2 DEF ReadPoll, disk, st, Types, Places
  <2> QED
    BY <1>6, <2>1, <2>2 DEF ReadPoll
<1> QED
  BY <1>1, <1>2, <1>3, <1>4, <1>5, <1>6 DEF Program, Places, First, Files

(* The changes of out[f] and offset[f]: none or something that is no line,   *)
(* or all lines behind offset.                                               *)
LEMMA OutChanges ==
    ASSUME Types, Program, NEW f \in Files
    PROVE  \/ /\ \/ out'[f] = out[f]
                 \/ \E t \in Seq(Entry) : Silent(t) /\ out'[f] = out[f] \o t
              /\ Compare \/ Update \/ offset'[f] = offset[f]
           \/ /\ out'[f] = Read(out[f], cont[f], offset[f])
              /\ offset'[f] = Greater(offset[f], Len(cont[f]))
              /\ pc = (IF f = 1 THEN "read1" ELSE "read2") /\ stSize[f] > size[f]
<1>1. CASE UNCHANGED out /\ (Compare \/ UNCHANGED offset)
  BY <1>1
<1>2. ASSUME NEW g \in Files, StatPoll(g), ~exists[g]
      PROVE  /\ \/ out'[f] = out[f]
                \/ \E t \in Seq(Entry) : Silent(t) /\ out'[f] = out[f] \o t
             /\ UNCHANGED offset
  <2>1. CASE f = g
    <3>1. out[f] \in Seq(Entry) /\ out'[f] = Append(out[f], <<"gone", 0>>)
      BY <1>2, <2>1 DEF StatPoll, Types
    <3> QED
      BY <1>2, <3>1, Gone DEF StatPoll, info
  <2>2. CASE f # g
    BY <1>2, <2>2 DEF StatPoll, Types, info
  <2> QED
    BY <2>1, <2>2
<1>3. CASE Update
  <2>1. out'[f] = out[f] \o Report(f)
    BY <1>3 DEF Update
  <2> QED
    BY <1>3, <2>1, ReportIs
<1>4. ASSUME NEW g \in Files, ReadPoll(g), stSize[g] > size[g]
      PROVE  \/ out'[f] = out[f] /\ offset'[f] = offset[f]
             \/ /\ out'[f] = Read(out[f], cont[f], offset[f])
                /\ offset'[f] = Greater(offset[f], Len(cont[f]))
                /\ f = g
  <2>0. read_new(g)
    BY <1>4 DEF ReadPoll
  <2>1. CASE f = g
    BY <2>0, <2>1 DEF read_new, Read, Types
  <2>2. CASE f # g
    BY <2>0, <2>2 DEF read_new, Types
  <2> QED
    BY <2>1, <2>2
<1> QED
  BY <1>1, <1>2, <1>3, <1>4
  DEF Program, StatFirst, Compare, Wake, StatPoll, ReadPoll, info

(* The lines of the files are numbered at the start. *)
LEMMA InitNumbered == Init => Numbered
<1>1. ASSUME Init, NEW f \in Files
      PROVE  /\ cont[f] = [k \in 1..Initial |-> k] /\ out[f] = <<>> /\ compared[f] = {}
             /\ offset[f] = 0 /\ writes[f] = 0
  BY <1>1 DEF Init
<1>2. Len([k \in 1..Initial |-> k]) = Initial
  BY FileWatchAssumption
<1>3. LinesIn(<<>>) = {}
  BY DEF LinesIn
<1>4. ASSUME Init, NEW f \in Files
      PROVE  /\ Rising(cont[f]) /\ \A i \in 1..Len(cont[f]) : cont[f][i] <= Initial + writes[f]
             /\ \A l \in compared[f] : l <= Initial + writes[f]
             /\ \A i \in LinesIn(out[f]) : out[f][i][2] <= Initial + writes[f]
             /\ out[f] = <<>> /\ compared[f] = {} /\ offset[f] = 0
  <2>1. \A i \in 1..Len(cont[f]) : i \in 1..Initial /\ cont[f][i] = i
    BY <1>1, <1>2, <1>4
  <2>2. Rising(cont[f])
    BY <2>1 DEF Rising
  <2>3. \A i \in 1..Len(cont[f]) : cont[f][i] <= Initial + writes[f]
    <3>1. Initial \in Nat /\ writes[f] = 0 /\ Initial + 0 = Initial
      <4>1. Initial \in Nat
        BY FileWatchAssumption
      <4>2. writes[f] = 0
        BY <1>1, <1>4
      <4> QED
        BY <4>1, <4>2
    <3>2. \A i \in 1..Initial : i <= Initial
      BY <3>1
    <3> QED
      BY <2>1, <3>1, <3>2
  <2>4. LinesIn(out[f]) = {} /\ compared[f] = {}
    BY <1>1, <1>3, <1>4
  <2> QED
    BY <1>1, <1>4, <2>2, <2>3, <2>4
<1> QED
  BY <1>4 DEF Numbered

(* A writer numbers its lines upwards. *)
LEMMA WriterNumbered ==
    ASSUME Types, Numbered, Writer
    PROVE  Numbered'
<1>1. PICK g \in Files : AppendLine(g) \/ Truncate(g) \/ Chmod(g) \/ RemoveFile(g)
  BY DEF Writer
<1>2. \E what : MayWrite(g, what)
  BY <1>1 DEF AppendLine, Truncate, Chmod, RemoveFile
<1>2a. UNCHANGED <<pc, offset, compared, out>>
  BY <1>2 DEF MayWrite, info
<1>3. /\ \A f \in Files : writes[f] \in Nat /\ writes'[f] \in Nat /\ writes[f] <= writes'[f]
      /\ writes'[g] = writes[g] + 1
      /\ Initial \in Nat
  <2>1. writes' = [writes EXCEPT ![g] = @ + 1]
    BY <1>2 DEF MayWrite
  <2> QED
    BY <2>1, FileWatchAssumption DEF Types
<1>4. ASSUME NEW f \in Files
      PROVE  /\ Rising(cont'[f])
             /\ \A i \in 1..Len(cont'[f]) : cont'[f][i] <= Initial + writes'[f]
  <2>0. /\ cont[f] \in Seq(Nat) /\ Rising(cont[f])
        /\ \A i \in 1..Len(cont[f]) : cont[f][i] \in Nat /\ cont[f][i] <= Initial + writes[f]
    <3>1. cont[f] \in Seq(Nat)
      BY DEF Types
    <3> QED
      BY <3>1, ElementOfSeq DEF Numbered
  <2>1. CASE AppendLine(g) /\ f = g
    <3> DEFINE l == Initial + writes[f] + 1
    <3>1. cont'[f] = Append(cont[f], l)
      BY <2>1 DEF AppendLine, Types
    <3>2. l \in Nat /\ l = Initial + writes'[f]
      BY <1>3, <2>1
    <3>3. \A i \in 1..Len(cont[f]) : cont[f][i] < l
      BY SMTT(30), <1>3, <2>0, <3>2
    <3> HIDE DEF l
    <3>4. Rising(cont'[f])
      BY <2>0, <3>1, <3>2, <3>3, RisingAppended
    <3>5. /\ Len(cont'[f]) = Len(cont[f]) + 1 /\ cont'[f][Len(cont[f]) + 1] = l
          /\ \A k \in 1..Len(cont[f]) : cont'[f][k] = cont[f][k]
          /\ \A k \in 1..(Len(cont[f]) + 1) : k \in 1..Len(cont[f]) \/ k = Len(cont[f]) + 1
      BY <2>0, <3>1, <3>2, Appended
    <3>6. ASSUME NEW i \in 1..Len(cont'[f])
          PROVE  cont'[f][i] <= l
      <4>1. CASE i \in 1..Len(cont[f])
        BY SMTT(30), <2>0, <3>2, <3>3, <3>5, <4>1
      <4>2. CASE i = Len(cont[f]) + 1
        BY <3>2, <3>5, <4>2
      <4> QED
        BY <3>5, <4>1, <4>2
    <3> QED
      BY <3>2, <3>4, <3>6
  <2>2. CASE Truncate(g) /\ f = g
    <3>1. PICK k \in 0..(Len(cont[f]) - 1) : cont'[f] = SubSeq(cont[f], 1, k)
      BY <2>2 DEF Truncate, Types
    <3>2. Rising(cont'[f])
      BY <2>0, <3>1, RisingTruncated
    <3>3. ASSUME NEW i \in 1..Len(cont'[f])
          PROVE  cont'[f][i] <= Initial + writes'[f]
      <4>1. i \in 1..Len(cont[f]) /\ cont'[f][i] = cont[f][i]
        BY <2>0, <3>1, <3>3, Prefix
      <4>2. /\ Initial + writes[f] \in Nat /\ Initial + writes'[f] \in Nat
            /\ Initial + writes[f] <= Initial + writes'[f]
        BY SMTT(30), <1>3
      <4>3. cont[f][i] \in Nat /\ cont[f][i] <= Initial + writes[f]
        BY <2>0, <4>1
      <4> QED
        BY <4>1, <4>2, <4>3
    <3> QED
      BY <3>2, <3>3
  <2>3. CASE cont'[f] = cont[f]
    <3>1. Rising(cont'[f])
      BY <2>0, <2>3
    <3>2. /\ Initial \in Nat /\ writes[f] \in Nat /\ writes'[f] \in Nat
          /\ writes[f] <= writes'[f]
      BY <1>3
    <3>3. ASSUME NEW k \in 1..Len(cont'[f])
          PROVE  cont'[f][k] <= Initial + writes'[f]
      <4>1. cont'[f][k] \in Nat /\ cont'[f][k] <= Initial + writes[f]
        BY <2>0, <2>3, <3>3
      <4> QED
        BY <3>2, <4>1
    <3> QED
      BY <3>1, <3>3
  <2> QED
    BY <1>1, <2>1, <2>2, <2>3 DEF AppendLine, Truncate, Chmod, RemoveFile, Types
<1>5. ASSUME NEW f \in Files
      PROVE  /\ \A l \in compared'[f] : l <= Initial + writes'[f]
             /\ \A i \in LinesIn(out'[f]) : out'[f][i][2] <= Initial + writes'[f]
             /\ pc' \in First => out'[f] = <<>> /\ compared'[f] = {} /\ offset'[f] = 0
  <2>1. \A l \in compared[f] : l \in Nat /\ l <= Initial + writes[f]
    BY DEF Types, Numbered
  <2>2. \A i \in LinesIn(out[f]) : out[f][i][2] \in Nat
    <3>1. out[f] \in Seq(Entry)
      BY DEF Types
    <3> QED
      BY <3>1, ElementOfSeq DEF LinesIn, Entry
  <2>3. \A n \in Nat : n <= Initial + writes[f] => n <= Initial + writes'[f]
    BY <1>3
  <2> QED
    BY <1>2a, <1>3, <2>1, <2>2, <2>3 DEF Numbered
<1> QED
  BY <1>4, <1>5 DEF Numbered

(* The program does not write the files. *)
LEMMA ProgramNumbered ==
    ASSUME Types, Numbered, Program
    PROVE  Numbered'
<1>1. UNCHANGED <<cont, writes>>
  BY DEF Program, StatFirst, Compare, Wake, StatPoll, ReadPoll, Update, disk
<1>2. ASSUME NEW f \in Files
      PROVE  \A i \in LinesIn(out'[f]) : out'[f][i][2] <= Initial + writes[f]
  <2>1. CASE out'[f] = out[f]
    BY <2>1 DEF Numbered
  <2>2. CASE \E t \in Seq(Entry) : Silent(t) /\ out'[f] = out[f] \o t
    <3>1. LinesIn(out'[f]) = LinesIn(out[f]) /\ \A i \in LinesIn(out[f]) : out'[f][i] = out[f][i]
      <4>1. out[f] \in Seq(Entry)
        BY DEF Types
      <4>2. PICK t \in Seq(Entry) : Silent(t) /\ out'[f] = out[f] \o t
        BY <2>2
      <4> DEFINE u == out[f] \o t
      <4>3. LinesIn(u) = LinesIn(out[f]) /\ \A i \in LinesIn(out[f]) : u[i] = out[f][i]
        BY <4>1, <4>2, SilentLines
      <4>4. out'[f] = u
        BY <4>2
      <4> HIDE DEF u
      <4> QED
        BY <4>3, <4>4
    <3> QED
      BY <3>1 DEF Numbered
  <2>3. CASE out'[f] = Read(out[f], cont[f], offset[f])
    <3>1. \A i \in 1..Len(out'[f]) :
             \/ i \in 1..Len(out[f]) /\ out'[f][i] = out[f][i]
             \/ \E k \in 1..Len(cont[f]) : out'[f][i] = <<"line", cont[f][k]>>
      <4>1. out[f] \in Seq(Entry) /\ cont[f] \in Seq(Nat) /\ offset[f] \in Nat
        BY DEF Types
      <4> DEFINE r == Read(out[f], cont[f], offset[f])
      <4>2. \A i \in 1..Len(r) : \/ i \in 1..Len(out[f]) /\ r[i] = out[f][i]
                                 \/ \E k \in 1..Len(cont[f]) : r[i] = <<"line", cont[f][k]>>
        BY <4>1, ReadTypes
      <4>3. out'[f] = r
        BY <2>3
      <4> HIDE DEF r
      <4> QED
        BY <4>2, <4>3
    <3>2. ASSUME NEW i \in LinesIn(out'[f])
          PROVE  out'[f][i][2] <= Initial + writes[f]
      <4>1. CASE i \in 1..Len(out[f]) /\ out'[f][i] = out[f][i]
        BY <3>2, <4>1 DEF LinesIn, Numbered
      <4>2. CASE \E k \in 1..Len(cont[f]) : out'[f][i] = <<"line", cont[f][k]>>
        BY <4>2 DEF Numbered
      <4> QED
        BY <3>1, <3>2, <4>1, <4>2 DEF LinesIn
    <3> QED
      BY <3>2
  <2>4. \/ out'[f] = out[f]
        \/ \E t \in Seq(Entry) : Silent(t) /\ out'[f] = out[f] \o t
        \/ out'[f] = Read(out[f], cont[f], offset[f])
    BY OutChanges
  <2> QED
    BY <2>1, <2>2, <2>3, <2>4
<1>3. ASSUME NEW f \in Files
      PROVE  \A l \in compared'[f] : l <= Initial + writes[f]
  <2>1. CASE UNCHANGED compared
    BY <2>1 DEF Numbered
  <2>2. CASE Compare
    <3>1. cont[f] \in Seq(Nat) /\ compared'[f] = ToSet(cont[f])
      BY <2>2 DEF Compare, Types
    <3>2. \A l \in compared'[f] : \E k \in 1..Len(cont[f]) : l = cont[f][k]
      BY <3>1, LenProperties DEF ToSet
    <3> QED
      BY <3>2 DEF Numbered
  <2> QED
    BY <2>1, <2>2 DEF Program, StatFirst, Wake, StatPoll, ReadPoll, Update
<1>4. pc' \in First => pc \in First /\ UNCHANGED <<out, compared, base, offset>>
  BY DEF Program, StatFirst, Compare, Wake, StatPoll, ReadPoll, Update, First, Files, info
<1> QED
  BY <1>1, <1>2, <1>3, <1>4 DEF Numbered

-----------------------------------------------------------------------------
(* While files only grow *)

(* No line is printed at the start. *)
LEMMA InitGrown == Init => Grown
<1>1. ASSUME Init, NEW f \in Files
      PROVE  /\ size[f] <= stSize[f] /\ stSize[f] <= Len(cont[f])
             /\ Account(out[f], cont[f], compared[f], base[f], offset[f])
  <2>1. /\ size[f] = 0 /\ stSize[f] = 0 /\ offset[f] = 0 /\ base[f] = 0 /\ out[f] = <<>>
        /\ cont[f] \in Seq(Nat)
    BY <1>1, InitTypes DEF Init, Types
  <2>2. Len(cont[f]) \in Nat
    BY <2>1, LenProperties
  <2>3. LinesIn(out[f]) = {}
    BY <2>1 DEF LinesIn
  <2>4. {out[f][i][2] : i \in LinesIn(out[f])} = {cont[f][k] : k \in (base[f] + 1)..offset[f]}
    BY <2>1, <2>3
  <2>5. base[f] \in 0..offset[f] /\ offset[f] <= Len(cont[f]) /\ \A k \in 1..base[f] : FALSE
    BY <2>1, <2>2
  <2>6. Account(out[f], cont[f], compared[f], base[f], offset[f])
    BY <2>1, <2>3, <2>4, <2>5 DEF Account
  <2> QED
    BY <2>1, <2>2, <2>6
<1> QED
  BY <1>1 DEF Grown

(* A writer that does not truncate keeps the account. *)
LEMMA WriterGrown ==
    ASSUME Types, Grown, Writer
    PROVE  Grown'
<1>1. PICK g \in Files : AppendLine(g) \/ Truncate(g) \/ Chmod(g) \/ RemoveFile(g)
  BY DEF Writer
<1>2. \E what : MayWrite(g, what)
  BY <1>1 DEF AppendLine, Truncate, Chmod, RemoveFile
<1>3. UNCHANGED <<writer, stSize, size, offset, compared, base, out>>
  BY <1>2 DEF MayWrite, st, info
<1>4. ASSUME "truncate" \notin writer.does, NEW f \in Files
      PROVE  /\ size[f] <= stSize[f] /\ stSize[f] <= Len(cont'[f])
             /\ Account(out[f], cont'[f], compared[f], base[f], offset[f])
  <2>1. /\ size[f] \in Nat /\ stSize[f] \in Nat /\ offset[f] \in Nat /\ cont[f] \in Seq(Nat)
        /\ size[f] <= stSize[f] /\ stSize[f] <= Len(cont[f])
        /\ Account(out[f], cont[f], compared[f], base[f], offset[f])
    BY <1>4 DEF Types, Grown
  <2>2. CASE AppendLine(g) /\ f = g
    <3> DEFINE l == Initial + writes[f] + 1
    <3>1. cont'[f] = Append(cont[f], l)
      BY <2>2 DEF AppendLine, Types
    <3>2. l \in Nat
      BY SMTT(30), FileWatchAssumption DEF Types
    <3> HIDE DEF l
    <3>3. Account(out[f], cont'[f], compared[f], base[f], offset[f])
      BY <2>1, <3>1, <3>2, AccountAppended
    <3>4. Len(cont'[f]) = Len(cont[f]) + 1 /\ Len(cont[f]) \in Nat
      BY <2>1, <3>1, <3>2, Appended
    <3> QED
      BY <2>1, <3>3, <3>4
  <2>3. CASE cont'[f] = cont[f]
    BY <2>1, <2>3
  <2>4. ~Truncate(g)
    BY <1>4 DEF Truncate, MayWrite
  <2> QED
    BY <1>1, <2>2, <2>3, <2>4 DEF AppendLine, Chmod, RemoveFile, Types
<1> QED
  BY <1>3, <1>4 DEF Grown

(* The program keeps the account while files grow. *)
LEMMA ProgramGrown ==
    ASSUME Types, Numbered, Grown, Program
    PROVE  Grown'
<1>1. UNCHANGED <<writer, cont>>
  BY DEF Program, StatFirst, Compare, Wake, StatPoll, ReadPoll, Update, disk
<1>2. SUFFICES ASSUME "truncate" \notin writer.does, NEW f \in Files
               PROVE  /\ size'[f] <= stSize'[f] /\ stSize'[f] <= Len(cont[f])
                      /\ Account(out'[f], cont[f], compared'[f], base'[f], offset'[f])
  BY <1>1 DEF Grown
<1>3. /\ size[f] \in Nat /\ stSize[f] \in Nat /\ offset[f] \in Nat /\ cont[f] \in Seq(Nat)
      /\ out[f] \in Seq(Entry) /\ Len(cont[f]) \in Nat
      /\ size[f] <= stSize[f] /\ stSize[f] <= Len(cont[f])
      /\ Account(out[f], cont[f], compared[f], base[f], offset[f])
  BY <1>2, LenProperties DEF Types, Grown
<1>4. size'[f] <= stSize'[f] /\ stSize'[f] <= Len(cont[f])
  <2>1. stSize'[f] \in {stSize[f], Len(cont[f])}
    BY DEF Program, StatFirst, Compare, Wake, StatPoll, ReadPoll, Update, Stat, st, Types
  <2>2. size'[f] = size[f] \/ (size'[f] = stSize[f] /\ stSize'[f] = stSize[f])
    BY DEF Program, StatFirst, Compare, Wake, StatPoll, ReadPoll, Update, st, info
  <2> QED
    BY <1>3, <2>1, <2>2
<1>5. CASE Compare
  <2>1. /\ out'[f] = <<>> /\ compared'[f] = ToSet(cont[f])
        /\ offset'[f] = stSize[f] /\ base'[f] = stSize[f]
    BY <1>5 DEF Compare, Numbered, First
  <2>2. LinesIn(out'[f]) = {}
    BY <2>1 DEF LinesIn
  <2>3. \A k \in 1..stSize[f] : cont[f][k] \in ToSet(cont[f])
    <3>1. DOMAIN cont[f] = 1..Len(cont[f])
      BY <1>3, LenProperties
    <3>2. \A k \in 1..stSize[f] : k \in 1..Len(cont[f])
      BY <1>3
    <3> QED
      BY <3>1, <3>2 DEF ToSet
  <2>4. stSize[f] \in 0..stSize[f] /\ (stSize[f] + 1)..stSize[f] = {}
    BY <1>3
  <2>5. {out'[f][i][2] : i \in LinesIn(out'[f])}
          = {cont[f][k] : k \in (stSize[f] + 1)..stSize[f]}
    BY <2>2, <2>4
  <2> QED
    BY <1>3, <1>4, <2>1, <2>2, <2>3, <2>4, <2>5 DEF Account
<1>6. CASE ~Compare
  <2>1. compared' = compared /\ base' = base
    BY <1>6 DEF Program, StatFirst, Wake, StatPoll, ReadPoll, Update
  <2>2. Update => offset'[f] = offset[f]
    BY <1>3 DEF Update
  <2>3. CASE out'[f] = out[f] /\ offset'[f] = offset[f]
    BY <1>3, <1>4, <2>1, <2>3
  <2>4. CASE /\ \E t \in Seq(Entry) : Silent(t) /\ out'[f] = out[f] \o t
             /\ offset'[f] = offset[f]
    BY <1>3, <1>4, <2>1, <2>4, AccountSilent
  <2>5. CASE /\ out'[f] = Read(out[f], cont[f], offset[f])
             /\ offset'[f] = Greater(offset[f], Len(cont[f]))
    <3>1. offset'[f] = Len(cont[f])
      BY <1>3, <2>5 DEF Greater, Account
    <3>2. Rising(cont[f])
      BY DEF Numbered
    <3> QED
      BY <1>3, <1>4, <2>1, <2>5, <3>1, <3>2, AccountRead
  <2>6. \/ /\ \/ out'[f] = out[f]
              \/ \E t \in Seq(Entry) : Silent(t) /\ out'[f] = out[f] \o t
           /\ Compare \/ Update \/ offset'[f] = offset[f]
        \/ /\ out'[f] = Read(out[f], cont[f], offset[f])
           /\ offset'[f] = Greater(offset[f], Len(cont[f]))
    BY OutChanges
  <2> QED
    BY <1>6, <2>2, <2>3, <2>4, <2>5, <2>6
<1> QED
  BY <1>5, <1>6

-----------------------------------------------------------------------------
(* With calm writers *)

(* Round holds at the start. *)
LEMMA InitRound == Init => Round
BY DEF Init, Round

(* A calm writer acts only where the program does not rely on what it knows. *)
LEMMA WriterRound ==
    ASSUME Types, Round, Writer
    PROVE  Round'
<1>1. PICK g \in Files : AppendLine(g) \/ Truncate(g) \/ Chmod(g) \/ RemoveFile(g)
  BY DEF Writer
<1>2. \E what : MayWrite(g, what)
  BY <1>1 DEF AppendLine, Truncate, Chmod, RemoveFile
<1>3. UNCHANGED <<writer, pc, stSize, stMode, size, fmode, offset>>
  BY <1>2 DEF MayWrite, st, info
<1>4. CASE writer.calm
  <2>1. pc = "sleep" /\ acted' = [acted EXCEPT ![g] = TRUE]
    BY <1>2, <1>4 DEF MayWrite
  <2>2. \A f \in Files : f # g => cont'[f] = cont[f] /\ mode'[f] = mode[f]
    BY <1>1 DEF AppendLine, Truncate, Chmod, RemoveFile, Types
  <2>3. ASSUME NEW f \in Files, ~acted'[f]
        PROVE  /\ size[f] = Len(cont'[f]) /\ offset[f] = size[f] /\ fmode[f] = mode'[f]
    <3>1. f # g /\ ~acted[f]
      BY <2>1, <2>3 DEF Types
    <3> QED
      BY <1>4, <2>1, <2>2, <3>1 DEF Round, Known
  <2>4. offset[1] = size[1] /\ offset[2] = size[2]
    BY <1>4, <2>1 DEF Round
  <2> QED
    BY <1>3, <2>1, <2>3, <2>4 DEF Round, Known
<1>5. CASE ~writer.calm
  BY <1>3, <1>5 DEF Round
<1> QED
  BY <1>4, <1>5

(* At each place of its loop the program knows what Round says. *)
LEMMA ProgramRound ==
    ASSUME Types, Round, Program
    PROVE  Round'
<1>1. UNCHANGED <<writer, cont, mode>> /\ (UNCHANGED acted \/ Wake)
  BY DEF Program, StatFirst, Compare, Wake, StatPoll, ReadPoll, Update, disk
<1>2. CASE ~writer.calm
  BY <1>1, <1>2 DEF Round
<1>3. SUFFICES ASSUME writer.calm
               PROVE  Round'
  BY <1>2
<1>4. \A f \in Files : ~acted'[f]
  <2>1. CASE Wake
    BY <2>1 DEF Wake
  <2>2. CASE pc # "sleep"
    BY <1>1, <1>3, <2>2 DEF Round, Wake
  <2> QED
    BY <2>1, <2>2 DEF Program, StatFirst, Compare, Wake, StatPoll, ReadPoll, Update
<1>5. 1 \in Files /\ 2 \in Files /\ \A f \in Files : f = 1 \/ f = 2
  BY DEF Files
<1>6. \A f \in Files : /\ stSize[f] \in Nat /\ size[f] \in Nat /\ offset[f] \in Nat
                       /\ Len(cont[f]) \in Nat
  BY LenProperties DEF Types
<1>7. CASE StatFirst(1, "statFirst2") \/ StatFirst(2, "compare")
  <2>1. CASE pc' = "done"
    BY <1>1, <1>4, <2>1 DEF Round
  <2>2. CASE pc = "statFirst1" /\ pc' = "statFirst2" /\ Stat(1)
    <3>1. Fresh(1)'
      BY <1>1, <1>5, <2>2 DEF Stat, Fresh, Types
    <3> QED
      BY <1>4, <2>2, <3>1 DEF Round
  <2>3. CASE pc = "statFirst2" /\ pc' = "compare" /\ Stat(2)
    <3>1. Fresh(1)
      BY <1>3, <2>3 DEF Round
    <3>2. Fresh(1)' /\ Fresh(2)'
      BY <1>1, <1>5, <2>3, <3>1 DEF Stat, Fresh, Types
    <3> QED
      BY <1>4, <2>3, <3>2 DEF Round
  <2> QED
    BY <1>7, <2>1, <2>2, <2>3 DEF StatFirst
<1>8. CASE Compare
  <2>1. Fresh(1) /\ Fresh(2)
    BY <1>3, <1>8 DEF Compare, Round
  <2>2. /\ pc' = "sleep" /\ size' = stSize /\ offset' = stSize /\ fmode' = stMode
    BY <1>8 DEF Compare
  <2> QED
    BY <1>1, <1>4, <1>5, <2>1, <2>2 DEF Round, Fresh, Known
<1>9. CASE Wake
  <2>1. pc = "sleep" /\ pc' = "stat1" /\ UNCHANGED <<size, offset>>
    BY <1>9 DEF Wake, info
  <2> QED
    BY <1>1, <1>3, <1>4, <2>1 DEF Round
<1>10. ASSUME NEW f \in Files, StatPoll(f)
       PROVE  Round'
  <2>1. UNCHANGED <<size, offset>>
    BY <1>10 DEF StatPoll, info
  <2>2. CASE pc' = "done"
    BY <1>1, <1>4, <2>2 DEF Round
  <2>3. CASE pc = "stat1" /\ pc' = "stat2" /\ Stat(1)
    <3>1. Fresh(1)'
      BY <1>1, <1>5, <2>3 DEF Stat, Fresh, Types
    <3>2. offset[1] = size[1] /\ offset[2] = size[2]
      BY <1>3, <2>3 DEF Round
    <3> QED
      BY <1>4, <2>1, <2>3, <3>1, <3>2 DEF Round
  <2>4. CASE pc = "stat2" /\ pc' = "read1" /\ Stat(2)
    <3>1. Fresh(1) /\ offset[1] = size[1] /\ offset[2] = size[2]
      BY <1>3, <2>4 DEF Round
    <3>2. Fresh(1)' /\ Fresh(2)'
      BY <1>1, <1>5, <2>4, <3>1 DEF Stat, Fresh, Types
    <3> QED
      BY <1>4, <2>1, <2>4, <3>1, <3>2 DEF Round
  <2> QED
    BY <1>5, <1>10, <2>2, <2>3, <2>4 DEF StatPoll
<1>11. ASSUME NEW f \in Files, ReadPoll(f)
       PROVE  Round'
  <2>1. Fresh(1) /\ Fresh(2) /\ UNCHANGED <<stSize, stMode, size>> /\ offset[f] = size[f]
    BY <1>3, <1>5, <1>11 DEF ReadPoll, Round, st
  <2>2. offset'[f] = Greater(size[f], stSize[f])
    <3>1. CASE stSize[f] > size[f]
      <4>1. offset'[f] = Greater(offset[f], Len(cont[f]))
        BY <1>11, <3>1 DEF ReadPoll, read_new, Types
      <4> QED
        BY <1>5, <2>1, <4>1 DEF Fresh
    <3>2. CASE ~(stSize[f] > size[f])
      BY <1>6, <1>11, <2>1, <3>2 DEF ReadPoll, Greater
    <3> QED
      BY <3>1, <3>2
  <2>3. \A g \in Files : g # f => offset'[g] = offset[g]
    BY <1>11 DEF ReadPoll, read_new, Types
  <2>4. /\ f = 1 => pc = "read1" /\ pc' = "read2"
        /\ f = 2 => pc = "read2" /\ pc' = "update"
    BY <1>11 DEF ReadPoll
  <2>5. Fresh(1)' /\ Fresh(2)'
    BY <1>1, <2>1 DEF Fresh
  <2>6. f = 1 => offset[2] = size[2]
    BY <1>3, <2>4 DEF Round
  <2>7. f = 2 => offset[1] = Greater(size[1], stSize[1])
    BY <1>3, <2>4 DEF Round
  <2> QED
    BY <1>1, <1>4, <1>5, <2>1, <2>2, <2>3, <2>4, <2>5, <2>6, <2>7 DEF Round
<1>12. CASE Update
  <2>1. Fresh(1) /\ Fresh(2) /\ offset[1] = Greater(size[1], stSize[1])
        /\ offset[2] = Greater(size[2], stSize[2])
    BY <1>3, <1>12 DEF Update, Round
  <2>2. /\ pc' = "sleep" /\ size' = stSize /\ fmode' = stMode
        /\ \A f \in Files : offset'[f] = IF stSize[f] < size[f] THEN stSize[f] ELSE offset[f]
    BY <1>12 DEF Update
  <2>3. offset'[1] = stSize[1] /\ offset'[2] = stSize[2]
    BY <1>5, <1>6, <2>1, <2>2 DEF Greater
  <2> QED
    BY <1>1, <1>4, <1>5, <2>1, <2>2, <2>3 DEF Round, Fresh, Known
<1> QED
  BY <1>7, <1>8, <1>9, <1>10, <1>11, <1>12 DEF Program

(* No line was told at the start. *)
LEMMA InitShown == Init => Shown
BY DEF Init, Shown, First

(* A writer tells no line. *)
LEMMA WriterShown ==
    ASSUME Types, Numbered, Round, Shown, Writer
    PROVE  Shown'
<1>1. PICK g \in Files : AppendLine(g) \/ Truncate(g) \/ Chmod(g) \/ RemoveFile(g)
  BY DEF Writer
<1>2. \E what : MayWrite(g, what)
  BY <1>1 DEF AppendLine, Truncate, Chmod, RemoveFile
<1>3. UNCHANGED <<writer, pc, offset, compared, base, out>>
  BY <1>2 DEF MayWrite, info
<1>4. ASSUME writer.calm, pc \notin First, NEW f \in Files
      PROVE  Told(out[f], cont'[f], compared[f], offset[f])
  <2>1. /\ cont[f] \in Seq(Nat) /\ offset[f] \in Nat /\ Len(cont[f]) \in Nat
        /\ Told(out[f], cont[f], compared[f], offset[f])
    BY <1>4, LenProperties DEF Types, Shown
  <2>2. CASE AppendLine(g) /\ f = g
    <3> DEFINE l == Initial + writes[f] + 1
    <3>1. cont'[f] = Append(cont[f], l)
      BY <2>2 DEF AppendLine, Types
    <3>2. l \in Nat /\ Initial + writes[f] \in Nat /\ ~(l <= Initial + writes[f])
      BY SMTT(30), FileWatchAssumption DEF Types
    <3>3. offset[f] = Len(cont[f])
      BY <1>2, <1>4, <2>2 DEF MayWrite, Round, Known
    <3> HIDE DEF l
    <3>4. l \notin compared[f]
      BY <3>2 DEF Numbered
    <3>5. Never(out[f], l)
      <4>1. ASSUME NEW i \in 1..Len(out[f]), out[f][i] = <<"line", l>>
            PROVE  FALSE
        <5>1. out[f][i][1] = "line" /\ out[f][i][2] = l
          BY <4>1
        <5> QED
          BY <3>2, <5>1 DEF Numbered, LinesIn
      <4> QED
        BY <4>1 DEF Never
    <3> QED
      BY <2>1, <3>1, <3>2, <3>3, <3>4, <3>5, ToldAppended
  <2>3. CASE Truncate(g) /\ f = g
    <3>1. PICK k \in 0..(Len(cont[f]) - 1) : cont'[f] = SubSeq(cont[f], 1, k)
      BY <2>3 DEF Truncate, Types
    <3> QED
      BY <2>1, <3>1, ToldTruncated
  <2>4. CASE cont'[f] = cont[f]
    BY <2>1, <2>4
  <2> QED
    BY <1>1, <2>2, <2>3, <2>4 DEF AppendLine, Truncate, Chmod, RemoveFile, Types
<1> QED
  BY <1>3, <1>4 DEF Shown

(* The program tells each line once. *)
LEMMA ProgramShown ==
    ASSUME Types, Numbered, Round, Shown, Program
    PROVE  Shown'
<1>1. UNCHANGED <<writer, cont>>
  BY DEF Program, StatFirst, Compare, Wake, StatPoll, ReadPoll, Update, disk
<1>2. SUFFICES ASSUME writer.calm, pc' \notin First, NEW f \in Files
               PROVE  Told(out'[f], cont[f], compared'[f], offset'[f])
  BY <1>1 DEF Shown
<1>3. /\ size[f] \in Nat /\ stSize[f] \in Nat /\ offset[f] \in Nat /\ cont[f] \in Seq(Nat)
      /\ out[f] \in Seq(Entry) /\ Len(cont[f]) \in Nat /\ Rising(cont[f])
  BY LenProperties DEF Types, Numbered
<1>4. CASE pc \in First /\ ~Compare
  <2>1. /\ UNCHANGED <<out, compared, base, offset>>
        /\ out[f] = <<>> /\ compared[f] = {} /\ offset[f] = 0
    BY <1>4 DEF Program, StatFirst, Wake, StatPoll, ReadPoll, Update, First, Files, info,
                Numbered
  <2>2. Never(<<>>, 0) /\ \A l : Never(<<>>, l)
    BY DEF Never
  <2>3. \A k \in 1..Len(cont[f]) : ~(k <= 0)
    BY <1>3
  <2> QED
    BY <2>1, <2>2, <2>3 DEF Told
<1>5. CASE Compare
  <2>1. compared'[f] = ToSet(cont[f]) /\ offset'[f] = Len(cont[f])
    BY <1>2, <1>5 DEF Compare, Round, Fresh, Files
  <2>2. \A k \in 1..Len(cont[f]) : cont[f][k] \in ToSet(cont[f]) /\ ~(k > Len(cont[f]))
    <3>1. DOMAIN cont[f] = 1..Len(cont[f])
      BY <1>3, LenProperties
    <3> QED
      BY SMTT(30), <1>3, <3>1 DEF ToSet
  <2> QED
    BY <2>1, <2>2 DEF Told
<1>6. CASE pc \notin First
  <2>0. /\ Told(out[f], cont[f], compared[f], offset[f])
        /\ compared' = compared /\ ~Compare
    BY <1>2, <1>6 DEF Shown, Program, StatFirst, Compare, Wake, StatPoll, ReadPoll, Update, First
  <2>1. CASE out'[f] = out[f] /\ offset'[f] = offset[f]
    BY <2>0, <2>1
  <2>2. CASE /\ \E t \in Seq(Entry) : Silent(t) /\ out'[f] = out[f] \o t
             /\ offset'[f] = offset[f]
    BY <1>3, <2>0, <2>2, ToldSilent
  <2>3. CASE Update
    <3>1. Told(out'[f], cont[f], compared[f], offset[f])
      BY <1>3, <2>0, <2>3, ReportIs, ToldSilent DEF Update
    <3>2. stSize[f] = Len(cont[f]) /\ offset[f] = Greater(size[f], stSize[f])
      BY <1>2, <2>3 DEF Update, Round, Fresh, Files
    <3>3. offset'[f] = Len(cont[f]) /\ Len(cont[f]) <= offset[f]
      BY <1>3, <2>3, <3>2 DEF Update, Greater
    <3>4. \A k \in 1..Len(cont[f]) : k <= offset[f] /\ ~(k > Len(cont[f]))
      BY <1>3, <3>3
    <3> QED
      BY <2>0, <3>1, <3>3, <3>4 DEF Told
  <2>4. CASE /\ out'[f] = Read(out[f], cont[f], offset[f])
             /\ offset'[f] = Greater(offset[f], Len(cont[f]))
             /\ pc = (IF f = 1 THEN "read1" ELSE "read2") /\ stSize[f] > size[f]
    <3>1. stSize[f] = Len(cont[f]) /\ offset[f] = size[f]
      BY <1>2, <2>4 DEF Round, Fresh, Files
    <3>2. offset[f] <= Len(cont[f]) /\ offset'[f] = Len(cont[f])
      BY <1>3, <2>4, <3>1 DEF Greater
    <3> QED
      BY <1>3, <2>0, <2>4, <3>2, ToldRead
  <2>5. \/ /\ \/ out'[f] = out[f]
              \/ \E t \in Seq(Entry) : Silent(t) /\ out'[f] = out[f] \o t
           /\ Compare \/ Update \/ offset'[f] = offset[f]
        \/ /\ out'[f] = Read(out[f], cont[f], offset[f])
           /\ offset'[f] = Greater(offset[f], Len(cont[f]))
           /\ pc = (IF f = 1 THEN "read1" ELSE "read2") /\ stSize[f] > size[f]
    BY OutChanges
  <2> QED
    BY <2>0, <2>1, <2>2, <2>3, <2>4, <2>5
<1> QED
  BY <1>4, <1>5, <1>6

-----------------------------------------------------------------------------
(* The invariant and the properties *)

(* Every step keeps the invariant. *)
LEMMA WatchInvStep == WatchInv /\ [Next]_vars => WatchInv'
<1>1. ASSUME WatchInv, Program
      PROVE  WatchInv'
  BY <1>1, ProgramTypes, ProgramNumbered, ProgramGrown, ProgramRound, ProgramShown DEF WatchInv
<1>2. ASSUME WatchInv, Writer
      PROVE  WatchInv'
  BY <1>2, WriterTypes, WriterNumbered, WriterGrown, WriterRound, WriterShown DEF WatchInv
<1>3. ASSUME WatchInv, UNCHANGED vars
      PROVE  WatchInv'
  <2>1. /\ UNCHANGED <<writer, cont, mode, exists, writes, acted, pc, stSize, stMode>>
        /\ UNCHANGED <<size, fmode, offset, compared, base, out>>
    BY <1>3 DEF vars, disk, st, info
  <2>2. Types' /\ Numbered' /\ Grown'
    BY <1>3, <2>1 DEF WatchInv, Types, Numbered, Grown
  <2>3. Round' /\ Shown'
    BY <1>3, <2>1 DEF WatchInv, Round, Fresh, Known, Shown
  <2> QED
    BY <2>2, <2>3 DEF WatchInv
<1> QED
  BY <1>1, <1>2, <1>3 DEF Next

(* The invariant of the file watcher. *)
LEMMA WatchInvariant == Spec => []WatchInv
<1>1. Init => WatchInv
  BY InitTypes, InitNumbered, InitGrown, InitRound, InitShown DEF WatchInv
<1> QED
  BY <1>1, WatchInvStep, PTL DEF Spec

(* The places of what was printed that are lines. *)
LEMMA OutPlaces ==
    ASSUME Types, NEW f \in Files
    PROVE  DOMAIN out[f] = 1..Len(out[f]) /\ Printed(f) = LinesIn(out[f])
<1>1. out[f] \in Seq(Entry)
  BY DEF Types
<1>2. DOMAIN out[f] = 1..Len(out[f])
  BY <1>1, LenProperties
<1> QED
  BY <1>2 DEF Printed, LinesIn

(* While the files only grow, however the writers interleave with stat and   *)
(* read_new, every line behind those compared is printed once, in order.     *)
THEOREM GrowthPrintedOnce == Spec => []PrintedOnce
<1>1. ASSUME WatchInv, "truncate" \notin writer.does, NEW f \in Files
      PROVE  /\ base[f] <= offset[f] /\ offset[f] <= Len(cont[f])
             /\ \A i, j \in Printed(f) : i < j => out[f][i][2] < out[f][j][2]
             /\ \A k \in 1..base[f] : cont[f][k] \in compared[f]
             /\ {out[f][i][2] : i \in Printed(f)}
                   = {cont[f][k] : k \in (base[f] + 1)..offset[f]}
  <2>1. Printed(f) = LinesIn(out[f])
    BY <1>1, OutPlaces DEF WatchInv
  <2>2. Account(out[f], cont[f], compared[f], base[f], offset[f])
    BY <1>1 DEF WatchInv, Grown
  <2>3. base[f] <= offset[f]
    BY <1>1, <2>2 DEF Account, WatchInv, Types
  <2> QED
    BY <2>1, <2>2, <2>3 DEF Account
<1>2. ASSUME WatchInv
      PROVE  PrintedOnce
  BY <1>1, <1>2 DEF PrintedOnce
<1> QED
  BY <1>2, WatchInvariant, PTL

(* With calm writers, a line that is in a file before the program sleeps was *)
(* compared or printed exactly once, across truncations.                     *)
THEOREM CalmLinesShown == Spec => []LinesShown
<1>1. ASSUME WatchInv, writer.calm, pc = "sleep", NEW f \in Files, ~acted[f],
             NEW k \in DOMAIN cont[f], cont[f][k] \notin compared[f]
      PROVE  Times(f, cont[f][k]) = 1
  <2>1. cont[f] \in Seq(Nat) /\ Types
    BY <1>1 DEF WatchInv, Types
  <2>2. k \in 1..Len(cont[f]) /\ Len(cont[f]) \in Nat
    BY <1>1, <2>1, LenProperties
  <2>3. offset[f] = Len(cont[f])
    BY <1>1 DEF WatchInv, Round, Known
  <2>4. Once(out[f], cont[f][k])
    BY <1>1, <2>2, <2>3 DEF WatchInv, Shown, Told, First
  <2>5. DOMAIN out[f] = 1..Len(out[f])
    BY <2>1, OutPlaces
  <2> DEFINE s == {i \in DOMAIN out[f] : out[f][i] = <<"line", cont[f][k]>>}
  <2>6. PICK i : s = {i}
    BY <2>4, <2>5 DEF Once
  <2>7. Cardinality(s) = 1
    BY <2>6, FS_Singleton
  <2> QED
    BY <2>7 DEF Times
<1>2. ASSUME WatchInv
      PROVE  LinesShown
  BY <1>1, <1>2 DEF LinesShown
<1> QED
  BY <1>2, WatchInvariant, PTL

(* With calm writers, the program knows size and mode of each file when it   *)
(* goes to sleep, and has read the file to its end.                          *)
THEOREM CalmSettled == Spec => []Settled
<1>1. WatchInv => Settled
  BY DEF WatchInv, Round, Known, Settled
<1> QED
  BY <1>1, WatchInvariant, PTL
=============================================================================
