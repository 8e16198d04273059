---------------------------- MODULE StreamProofs ----------------------------
(* Proofs about the two components that pass messages through byte streams,  *)
(* which share nothing but the lemmas on sequences they rest on:             *)
(*   part 1, LineProtocol, for lines and buffers of any size and any number  *)
(*   of lines;                                                               *)
(*   part 2, StageChain, for any number of items, any of them kept, pipes of *)
(*   any capacity and any number of failed calls and killed processes.       *)
EXTENDS LineProtocol, StageChain, SequenceTheorems, FiniteSetTheorems, TLAPS

-----------------------------------------------------------------------------
(* PART 1: LINE PROTOCOL *)

-----------------------------------------------------------------------------
(* The invariant *)

Chunk == Nat \X Nat

Types ==
    /\ pcClient \in {"role", "fgets", "ok", "closed"} /\ sent \in 0..MaxLines
    /\ wire \in Seq(Seq(Chunk)) /\ inbox \in Seq(Chunk)
    /\ pcServer \in {"role", "read", "produce", "ack", "exited"}
    /\ line \in Seq(Chunk) /\ produced \in Seq(Seq(Chunk))
    /\ answers \in Seq({"O", "K", "newline"})

(* Chunk k of line a and what follows it up to the end of line m, which is   *)
(* a, the line behind it, or the one before it: then there is nothing.       *)
Size(a, k, m) ==
    IF m < a THEN 0 ELSE IF m = a THEN LineChunks - k + 1 ELSE 2 * LineChunks - k + 1
Text(a, k, m) ==
    [i \in 1..Size(a, k, m) |-> IF i <= LineChunks - k + 1 THEN <<a, k + i - 1>>
                                ELSE <<a + 1, i - (LineChunks - k + 1)>>]
Span(a, k, m) ==
    /\ a \in Nat \ {0} /\ k \in 1..LineChunks
    /\ m \in {a - 1, a, a + 1} /\ (m = a - 1 => k = 1)

(* Lines m + 1 to n, each in a write of its own. *)
Lines(m, n) == [i \in 1..(n - m) |-> LineText(m + i)]

(* The client wrote n lines.  Those up to m are in the inbox i or were read, *)
(* and the server has read everything in front of chunk k of line a.         *)
Situation(a, k, m, client, n, w, i, server) ==
    /\ Span(a, k, m) /\ m <= n /\ a <= n + 1
    /\ client = "role" => server = "role" /\ n = 0
    /\ server # "role" => i = Text(a, k, m) /\ w = Lines(m, n)
    /\ server = "role" =>
         /\ a = 1 /\ k = 1
         /\ \/ client = "role" /\ m = 0 /\ i = <<>> /\ w = <<>>
            \/ client # "role" /\ m = 0 /\ i = <<>> /\ w = <<<<Role>>>> \o Lines(0, n)
            \/ client # "role" /\ i = <<Role>> \o Text(1, 1, m) /\ w = Lines(m, n)

(* At most two lines and acknowledgements together are under way: one that   *)
(* is not read to its end, one the server works on, one answer the client    *)
(* has not read, one that it may write.                                      *)
Acks(n) == IF n = 0 THEN 0 ELSE IF n <= 3 THEN 1 ELSE IF n <= 6 THEN 2 ELSE 3
Credit(a, client, n, l, server) ==
    (IF client \in {"role", "fgets"} THEN 1 ELSE 0) + Acks(l)
    + (IF server \in {"produce", "ack"} THEN 1 ELSE 0) + (n - a + 1)

(* The items, with the one that is about to be put in the buffer.            *)
AllItems == IF pcServer = "produce" THEN Append(produced, Item(line)) ELSE produced
LineEnds(a, q) ==
    /\ \A i \in 1..Len(q) :
         \E n \in 1..(a - 1) : \E k \in 1..LineChunks : q[i] = Text(n, k, n)
    /\ \A i, j \in 1..Len(q) : i < j => q[i][1][1] < q[j][1][1]

(* Of the lines that were read to their end all but x are in an item; to     *)
(* have lost one leaves one line or acknowledgement under way.               *)
Loses(x, a, q, credit) ==
    /\ x # 0 => credit <= 1
    /\ \A n \in 1..(a - 1) : n = x \/ \E i \in 1..Len(q) : q[i][1][1] = n

Account(a, n, q, credit) ==
    /\ credit <= 2 /\ LineEnds(a, q)
    /\ RoleRoom < LineChunks => \E x \in 0..n : Loses(x, a, q, credit)

Protocol ==
    \E a \in 1..(sent + 1), k \in 1..LineChunks, m \in 0..sent :
        /\ Situation(a, k, m, pcClient, sent, wire, inbox, pcServer)
        /\ Account(a, sent, AllItems, Credit(a, pcClient, sent, Len(answers), pcServer))

LineInv == Types /\ Protocol

-----------------------------------------------------------------------------
(* Texts and lines *)

(* The chunks of a text, one by one. *)
LEMMA TextFacts ==
    ASSUME NEW a, NEW k, NEW m, Span(a, k, m)
    PROVE  /\ Text(a, k, m) \in Seq(Chunk)
           /\ Len(Text(a, k, m)) = Size(a, k, m) /\ Size(a, k, m) \in Nat
           /\ \A i \in 1..Size(a, k, m) :
                 Text(a, k, m)[i] = IF i <= LineChunks - k + 1 THEN <<a, k + i - 1>>
                                    ELSE <<a + 1, i - (LineChunks - k + 1)>>
<1> DEFINE chunk(i) == IF i <= LineChunks - k + 1 THEN <<a, k + i - 1>>
                       ELSE <<a + 1, i - (LineChunks - k + 1)>>
<1>1. Size(a, k, m) \in Nat
  BY LineProtocolAssumption DEF Span, Size
<1>2. \A i \in 1..Size(a, k, m) : chunk(i) \in Chunk
  BY LineProtocolAssumption DEF Span, Size, Chunk
<1>3. Text(a, k, m) = [i \in 1..Size(a, k, m) |-> chunk(i)]
  BY DEF Text
<1> HIDE DEF chunk
<1>4. /\ Text(a, k, m) \in Seq(Chunk) /\ Len(Text(a, k, m)) = Size(a, k, m)
      /\ \A i \in 1..Size(a, k, m) : Text(a, k, m)[i] = chunk(i)
  BY <1>1, <1>2, <1>3
<1> QED
  BY <1>1, <1>4 DEF chunk

(* The chunks of a line. *)
LEMMA LineFacts ==
    ASSUME NEW n \in Nat
    PROVE  /\ LineText(n) \in Seq(Chunk) /\ Len(LineText(n)) = LineChunks
           /\ \A i \in 1..LineChunks : LineText(n)[i] = <<n, i>>
BY LineProtocolAssumption DEF LineText, Chunk

(* Two sequences of one length with the same elements are equal.             *)
LEMMA SameSeq ==
    ASSUME NEW S, NEW s \in Seq(S), NEW t \in Seq(S), Len(s) = Len(t),
           \A i \in 1..Len(s) : s[i] = t[i]
    PROVE  s = t
BY SeqEqual

(* Two sequences one behind the other, with all facts of the library about   *)
(* them.                                                                     *)
LEMMA Concat ==
    ASSUME NEW S, NEW s \in Seq(S), NEW t \in Seq(S)
    PROVE  /\ s \o t \in Seq(S) /\ Len(s \o t) = Len(s) + Len(t)
           /\ Len(s) \in Nat /\ Len(t) \in Nat
           /\ \A i \in 1..(Len(s) + Len(t)) :
                 (s \o t)[i] = IF i <= Len(s) THEN s[i] ELSE t[i - Len(s)]
BY ConcatProperties, LenProperties

(* What a read of n takes and leaves.                                        *)
LEMMA Split ==
    ASSUME NEW S, NEW s \in Seq(S), NEW n \in 0..Len(s)
    PROVE  /\ Start(s, n) \in Seq(S) /\ Rest(s, n) \in Seq(S)
           /\ Len(Start(s, n)) = n /\ Len(Rest(s, n)) = Len(s) - n
           /\ \A i \in 1..n : Start(s, n)[i] = s[i]
           /\ \A i \in 1..(Len(s) - n) : Rest(s, n)[i] = s[n + i]
<1>1. Len(s) \in Nat /\ \A i \in 1..Len(s) : s[i] \in S
  BY LenProperties, ElementOfSeq
<1>2. /\ Rest(s, n) \in Seq(S)
      /\ Len(Rest(s, n)) = IF n + 1 <= Len(s) THEN Len(s) - (n + 1) + 1 ELSE 0
      /\ \A i \in 1..(Len(s) - (n + 1) + 1) : Rest(s, n)[i] = s[(n + 1) + i - 1]
  <2>1. \A i \in (n + 1)..Len(s) : s[i] \in S
    BY <1>1
  <2>2. n + 1 \in Int /\ Len(s) \in Int
    BY <1>1
  <2> QED
    BY <2>1, <2>2, SubSeqProperties DEF Rest
<1>3. /\ Start(s, n) \in Seq(S) /\ Len(Start(s, n)) = IF 1 <= n THEN n - 1 + 1 ELSE 0
      /\ \A i \in 1..(n - 1 + 1) : Start(s, n)[i] = s[1 + i - 1]
  <2>1. \A i \in 1..n : s[i] \in S
    BY <1>1
  <2> QED
    BY <1>1, <2>1, SubSeqProperties DEF Start
<1>4. \A i \in 1..(Len(s) - n) : (n + 1) + i - 1 = n + i /\ i \in 1..(Len(s) - (n + 1) + 1)
  BY <1>1
<1>5. \A i \in 1..n : 1 + i - 1 = i /\ i \in 1..(n - 1 + 1)
  BY <1>1
<1>6. Len(Rest(s, n)) = Len(s) - n /\ Len(Start(s, n)) = n
  BY <1>1, <1>2, <1>3
<1> QED
  BY <1>2, <1>3, <1>4, <1>5, <1>6

(* The end of a line is SubSeq of it, as ItemsInOrder has it.                *)
LEMMA TextOne ==
    ASSUME NEW n \in Nat \ {0}, NEW k \in 1..LineChunks
    PROVE  Text(n, k, n) = SubSeq(LineText(n), k, LineChunks)
<1>1. Span(n, k, n)
  BY DEF Span
<1>2. /\ LineText(n) \in Seq(Chunk) /\ Len(LineText(n)) = LineChunks
      /\ \A i \in 1..LineChunks : LineText(n)[i] = <<n, i>>
  BY LineFacts
<1>3. k - 1 \in 0..LineChunks /\ k - 1 \in 0..Len(LineText(n)) /\ (k - 1) + 1 = k
  BY <1>2, LineProtocolAssumption
<1>4. /\ Rest(LineText(n), k - 1) \in Seq(Chunk)
      /\ Len(Rest(LineText(n), k - 1)) = LineChunks - (k - 1)
      /\ \A i \in 1..(LineChunks - (k - 1)) :
            Rest(LineText(n), k - 1)[i] = LineText(n)[(k - 1) + i]
  <2> DEFINE s == LineText(n)
             j == k - 1
  <2>1. s \in Seq(Chunk) /\ j \in 0..Len(s) /\ Len(s) = LineChunks
    BY <1>2, <1>3
  <2> HIDE DEF s, j
  <2>2. /\ Rest(s, j) \in Seq(Chunk) /\ Len(Rest(s, j)) = Len(s) - j
        /\ \A i \in 1..(Len(s) - j) : Rest(s, j)[i] = s[j + i]
    BY <2>1, Split
  <2> QED
    BY <2>1, <2>2 DEF s, j
<1>5. Rest(LineText(n), k - 1) = SubSeq(LineText(n), k, LineChunks)
  BY <1>2, <1>3 DEF Rest
<1>6. /\ Text(n, k, n) \in Seq(Chunk) /\ Len(Text(n, k, n)) = LineChunks - k + 1
      /\ \A i \in 1..(LineChunks - k + 1) : Text(n, k, n)[i] = <<n, k + i - 1>>
  <2>1. Size(n, k, n) = LineChunks - k + 1
    BY DEF Size
  <2>2. /\ Text(n, k, n) \in Seq(Chunk) /\ Len(Text(n, k, n)) = Size(n, k, n)
        /\ \A i \in 1..Size(n, k, n) :
              Text(n, k, n)[i] = IF i <= LineChunks - k + 1 THEN <<n, k + i - 1>>
                                 ELSE <<n + 1, i - (LineChunks - k + 1)>>
    BY <1>1, TextFacts
  <2>3. \A i \in 1..(LineChunks - k + 1) : i <= LineChunks - k + 1
    BY LineProtocolAssumption
  <2> QED
    BY <2>1, <2>2, <2>3
<1>7. \A i \in 1..(LineChunks - k + 1) :
         /\ i \in 1..(LineChunks - (k - 1)) /\ (k - 1) + i \in 1..LineChunks
         /\ (k - 1) + i = k + i - 1
  BY LineProtocolAssumption
<1>8. LineChunks - (k - 1) = LineChunks - k + 1
  BY LineProtocolAssumption
<1>9. \A i \in 1..(LineChunks - k + 1) : Text(n, k, n)[i] = Rest(LineText(n), k - 1)[i]
  BY <1>2, <1>4, <1>6, <1>7
<1> QED
  BY <1>4, <1>5, <1>6, <1>8, <1>9, SameSeq

(* A line that arrives. *)
LEMMA TextGrows ==
    ASSUME NEW a, NEW k, NEW m, Span(a, k, m), m # a + 1
    PROVE  Span(a, k, m + 1) /\ Text(a, k, m) \o LineText(m + 1) = Text(a, k, m + 1)
<1> DEFINE s == Text(a, k, m)
           t == LineText(m + 1)
           u == Text(a, k, m + 1)
<1>1. Span(a, k, m + 1) /\ m + 1 \in Nat
  BY DEF Span
<1>2. /\ s \in Seq(Chunk) /\ Len(s) = Size(a, k, m)
      /\ \A i \in 1..Size(a, k, m) : s[i] = IF i <= LineChunks - k + 1 THEN <<a, k + i - 1>>
                                           ELSE <<a + 1, i - (LineChunks - k + 1)>>
  BY TextFacts
<1>3. /\ u \in Seq(Chunk) /\ Len(u) = Size(a, k, m + 1)
      /\ \A i \in 1..Size(a, k, m + 1) :
           u[i] = IF i <= LineChunks - k + 1 THEN <<a, k + i - 1>>
                  ELSE <<a + 1, i - (LineChunks - k + 1)>>
  BY <1>1, TextFacts
<1>4. t \in Seq(Chunk) /\ Len(t) = LineChunks /\ \A i \in 1..LineChunks : t[i] = <<m + 1, i>>
  BY <1>1, LineFacts
<1> HIDE DEF s, t, u
<1>5. /\ s \o t \in Seq(Chunk) /\ Len(s \o t) = Len(s) + Len(t)
      /\ \A i \in 1..(Len(s) + Len(t)) :
            (s \o t)[i] = IF i <= Len(s) THEN s[i] ELSE t[i - Len(s)]
  BY <1>2, <1>4, Concat
<1>6. Size(a, k, m) + LineChunks = Size(a, k, m + 1)
  BY LineProtocolAssumption DEF Span, Size
<1>7. \A i \in 1..Size(a, k, m + 1) :
         /\ i \in 1..Size(a, k, m) \/ i - Size(a, k, m) \in 1..LineChunks
         /\ i \in 1..Size(a, k, m) <=> i <= Size(a, k, m)
  BY <1>6, LineProtocolAssumption DEF Span, Size
<1>8. \A i \in 1..Size(a, k, m + 1) : ~(i <= Size(a, k, m)) =>
         <<m + 1, i - Size(a, k, m)>> = IF i <= LineChunks - k + 1 THEN <<a, k + i - 1>>
                                        ELSE <<a + 1, i - (LineChunks - k + 1)>>
  BY LineProtocolAssumption DEF Span, Size
<1>9. Size(a, k, m) \in Nat /\ Size(a, k, m + 1) \in Nat
  BY <1>1, TextFacts
<1>10. \A i \in 1..Size(a, k, m + 1) : (s \o t)[i] = u[i]
  <2> SUFFICES ASSUME NEW i \in 1..Size(a, k, m + 1)
               PROVE  (s \o t)[i] = u[i]
    OBVIOUS
  <2>1. CASE i <= Size(a, k, m)
    BY <1>2, <1>3, <1>4, <1>5, <1>6, <1>7, <2>1
  <2>2. CASE ~(i <= Size(a, k, m))
    <3>1. (s \o t)[i] = t[i - Size(a, k, m)]
      BY <1>2, <1>4, <1>5, <1>6, <1>9, <2>2
    <3>2. i - Size(a, k, m) \in 1..LineChunks
      BY <1>6, <1>9, <2>2, LineProtocolAssumption
    <3> QED
      BY <1>3, <1>4, <1>8, <2>2, <3>1, <3>2
  <2> QED
    BY <2>1, <2>2
<1>11. s \o t = u
  BY <1>2, <1>3, <1>4, <1>5, <1>6, <1>10, SameSeq
<1> QED
  BY <1>1, <1>11 DEF s, t, u

(* A read of n chunks ends in line a, at the end of line m, or in the line   *)
(* behind a.                                                                 *)
LEMMA TextRest ==
    ASSUME NEW a, NEW k, NEW m, Span(a, k, m), NEW n \in 1..Size(a, k, m)
    PROVE  \E b \in a..(m + 1), l \in 1..LineChunks :
              /\ Span(b, l, m) /\ Rest(Text(a, k, m), n) = Text(b, l, m)
              /\ b = a <=> n <= LineChunks - k
<1> DEFINE s == Text(a, k, m)
           r == Rest(s, n)
<1>1. /\ a \in Nat /\ a # 0 /\ k \in 1..LineChunks /\ m \in Nat /\ LineChunks \in Nat
      /\ m = a \/ m = a + 1
      /\ m = a => Size(a, k, m) = LineChunks - k + 1
      /\ m = a + 1 => Size(a, k, m) = 2 * LineChunks - k + 1
      /\ Size(a, k, m) \in Nat /\ n \in 1..Size(a, k, m)
  BY LineProtocolAssumption DEF Span, Size
<1>2. /\ s \in Seq(Chunk) /\ Len(s) = Size(a, k, m)
      /\ \A i \in 1..Size(a, k, m) : s[i] = IF i <= LineChunks - k + 1 THEN <<a, k + i - 1>>
                                           ELSE <<a + 1, i - (LineChunks - k + 1)>>
  BY TextFacts
<1> HIDE DEF s
<1>3. n \in 0..Len(s)
  BY <1>1, <1>2
<1>4. /\ r \in Seq(Chunk) /\ Len(r) = Size(a, k, m) - n
      /\ \A i \in 1..(Size(a, k, m) - n) : r[i] = s[n + i]
  BY <1>2, <1>3, Split
<1> HIDE DEF r
<1>5. ASSUME NEW b \in a..(m + 1), NEW l \in 1..LineChunks, Span(b, l, m),
             Size(b, l, m) = Size(a, k, m) - n,
             \A i \in 1..(Size(a, k, m) - n) :
                (IF n + i <= LineChunks - k + 1 THEN <<a, k + (n + i) - 1>>
                 ELSE <<a + 1, (n + i) - (LineChunks - k + 1)>>)
                = (IF i <= LineChunks - l + 1 THEN <<b, l + i - 1>>
                   ELSE <<b + 1, i - (LineChunks - l + 1)>>)
      PROVE  r = Text(b, l, m)
  <2>1. /\ Text(b, l, m) \in Seq(Chunk) /\ Len(Text(b, l, m)) = Size(b, l, m)
        /\ \A i \in 1..Size(b, l, m) :
             Text(b, l, m)[i] = IF i <= LineChunks - l + 1 THEN <<b, l + i - 1>>
                                ELSE <<b + 1, i - (LineChunks - l + 1)>>
    BY ZenonT(60), <1>5, TextFacts
  <2>2. \A i \in 1..(Size(a, k, m) - n) : n + i \in 1..Size(a, k, m)
    BY <1>1
  <2>3. \A i \in 1..(Size(a, k, m) - n) : r[i] = Text(b, l, m)[i]
    BY ZenonT(60), <1>2, <1>4, <1>5, <2>1, <2>2
  <2> QED
    BY <1>4, <1>5, <2>1, <2>3, SameSeq
<1>6. CASE n <= LineChunks - k
  <2>1. /\ a \in a..(m + 1) /\ k + n \in 1..LineChunks /\ Span(a, k + n, m)
        /\ Size(a, k + n, m) = Size(a, k, m) - n
    BY <1>1, <1>6 DEF Span, Size
  <2>2. \A i \in 1..(Size(a, k, m) - n) :
           /\ n + i <= LineChunks - k + 1 <=> i <= LineChunks - (k + n) + 1
           /\ k + (n + i) - 1 = (k + n) + i - 1
           /\ (n + i) - (LineChunks - k + 1) = i - (LineChunks - (k + n) + 1)
    BY <1>1, <1>6
  <2>3. r = Text(a, k + n, m)
    BY <1>5, <2>1, <2>2
  <2> QED
    BY <1>6, <2>1, <2>3 DEF r, s
<1>7. CASE ~(n <= LineChunks - k) /\ n = Size(a, k, m)
  <2>1. /\ m + 1 \in a..(m + 1) /\ 1 \in 1..LineChunks /\ Span(m + 1, 1, m)
        /\ Size(m + 1, 1, m) = Size(a, k, m) - n /\ m + 1 # a
    BY <1>1, <1>7, LineProtocolAssumption DEF Span, Size
  <2>2. \A i \in 1..(Size(a, k, m) - n) : FALSE
    BY <1>1, <1>7
  <2>3. r = Text(m + 1, 1, m)
    BY <1>5, <2>1, <2>2
  <2> QED
    BY <1>7, <2>1, <2>3 DEF r, s
<1>8. CASE ~(n <= LineChunks - k) /\ n # Size(a, k, m)
  <2> DEFINE l == n - (LineChunks - k + 1) + 1
  <2>1. /\ m = a + 1 /\ a + 1 \in a..(m + 1) /\ l \in 1..LineChunks /\ Span(a + 1, l, m)
        /\ Size(a + 1, l, m) = Size(a, k, m) - n /\ a + 1 # a
    BY <1>1, <1>8 DEF Span, Size
  <2>2. \A i \in 1..(Size(a, k, m) - n) :
           /\ ~(n + i <= LineChunks - k + 1) /\ i <= LineChunks - l + 1
           /\ (n + i) - (LineChunks - k + 1) = l + i - 1
    BY <1>1, <1>8
  <2>3. r = Text(a + 1, l, m)
    BY <1>5, <2>1, <2>2
  <2> QED
    BY <1>8, <2>1, <2>3 DEF r, s
<1> QED
  BY <1>6, <1>7, <1>8

(* The role in front of a text. *)
LEMMA RoleRest ==
    ASSUME NEW t \in Seq(Chunk), NEW n \in 0..Len(t)
    PROVE  /\ <<Role>> \o t \in Seq(Chunk) /\ Len(<<Role>> \o t) = 1 + Len(t)
           /\ Len(t) \in Nat
           /\ Rest(<<Role>> \o t, 1 + n) = Rest(t, n)
<1> DEFINE u == <<Role>> \o t
<1>1. <<Role>> \in Seq(Chunk) /\ Len(<<Role>>) = 1
  BY DEF Role, Chunk
<1>2. /\ u \in Seq(Chunk) /\ Len(u) = 1 + Len(t) /\ Len(t) \in Nat
      /\ \A i \in 1..(1 + Len(t)) : u[i] = IF i <= 1 THEN <<Role>>[i] ELSE t[i - 1]
  BY <1>1, Concat
<1> HIDE DEF u
<1>3. 1 + n \in 0..Len(u) /\ Len(u) - (1 + n) = Len(t) - n
  BY <1>2
<1>4. /\ Rest(u, 1 + n) \in Seq(Chunk) /\ Len(Rest(u, 1 + n)) = Len(t) - n
      /\ \A i \in 1..(Len(t) - n) : Rest(u, 1 + n)[i] = u[(1 + n) + i]
  <2>1. u \in Seq(Chunk) /\ 1 + n \in 0..Len(u)
    BY <1>2, <1>3
  <2>2. /\ Rest(u, 1 + n) \in Seq(Chunk) /\ Len(Rest(u, 1 + n)) = Len(u) - (1 + n)
        /\ \A i \in 1..(Len(u) - (1 + n)) : Rest(u, 1 + n)[i] = u[(1 + n) + i]
    BY <2>1, Split
  <2> QED
    BY <1>3, <2>2
<1>5. /\ Rest(t, n) \in Seq(Chunk) /\ Len(Rest(t, n)) = Len(t) - n
      /\ \A i \in 1..(Len(t) - n) : Rest(t, n)[i] = t[n + i]
  BY Split
<1>6. \A i \in 1..(Len(t) - n) :
         /\ (1 + n) + i \in 1..(1 + Len(t)) /\ ~((1 + n) + i <= 1)
         /\ ((1 + n) + i) - 1 = n + i
  BY <1>2
<1>7. \A i \in 1..(Len(t) - n) : Rest(u, 1 + n)[i] = Rest(t, n)[i]
  BY <1>2, <1>4, <1>5, <1>6
<1>8. Rest(u, 1 + n) = Rest(t, n)
  BY <1>4, <1>5, <1>7, SameSeq
<1> QED
  BY <1>2, <1>8 DEF u

(* strncpy finds the end of line a, the first in what was read.              *)
LEMMA FirstItem ==
    ASSUME NEW a, NEW k, NEW m, Span(a, k, m), m # a - 1,
           NEW n \in (LineChunks - k + 1)..Size(a, k, m), NEW r \in Seq(Chunk)
    PROVE  Item(Start(Text(a, k, m), n) \o r) = Text(a, k, a)
<1> DEFINE s == Text(a, k, m)
           buf == Start(s, n) \o r
           e == LineChunks - k + 1
           ends == {i \in DOMAIN buf : EndsLine(buf[i])}
<1>1. /\ a \in Nat /\ k \in 1..LineChunks /\ LineChunks \in Nat /\ e \in 1..LineChunks
      /\ Size(a, k, m) \in Nat /\ n \in 1..Size(a, k, m) /\ e <= n
  BY LineProtocolAssumption DEF Span, Size
<1>2. /\ s \in Seq(Chunk) /\ Len(s) = Size(a, k, m)
      /\ \A i \in 1..Size(a, k, m) : s[i] = IF i <= LineChunks - k + 1 THEN <<a, k + i - 1>>
                                           ELSE <<a + 1, i - (LineChunks - k + 1)>>
  BY TextFacts
<1>3. \A i \in 1..e : s[i] = <<a, k + i - 1>>
  BY <1>1, <1>2
<1> HIDE DEF s
<1>4. /\ Start(s, n) \in Seq(Chunk) /\ Len(Start(s, n)) = n
      /\ \A i \in 1..n : Start(s, n)[i] = s[i]
  <2>1. n \in 0..Len(s)
    BY <1>1, <1>2
  <2> QED
    BY <1>2, <2>1, Split
<1>5. /\ buf \in Seq(Chunk) /\ Len(buf) = n + Len(r) /\ Len(r) \in Nat
      /\ \A i \in 1..(n + Len(r)) : buf[i] = IF i <= n THEN Start(s, n)[i] ELSE r[i - n]
  <2> DEFINE f == Start(s, n)
  <2>1. f \in Seq(Chunk) /\ Len(f) = n
    BY <1>4
  <2> HIDE DEF f
  <2>2. /\ f \o r \in Seq(Chunk) /\ Len(f \o r) = Len(f) + Len(r) /\ Len(r) \in Nat
        /\ \A i \in 1..(Len(f) + Len(r)) :
              (f \o r)[i] = IF i <= Len(f) THEN f[i] ELSE r[i - Len(f)]
    BY <2>1, Concat
  <2> QED
    BY <2>1, <2>2 DEF f
<1> HIDE DEF buf
<1>6. \A i \in 1..e : i \in 1..n /\ i \in 1..(n + Len(r)) /\ buf[i] = <<a, k + i - 1>>
  <2> SUFFICES ASSUME NEW i \in 1..e
               PROVE  i \in 1..n /\ i \in 1..(n + Len(r)) /\ buf[i] = <<a, k + i - 1>>
    OBVIOUS
  <2>1. i \in 1..n /\ i \in 1..(n + Len(r)) /\ i <= n
    BY <1>1, <1>5
  <2> QED
    BY <1>3, <1>4, <1>5, <2>1
<1>7. DOMAIN buf = 1..(n + Len(r))
  BY <1>5
<1>8. e \in ends
  <2>1. e \in 1..e /\ k + e - 1 = LineChunks
    BY <1>1
  <2> QED
    BY <1>6, <1>7, <2>1 DEF EndsLine
<1>9. \A i \in ends : e <= i
  <2> SUFFICES ASSUME NEW i \in ends, ~(e <= i)
               PROVE  FALSE
    OBVIOUS
  <2>1. i \in Nat /\ i \in 1..e /\ k + i - 1 # LineChunks
    BY <1>1, <1>5, <1>7
  <2> QED
    BY <1>6, <2>1 DEF EndsLine
<1>10. (CHOOSE i \in ends : \A j \in ends : i <= j) = e
  <2>1. \A i \in ends : i \in Nat
    BY <1>1, <1>5, <1>7
  <2>2. \A i \in ends : (\A j \in ends : i <= j) => i = e
    BY <1>1, <1>8, <1>9, <2>1
  <2> QED
    BY <1>8, <1>9, <2>2
<1>11. Item(buf) = Start(buf, e)
  BY <1>8, <1>10 DEF Item
<1>12. Start(buf, e) = Text(a, k, a)
  <2>1. e \in 0..Len(buf)
    BY <1>1, <1>5
  <2>2. /\ Start(buf, e) \in Seq(Chunk) /\ Len(Start(buf, e)) = e
        /\ \A i \in 1..e : Start(buf, e)[i] = buf[i]
    BY ZenonT(60), <1>5, <2>1, Split
  <2>3. Span(a, k, a) /\ Size(a, k, a) = e
    BY DEF Span, Size
  <2>4. /\ Text(a, k, a) \in Seq(Chunk) /\ Len(Text(a, k, a)) = Size(a, k, a)
        /\ \A i \in 1..Size(a, k, a) :
             Text(a, k, a)[i] = IF i <= LineChunks - k + 1 THEN <<a, k + i - 1>>
                                ELSE <<a + 1, i - (LineChunks - k + 1)>>
    BY <2>3, TextFacts
  <2>5. \A i \in 1..e : i <= LineChunks - k + 1
    BY <1>1
  <2>6. \A i \in 1..e : Start(buf, e)[i] = Text(a, k, a)[i]
    BY <1>6, <2>2, <2>3, <2>4, <2>5
  <2> QED
    BY <2>2, <2>3, <2>4, <2>6, SameSeq
<1> QED
  BY <1>11, <1>12 DEF buf, s

(* The lines in separate writes. *)
LEMMA LinesFacts ==
    ASSUME NEW m \in Nat, NEW n \in Nat, m <= n
    PROVE  /\ Lines(m, n) \in Seq(Seq(Chunk)) /\ Len(Lines(m, n)) = n - m
           /\ \A i \in 1..(n - m) : Lines(m, n)[i] = LineText(m + i)
<1> DEFINE text(i) == LineText(m + i)
<1>1. n - m \in Nat /\ \A i \in 1..(n - m) : text(i) \in Seq(Chunk)
  BY LineFacts
<1>2. Lines(m, n) = [i \in 1..(n - m) |-> text(i)]
  BY DEF Lines
<1> HIDE DEF text
<1>3. /\ Lines(m, n) \in Seq(Seq(Chunk)) /\ Len(Lines(m, n)) = n - m
      /\ \A i \in 1..(n - m) : Lines(m, n)[i] = text(i)
  BY <1>1, <1>2
<1> QED
  BY <1>3 DEF text

(* One more line is written behind those under way. *)
LEMMA LinesGrow ==
    ASSUME NEW m \in Nat, NEW n \in Nat, m <= n
    PROVE  Append(Lines(m, n), LineText(n + 1)) = Lines(m, n + 1)
<1> DEFINE s == Append(Lines(m, n), LineText(n + 1))
<1>1. /\ Lines(m, n) \in Seq(Seq(Chunk)) /\ Len(Lines(m, n)) = n - m
      /\ \A i \in 1..(n - m) : Lines(m, n)[i] = LineText(m + i)
  BY LinesFacts
<1>2. n + 1 \in Nat /\ m <= n + 1 /\ (n - m) + 1 = (n + 1) - m /\ m + ((n - m) + 1) = n + 1
  OBVIOUS
<1>3. /\ Lines(m, n + 1) \in Seq(Seq(Chunk)) /\ Len(Lines(m, n + 1)) = (n + 1) - m
      /\ \A i \in 1..((n + 1) - m) : Lines(m, n + 1)[i] = LineText(m + i)
  BY <1>2, LinesFacts
<1>4. LineText(n + 1) \in Seq(Chunk)
  BY <1>2, LineFacts
<1>5. /\ s \in Seq(Seq(Chunk)) /\ Len(s) = (n - m) + 1
      /\ \A i \in 1..(n - m) : s[i] = Lines(m, n)[i]
      /\ s[(n - m) + 1] = LineText(n + 1)
  <2> DEFINE t == Lines(m, n)
             l == LineText(n + 1)
             d == n - m
  <2>1. t \in Seq(Seq(Chunk)) /\ Len(t) = d /\ l \in Seq(Chunk)
    BY <1>1, <1>4
  <2> HIDE DEF t, l, d
  <2>2. /\ Append(t, l) \in Seq(Seq(Chunk)) /\ Len(Append(t, l)) = d + 1
        /\ \A i \in 1..d : Append(t, l)[i] = t[i]
        /\ Append(t, l)[d + 1] = l
    BY <2>1, AppendProperties
  <2> QED
    BY <2>2 DEF t, l, d
<1> HIDE DEF s
<1>6. \A i \in 1..((n + 1) - m) : i \in 1..(n - m) \/ i = (n - m) + 1
  OBVIOUS
<1>7. \A i \in 1..((n + 1) - m) : s[i] = Lines(m, n + 1)[i]
  BY <1>1, <1>2, <1>3, <1>5, <1>6
<1>8. s = Lines(m, n + 1)
  BY <1>2, <1>3, <1>5, <1>7, SameSeq
<1> QED
  BY <1>8 DEF s

(* The first of the lines under way arrives. *)
LEMMA LinesShrink ==
    ASSUME NEW m \in Nat, NEW n \in Nat, m < n
    PROVE  /\ Lines(m, n) # <<>> /\ Head(Lines(m, n)) = LineText(m + 1)
           /\ Tail(Lines(m, n)) = Lines(m + 1, n)
<1>1. /\ Lines(m, n) \in Seq(Seq(Chunk)) /\ Len(Lines(m, n)) = n - m
      /\ \A i \in 1..(n - m) : Lines(m, n)[i] = LineText(m + i)
  BY LinesFacts
<1>2. m + 1 \in Nat /\ m + 1 <= n /\ n - (m + 1) = (n - m) - 1 /\ 1 \in 1..(n - m)
  OBVIOUS
<1>3. /\ Lines(m + 1, n) \in Seq(Seq(Chunk)) /\ Len(Lines(m + 1, n)) = n - (m + 1)
      /\ \A i \in 1..(n - (m + 1)) : Lines(m + 1, n)[i] = LineText((m + 1) + i)
  BY <1>2, LinesFacts
<1>4. Lines(m, n) # <<>>
  BY <1>1, <1>2
<1>5. /\ Head(Lines(m, n)) = Lines(m, n)[1]
      /\ Tail(Lines(m, n)) \in Seq(Seq(Chunk)) /\ Len(Tail(Lines(m, n))) = Len(Lines(m, n)) - 1
      /\ \A i \in 1..(Len(Lines(m, n)) - 1) : Tail(Lines(m, n))[i] = Lines(m, n)[i + 1]
  BY <1>1, <1>4, HeadTailProperties
<1>6. \A i \in 1..((n - m) - 1) : i + 1 \in 1..(n - m) /\ m + (i + 1) = (m + 1) + i
  OBVIOUS
<1>7. \A i \in 1..((n - m) - 1) : Tail(Lines(m, n))[i] = Lines(m + 1, n)[i]
  BY <1>1, <1>2, <1>3, <1>5, <1>6
<1>8. Tail(Lines(m, n)) = Lines(m + 1, n)
  BY <1>1, <1>2, <1>3, <1>5, <1>7, SameSeq
<1> QED
  BY <1>1, <1>2, <1>4, <1>5, <1>8

-----------------------------------------------------------------------------
(* The account of the lines *)

(* It stays true as lines are written and as credit is used up.              *)
LEMMA AccountKept ==
    ASSUME NEW a, NEW n \in Nat, NEW q, NEW credit \in Int, Account(a, n, q, credit),
           NEW o \in Nat, n <= o, NEW c \in Int, c <= credit
    PROVE  Account(a, o, q, c)
<1>1. 0..n \subseteq 0..o /\ c <= 2
  BY DEF Account
<1>2. \A x : Loses(x, a, q, credit) => Loses(x, a, q, c)
  BY DEF Loses
<1> QED
  BY <1>1, <1>2 DEF Account

(* What is under way is a number. *)
LEMMA CreditInt ==
    ASSUME NEW a \in Nat, NEW client, NEW n \in Nat, NEW l \in Nat, NEW server
    PROVE  /\ Credit(a, client, n, l, server) \in Int
           /\ Acks(l) \in Nat /\ (l # 0 => Acks(l) >= 1)
BY DEF Credit, Acks

(* Two at most are outstanding. *)
LEMMA FewLines ==
    ASSUME NEW a \in Nat, NEW client, NEW n \in Nat, a <= n + 1, NEW l \in Nat, NEW server,
           Credit(a, client, n, l, server) <= 2
    PROVE  n <= a + 1 /\ l <= 6
BY DEF Credit, Acks

(* The first place of a text, and its last in line n. *)
LEMMA TextEnds ==
    ASSUME NEW n \in Nat \ {0}, NEW k \in 1..LineChunks
    PROVE  /\ Text(n, k, n) \in Seq(Chunk) /\ Len(Text(n, k, n)) \in Nat \ {0}
           /\ Text(n, k, n)[1] = <<n, k>>
<1>1. Span(n, k, n) /\ Size(n, k, n) = LineChunks - k + 1
  BY DEF Span, Size
<1>2. 1 \in 1..Size(n, k, n) /\ 1 <= LineChunks - k + 1 /\ k + 1 - 1 = k
      /\ Size(n, k, n) \in Nat \ {0}
  BY <1>1, LineProtocolAssumption
<1>3. /\ Text(n, k, n) \in Seq(Chunk) /\ Len(Text(n, k, n)) = Size(n, k, n)
      /\ \A i \in 1..Size(n, k, n) :
            Text(n, k, n)[i] = IF i <= LineChunks - k + 1 THEN <<n, k + i - 1>>
                               ELSE <<n + 1, i - (LineChunks - k + 1)>>
  BY <1>1, TextFacts
<1> QED
  BY <1>2, <1>3

(* The items are sequences of chunks; each begins in its line.               *)
LEMMA ItemOf ==
    ASSUME NEW a \in Nat, NEW q, LineEnds(a, q), NEW i \in 1..Len(q)
    PROVE  /\ q[i] \in Seq(Chunk) /\ Len(q[i]) \in Nat \ {0}
           /\ q[i][1][1] \in 1..(a - 1)
           /\ \E k \in 1..LineChunks : q[i] = Text(q[i][1][1], k, q[i][1][1])
<1>1. PICK n \in 1..(a - 1), k \in 1..LineChunks : q[i] = Text(n, k, n)
  BY DEF LineEnds
<1>2. n \in Nat \ {0}
  OBVIOUS
<1>3. q[i] \in Seq(Chunk) /\ Len(q[i]) \in Nat \ {0} /\ q[i][1] = <<n, k>>
  BY <1>1, <1>2, TextEnds
<1>4. q[i][1][1] = n
  BY <1>3
<1> QED
  BY <1>1, <1>3, <1>4

(* Reading the rest of line a, and more, makes an item of it. *)
LEMMA AccountRead ==
    ASSUME NEW a \in Nat \ {0}, NEW n \in Nat, NEW q \in Seq(Seq(Chunk)),
           NEW credit \in Int, Account(a, n, q, credit), NEW k \in 1..LineChunks,
           NEW b \in (a + 1)..(n + 1), b <= a + 2, n - a + 1 <= credit,
           NEW c \in Int, c = credit + 1 - (b - a)
    PROVE  Account(b, n, Append(q, Text(a, k, a)), c)
<1> DEFINE p == Append(q, Text(a, k, a))
           l == Len(q)
<1>1. /\ Text(a, k, a) \in Seq(Chunk) /\ Len(Text(a, k, a)) \in Nat \ {0}
      /\ Text(a, k, a)[1] = <<a, k>>
  BY TextEnds
<1>2. /\ l \in Nat /\ Len(p) = l + 1 /\ p[l + 1] = Text(a, k, a)
      /\ \A i \in 1..l : p[i] = q[i]
  BY <1>1, AppendProperties, LenProperties
<1>3. p[l + 1][1][1] = a
  BY <1>1, <1>2
<1> HIDE DEF p
<1>4. \A i \in 1..(l + 1) : i \in 1..l \/ i = l + 1
  BY <1>2
<1>5. LineEnds(a, q)
  BY DEF Account
<1>6. \A i \in 1..l : p[i][1][1] \in 1..(a - 1)
  BY ZenonT(60), <1>2, <1>5, ItemOf
<1>7. LineEnds(b, p)
  <2>1. \A i \in 1..Len(p) : \E v \in 1..(b - 1) : \E j \in 1..LineChunks : p[i] = Text(v, j, v)
    <3>1. a \in 1..(b - 1) /\ 1..(a - 1) \subseteq 1..(b - 1)
      OBVIOUS
    <3>2. \A i \in 1..l : \E v \in 1..(a - 1) : \E j \in 1..LineChunks : q[i] = Text(v, j, v)
      BY <1>5 DEF LineEnds
    <3> QED
      BY <1>2, <1>4, <3>1, <3>2
  <2>2. \A i, j \in 1..Len(p) : i < j => p[i][1][1] < p[j][1][1]
    <3> SUFFICES ASSUME NEW i \in 1..(l + 1), NEW j \in 1..(l + 1), i < j
                 PROVE  p[i][1][1] < p[j][1][1]
      BY <1>2
    <3>1. i \in 1..l
      BY <1>2
    <3>2. CASE j \in 1..l
      BY <1>2, <1>5, <3>1, <3>2 DEF LineEnds
    <3>3. CASE j = l + 1
      BY SMTT(30), <1>3, <1>6, <3>1, <3>3
    <3> QED
      BY <1>4, <3>2, <3>3
  <2> QED
    BY <2>1, <2>2 DEF LineEnds
<1>8. ASSUME RoleRoom < LineChunks
      PROVE  \E x \in 0..n : Loses(x, b, p, c)
  <2>1. PICK x \in 0..n : Loses(x, a, q, credit)
    BY <1>8 DEF Account
  <2>2. /\ x # 0 => credit <= 1
        /\ \A v \in 1..(a - 1) : v = x \/ \E i \in 1..l : q[i][1][1] = v
    BY <2>1 DEF Loses
  <2>3. \A v \in 1..(a - 1) : v = x \/ \E i \in 1..(l + 1) : p[i][1][1] = v
    <3>1. 1..l \subseteq 1..(l + 1)
      BY <1>2
    <3> QED
      BY <1>2, <2>2, <3>1
  <2>4. \E i \in 1..(l + 1) : p[i][1][1] = a
    BY <1>2, <1>3
  <2>5. CASE b = a + 1
    <3>1. \A v \in 1..(b - 1) : v \in 1..(a - 1) \/ v = a
      BY <2>5
    <3>2. x # 0 => c <= 1
      BY <2>2, <2>5
    <3>3. \A v \in 1..(b - 1) : v = x \/ \E i \in 1..(l + 1) : p[i][1][1] = v
      BY <2>3, <2>4, <3>1
    <3>4. Loses(x, b, p, c)
      BY <1>2, <3>2, <3>3 DEF Loses
    <3> QED
      BY <3>4
  <2>6. CASE b = a + 2
    <3>1. \A v \in 1..(b - 1) : v \in 1..(a - 1) \/ v = a \/ v = a + 1
      BY <2>6
    <3>2. credit <= 2
      BY DEF Account
    <3>3. ~(credit <= 1) /\ c <= 1 /\ a + 1 \in 0..n
      BY <2>6, <3>2
    <3>4. x = 0
      BY <2>2, <3>3
    <3>5. \A v \in 1..(b - 1) : v # x
      BY <3>4
    <3>6. \A v \in 1..(b - 1) : v = a + 1 \/ \E i \in 1..(l + 1) : p[i][1][1] = v
      BY <2>3, <2>4, <3>1, <3>5
    <3>7. Loses(a + 1, b, p, c)
      BY <1>2, <3>3, <3>6 DEF Loses
    <3> QED
      BY <3>3, <3>7
  <2> QED
    BY <2>5, <2>6
<1>9. c <= 2
  BY DEF Account
<1> QED
  BY <1>7, <1>8, <1>9 DEF Account, p

(* The role read takes no line, unless one fits behind the role.             *)
LEMMA AccountRole ==
    ASSUME NEW n \in Nat, NEW q, NEW credit \in Int, Account(1, n, q, credit),
           NEW b \in 1..(n + 1), RoleRoom < LineChunks => b = 1,
           NEW c \in Int, c <= credit
    PROVE  Account(b, n, q, c)
<1>1. LineEnds(b, q)
  <2>1. 1..(1 - 1) \subseteq 1..(b - 1)
    OBVIOUS
  <2> QED
    BY <2>1 DEF Account, LineEnds
<1>2. CASE b = 1
  BY <1>2, AccountKept
<1>3. CASE ~(RoleRoom < LineChunks)
  BY <1>1, <1>3 DEF Account
<1> QED
  BY <1>2, <1>3

-----------------------------------------------------------------------------
(* The steps *)

(* No line and no text. *)
LEMMA Empty ==
    /\ \A n \in Nat : Lines(n, n) = <<>>
    /\ \A a \in Nat \ {0} : Text(a, 1, a - 1) = <<>>
<1>1. ASSUME NEW n \in Nat
      PROVE  Lines(n, n) = <<>>
  <2>1. Lines(n, n) \in Seq(Seq(Chunk)) /\ Len(Lines(n, n)) = n - n
    BY LinesFacts
  <2> QED
    BY <2>1, EmptySeq
<1>2. ASSUME NEW a \in Nat \ {0}
      PROVE  Text(a, 1, a - 1) = <<>>
  <2>1. Span(a, 1, a - 1) /\ Size(a, 1, a - 1) = 0
    BY LineProtocolAssumption DEF Span, Size
  <2>2. Text(a, 1, a - 1) \in Seq(Chunk) /\ Len(Text(a, 1, a - 1)) = 0
    BY <2>1, TextFacts
  <2> QED
    BY <2>2, EmptySeq
<1> QED
  BY <1>1, <1>2

(* A step that leaves the line buffer alone, and begins and ends no item,    *)
(* keeps the items.                                                          *)
LEMMA ItemsSame ==
    ASSUME UNCHANGED <<line, produced>>, pcServer' = "produce" <=> pcServer = "produce"
    PROVE  AllItems' = AllItems
BY DEF AllItems

(* What holds of the place where the server reads. *)
LEMMA Opened ==
    ASSUME Types, NEW a \in 1..(sent + 1), NEW k \in 1..LineChunks, NEW m \in 0..sent,
           Situation(a, k, m, pcClient, sent, wire, inbox, pcServer),
           Account(a, sent, AllItems, Credit(a, pcClient, sent, Len(answers), pcServer))
    PROVE  /\ Span(a, k, m) /\ sent \in Nat /\ m \in Nat /\ a \in Nat \ {0} /\ k \in Nat
           /\ Len(answers) \in Nat /\ sent <= a + 1 /\ Len(answers) <= 6
           /\ Credit(a, pcClient, sent, Len(answers), pcServer) \in Int
           /\ Credit(a, pcClient, sent, Len(answers), pcServer) <= 2
           /\ AllItems \in Seq(Seq(Chunk))
<1>1. sent \in Nat /\ a \in Nat \ {0} /\ a <= sent + 1 /\ Len(answers) \in Nat /\ k \in Nat
  BY LineProtocolAssumption, LenProperties DEF Types
<1>2. /\ Credit(a, pcClient, sent, Len(answers), pcServer) <= 2
      /\ LineEnds(a, AllItems)
  BY DEF Account
<1>3. Span(a, k, m)
  BY DEF Situation
<1>4. AllItems \in Seq(Seq(Chunk))
  <2>1. CASE pcServer # "produce"
    BY <2>1 DEF AllItems, Types
  <2>2. CASE pcServer = "produce"
    <3>1. /\ AllItems = Append(produced, Item(line)) /\ produced \in Seq(Seq(Chunk))
      BY <2>2 DEF AllItems, Types
    <3>2. Len(AllItems) = Len(produced) + 1 /\ AllItems[Len(produced) + 1] = Item(line)
          /\ Len(produced) \in Nat
      BY <3>1, LenProperties
    <3>3. Item(line) \in Seq(Chunk)
      BY <1>1, <1>2, <3>2, ItemOf
    <3> QED
      BY <3>1, <3>3, AppendProperties
  <2> QED
    BY <2>1, <2>2
<1> QED
  BY <1>1, <1>2, <1>3, <1>4, CreditInt, FewLines

(* Before the role is written there is nothing under way but the rest of     *)
(* the prompt.                                                               *)
LEMMA InitInv == ProtocolInit => LineInv
<1> SUFFICES ASSUME ProtocolInit
             PROVE  LineInv
  OBVIOUS
<1>1. answers \in Seq({"O", "K", "newline"}) /\ Len(answers) = PromptRest
  BY LineProtocolAssumption DEF ProtocolInit
<1>2. Types
  BY <1>1, LineProtocolAssumption DEF ProtocolInit, Types
<1>3. 1 \in 1..(sent + 1) /\ 1 \in 1..LineChunks /\ 0 \in 0..sent
  BY LineProtocolAssumption DEF ProtocolInit
<1>4. Situation(1, 1, 0, pcClient, sent, wire, inbox, pcServer)
  BY LineProtocolAssumption DEF ProtocolInit, Situation, Span
<1>5. Account(1, sent, AllItems, Credit(1, pcClient, sent, Len(answers), pcServer))
  <2>1. AllItems = <<>> /\ Len(AllItems) = 0 /\ sent = 0
    BY DEF ProtocolInit, AllItems
  <2>2. Credit(1, pcClient, sent, Len(answers), pcServer) <= 2
    BY <1>1, LineProtocolAssumption DEF ProtocolInit, Credit, Acks
  <2>3. LineEnds(1, AllItems)
    BY <2>1 DEF LineEnds
  <2>4. 0 \in 0..sent
           /\ Loses(0, 1, AllItems, Credit(1, pcClient, sent, Len(answers), pcServer))
    BY <2>1 DEF Loses
  <2> QED
    BY <2>2, <2>3, <2>4 DEF Account
<1> QED
  BY <1>2, <1>3, <1>4, <1>5 DEF LineInv, Protocol

(* The role comes in front of all lines. *)
LEMMA WriteRoleInv ==
    ASSUME Types, Protocol, WriteRole
    PROVE  Types' /\ Protocol'
<1>1. PICK a \in 1..(sent + 1), k \in 1..LineChunks, m \in 0..sent :
         /\ Situation(a, k, m, pcClient, sent, wire, inbox, pcServer)
         /\ Account(a, sent, AllItems, Credit(a, pcClient, sent, Len(answers), pcServer))
  BY DEF Protocol
<1>2. AllItems' = AllItems
  BY ItemsSame DEF WriteRole
<1>3. /\ a = 1 /\ k = 1 /\ m = 0 /\ sent = 0 /\ pcServer = "role" /\ inbox = <<>> /\ wire = <<>>
      /\ Span(a, k, m)
  BY <1>1 DEF Situation, WriteRole
<1>4. wire' = <<<<Role>>>> \o Lines(0, 0) /\ wire' \in Seq(Seq(Chunk))
  <2>1. <<Role>> \in Seq(Chunk)
    BY DEF Role, Chunk
  <2>2. wire' = <<<<Role>>>>
    BY <1>3 DEF WriteRole
  <2>3. <<<<Role>>>> \in Seq(Seq(Chunk)) /\ Lines(0, 0) = <<>>
    BY <2>1, Empty
  <2> QED
    BY <2>2, <2>3
<1>5. Situation(a, k, m, pcClient', sent', wire', inbox', pcServer')
  <2>1. /\ pcClient' = "fgets" /\ sent' = sent /\ inbox' = <<>> /\ pcServer' = "role"
        /\ wire' = <<<<Role>>>> \o Lines(0, sent')
    BY <1>3, <1>4 DEF WriteRole
  <2>2. m <= sent' /\ a <= sent' + 1
    BY <1>3, <2>1
  <2> HIDE DEF Role
  <2> QED
    BY <1>3, <2>1, <2>2 DEF Situation
<1>6. Credit(a, pcClient', sent', Len(answers'), pcServer')
         = Credit(a, pcClient, sent, Len(answers), pcServer)
  BY DEF WriteRole, Credit
<1>7. Types'
  BY <1>4 DEF WriteRole, Types
<1> QED
  BY <1>1, <1>2, <1>5, <1>6, <1>7 DEF WriteRole, Protocol

(* Appending to the second of two sequences. *)
LEMMA AppendToConcat ==
    ASSUME NEW S, NEW s \in Seq(S), NEW t \in Seq(S), NEW e \in S
    PROVE  Append(s \o t, e) = s \o Append(t, e)
<1>1. s \o t \in Seq(S) /\ <<e>> \in Seq(S)
  BY ConcatProperties
<1>2. Append(s \o t, e) = (s \o t) \o <<e>> /\ Append(t, e) = t \o <<e>>
  BY <1>1, AppendIsConcat
<1> QED
  BY <1>1, <1>2, ConcatAssociative

(* One more line under way uses up what credit the client had. *)
LEMMA WriteLineInv ==
    ASSUME Types, Protocol, WriteLine
    PROVE  Types' /\ Protocol'
<1>1. PICK a \in 1..(sent + 1), k \in 1..LineChunks, m \in 0..sent :
         /\ Situation(a, k, m, pcClient, sent, wire, inbox, pcServer)
         /\ Account(a, sent, AllItems, Credit(a, pcClient, sent, Len(answers), pcServer))
  BY DEF Protocol
<1>2. /\ Span(a, k, m) /\ sent \in Nat /\ m \in Nat /\ m <= sent /\ a \in Nat \ {0}
      /\ Credit(a, pcClient, sent, Len(answers), pcServer) \in Int /\ Len(answers) \in Nat
  BY <1>1, Opened
<1>3. /\ AllItems' = AllItems /\ pcClient = "fgets" /\ pcClient' = "ok" /\ sent' = sent + 1
      /\ sent' \in 0..MaxLines /\ wire' = Append(wire, LineText(sent + 1))
      /\ inbox' = inbox /\ pcServer' = pcServer /\ answers' = answers
  BY <1>2, ItemsSame, LineProtocolAssumption DEF WriteLine, Types
<1>4. LineText(sent + 1) \in Seq(Chunk) /\ sent + 1 \in Nat
  BY <1>2, LineFacts
<1>5. Types'
  <2>1. wire' \in Seq(Seq(Chunk))
    BY <1>3, <1>4, AppendProperties DEF Types
  <2> QED
    BY <1>3, <2>1 DEF WriteLine, Types
<1>6. \A j \in 0..sent : Append(Lines(j, sent), LineText(sent + 1)) = Lines(j, sent + 1)
  <2>1. \A j \in 0..sent : j \in Nat /\ j <= sent
    BY <1>2
  <2> QED
    BY <1>2, <2>1, LinesGrow
<1>7. ASSUME wire = <<<<Role>>>> \o Lines(0, sent)
      PROVE  wire' = <<<<Role>>>> \o Lines(0, sent + 1)
  <2>1. <<Role>> \in Seq(Chunk)
    BY DEF Role, Chunk
  <2>2. <<<<Role>>>> \in Seq(Seq(Chunk)) /\ Lines(0, sent) \in Seq(Seq(Chunk)) /\ 0 \in 0..sent
    BY <1>2, <2>1, LinesFacts
  <2>3. Append(<<<<Role>>>> \o Lines(0, sent), LineText(sent + 1))
           = <<<<Role>>>> \o Append(Lines(0, sent), LineText(sent + 1))
    BY <1>4, <2>2, AppendToConcat
  <2> QED
    BY <1>3, <1>6, <1>7, <2>2, <2>3
<1>8. Situation(a, k, m, pcClient', sent', wire', inbox', pcServer')
  <2>1. m <= sent + 1 /\ a <= (sent + 1) + 1
    BY <1>2
  <2>2. CASE pcServer # "role"
    BY <1>1, <1>2, <1>3, <1>6, <2>1, <2>2 DEF Situation
  <2>3. CASE pcServer = "role"
    <3>1. \/ m = 0 /\ inbox = <<>> /\ wire = <<<<Role>>>> \o Lines(0, sent)
          \/ inbox = <<Role>> \o Text(1, 1, m) /\ wire = Lines(m, sent)
      BY <1>1, <1>3, <2>3 DEF Situation
    <3>2. \/ m = 0 /\ inbox' = <<>> /\ wire' = <<<<Role>>>> \o Lines(0, sent')
          \/ inbox' = <<Role>> \o Text(1, 1, m) /\ wire' = Lines(m, sent')
      BY <1>3, <1>6, <1>7, <3>1
    <3> QED
      BY <1>1, <1>3, <2>1, <2>3, <3>2 DEF Situation
  <2> QED
    BY <2>2, <2>3
<1>9. Account(a, sent', AllItems', Credit(a, pcClient', sent', Len(answers'), pcServer'))
  <2>1. Credit(a, pcClient', sent', Len(answers'), pcServer')
           = Credit(a, pcClient, sent, Len(answers), pcServer)
    <3>1. Acks(Len(answers)) \in Nat
      BY <1>2, CreditInt
    <3>2. Credit(a, "ok", sent + 1, Len(answers), pcServer)
             = Credit(a, "fgets", sent, Len(answers), pcServer)
      BY SMTT(30), <1>2, <3>1 DEF Credit
    <3> QED
      BY <1>3, <3>2
  <2>2. sent + 1 \in Nat /\ sent <= sent + 1
    BY <1>2
  <2>3. Account(a, sent + 1, AllItems, Credit(a, pcClient, sent, Len(answers), pcServer))
    BY <1>1, <1>2, <2>2, AccountKept
  <2> QED
    BY <1>3, <2>1, <2>3
<1>10. a \in 1..(sent' + 1) /\ m \in 0..sent'
  BY <1>2, <1>3
<1> QED
  BY <1>5, <1>8, <1>9, <1>10 DEF Protocol

(* Steps that move no line only have to keep the credit.                     *)
LEMMA QuietInv ==
    ASSUME Types, Types', Protocol, UNCHANGED <<sent, wire, inbox>>, AllItems' = AllItems,
           pcClient' = "role" <=> pcClient = "role",
           pcServer' = "role" <=> pcServer = "role",
           \A a \in Nat \ {0} :
               /\ a <= sent + 1
               /\ Credit(a, pcClient, sent, Len(answers), pcServer) <= 2
               => Credit(a, pcClient', sent, Len(answers'), pcServer')
                     <= Credit(a, pcClient, sent, Len(answers), pcServer)
    PROVE  Protocol'
<1>1. PICK a \in 1..(sent + 1), k \in 1..LineChunks, m \in 0..sent :
         /\ Situation(a, k, m, pcClient, sent, wire, inbox, pcServer)
         /\ Account(a, sent, AllItems, Credit(a, pcClient, sent, Len(answers), pcServer))
  BY DEF Protocol
<1>2. /\ sent \in Nat /\ a \in Nat \ {0} /\ a <= sent + 1
      /\ Credit(a, pcClient, sent, Len(answers), pcServer) \in Int
      /\ Credit(a, pcClient, sent, Len(answers), pcServer) <= 2
  BY <1>1, Opened
<1>3. Credit(a, pcClient', sent, Len(answers'), pcServer')
         <= Credit(a, pcClient, sent, Len(answers), pcServer)
  BY <1>2
<1>4. Len(answers') \in Nat
  BY LenProperties DEF Types
<1>5. Credit(a, pcClient', sent, Len(answers'), pcServer') \in Int
  BY <1>2, <1>4, CreditInt
<1>6. Account(a, sent, AllItems, Credit(a, pcClient', sent, Len(answers'), pcServer'))
  BY <1>1, <1>2, <1>3, <1>5, AccountKept
<1>7. Situation(a, k, m, pcClient', sent, wire, inbox, pcServer')
  BY <1>1 DEF Situation
<1> QED
  BY <1>6, <1>7 DEF Protocol

(* A read takes no more than there is. *)
LEMMA Fewer ==
    ASSUME NEW n \in Nat
    PROVE  Least(OkRoom, n) \in 0..n
BY LineProtocolAssumption DEF Least

(* Reading an answer gives the client its credit back. *)
LEMMA ReadOKInv ==
    ASSUME Types, Protocol, ReadOK
    PROVE  Types' /\ Protocol'
<1> DEFINE l == Len(answers)
           r == Least(OkRoom, l)
<1>1. answers \in Seq({"O", "K", "newline"}) /\ answers # <<>> /\ l \in Nat /\ l # 0
  BY EmptySeq, LenProperties DEF Types, ReadOK
<1>2. r \in 0..l
  BY <1>1, Fewer
<1>3. answers' \in Seq({"O", "K", "newline"}) /\ Len(answers') = l - r
  BY <1>1, <1>2, Split DEF ReadOK
<1>4. l <= 6 => Acks(l - r) + 1 <= Acks(l)
  BY <1>1, LineProtocolAssumption DEF Least, Acks
<1>5. /\ pcClient = "ok" /\ pcClient' = "fgets" /\ AllItems' = AllItems
      /\ UNCHANGED <<sent, wire, inbox, pcServer>>
  BY ItemsSame DEF ReadOK
<1>6. ASSUME NEW a \in Nat \ {0}, a <= sent + 1,
             Credit(a, pcClient, sent, Len(answers), pcServer) <= 2
      PROVE  Credit(a, pcClient', sent, Len(answers'), pcServer')
                <= Credit(a, pcClient, sent, Len(answers), pcServer)
  <2>1. sent \in Nat /\ l - r \in Nat
    BY <1>2, LineProtocolAssumption DEF Types
  <2>2. l <= 6
    BY <1>1, <1>6, <2>1, FewLines
  <2>3. Acks(l) \in Nat /\ Acks(l - r) \in Nat
    BY <1>1, <2>1, CreditInt
  <2>4. Credit(a, "fgets", sent, l - r, pcServer) <= Credit(a, "ok", sent, l, pcServer)
    BY <1>4, <2>1, <2>2, <2>3 DEF Credit
  <2> QED
    BY <1>3, <1>5, <2>4
<1>7. Types'
  BY <1>3, <1>5 DEF ReadOK, Types
<1> QED
  BY <1>5, <1>6, <1>7, QuietInv

(* A client at the end of its file leaves what is under way alone. *)
LEMMA CloseSocketInv ==
    ASSUME Types, Protocol, CloseSocket
    PROVE  Types' /\ Protocol'
<1>1. /\ pcClient = "fgets" /\ pcClient' = "closed" /\ AllItems' = AllItems
      /\ UNCHANGED <<sent, wire, inbox, pcServer, answers>>
  BY ItemsSame DEF CloseSocket
<1>2. ASSUME NEW a \in Nat \ {0}
      PROVE  Credit(a, pcClient', sent, Len(answers'), pcServer')
                <= Credit(a, pcClient, sent, Len(answers), pcServer)
  <2>1. sent \in Nat /\ Len(answers) \in Nat
    BY LenProperties, LineProtocolAssumption DEF Types
  <2>2. Acks(Len(answers)) \in Nat
    BY <2>1, CreditInt
  <2>3. Credit(a, "closed", sent, Len(answers), pcServer)
           <= Credit(a, "fgets", sent, Len(answers), pcServer)
    BY <2>1, <2>2 DEF Credit
  <2> QED
    BY <1>1, <2>3
<1>3. Types'
  BY <1>1 DEF CloseSocket, Types
<1> QED
  BY <1>1, <1>2, <1>3, QuietInv

(* So does a child that sees the end of the stream. *)
LEMMA EndOfStreamInv ==
    ASSUME Types, Protocol, EndOfStream
    PROVE  Types' /\ Protocol'
<1>1. /\ pcServer = "read" /\ pcServer' = "exited" /\ AllItems' = AllItems
      /\ UNCHANGED <<sent, wire, inbox, pcClient, answers>>
  BY ItemsSame DEF EndOfStream
<1>2. ASSUME NEW a \in Nat \ {0}
      PROVE  Credit(a, pcClient', sent, Len(answers'), pcServer')
                <= Credit(a, pcClient, sent, Len(answers), pcServer)
  <2>1. sent \in Nat /\ Len(answers) \in Nat
    BY LenProperties, LineProtocolAssumption DEF Types
  <2>2. Acks(Len(answers)) \in Nat
    BY <2>1, CreditInt
  <2>3. Credit(a, pcClient, sent, Len(answers), "exited")
           <= Credit(a, pcClient, sent, Len(answers), "read")
    BY <2>1, <2>2 DEF Credit
  <2> QED
    BY <1>1, <2>3
<1>3. Types'
  BY <1>1 DEF EndOfStream, Types
<1> QED
  BY <1>1, <1>2, <1>3, QuietInv

(* The item counted while it was about to be produced is in the buffer. *)
LEMMA ProduceInv ==
    ASSUME Types, Protocol, Produce
    PROVE  Types' /\ Protocol'
<1>1. PICK a \in 1..(sent + 1), k \in 1..LineChunks, m \in 0..sent :
         /\ Situation(a, k, m, pcClient, sent, wire, inbox, pcServer)
         /\ Account(a, sent, AllItems, Credit(a, pcClient, sent, Len(answers), pcServer))
  BY DEF Protocol
<1>2. AllItems \in Seq(Seq(Chunk))
  BY <1>1, Opened
<1>3. /\ pcServer = "produce" /\ pcServer' = "ack" /\ AllItems' = AllItems /\ produced' = AllItems
      /\ UNCHANGED <<sent, wire, inbox, pcClient, answers>>
  BY DEF Produce, AllItems
<1>4. ASSUME NEW a1 \in Nat \ {0}
      PROVE  Credit(a1, pcClient', sent, Len(answers'), pcServer')
                <= Credit(a1, pcClient, sent, Len(answers), pcServer)
  <2>1. sent \in Nat /\ Len(answers) \in Nat
    BY LenProperties, LineProtocolAssumption DEF Types
  <2>2. Acks(Len(answers)) \in Nat
    BY <2>1, CreditInt
  <2>3. Credit(a1, pcClient, sent, Len(answers), "ack")
           <= Credit(a1, pcClient, sent, Len(answers), "produce")
    BY <2>1, <2>2 DEF Credit
  <2> QED
    BY <1>3, <2>3
<1>5. Types'
  BY <1>2, <1>3 DEF Produce, Types
<1> QED
  BY <1>3, <1>4, <1>5, QuietInv

(* An answer takes the place of the line it is for. *)
LEMMA WriteOKInv ==
    ASSUME Types, Protocol, WriteOK
    PROVE  Types' /\ Protocol'
<1> DEFINE l == Len(answers)
<1>1. /\ answers \in Seq({"O", "K", "newline"}) /\ l \in Nat /\ sent \in Nat
      /\ Acks(l) \in Nat
  <2>1. answers \in Seq({"O", "K", "newline"}) /\ sent \in Nat
    BY LineProtocolAssumption DEF Types
  <2>2. l \in Nat
    BY <2>1, LenProperties
  <2> QED
    BY <2>1, <2>2, CreditInt
<1>2. /\ pcServer = "ack" /\ AllItems' = AllItems /\ pcServer' \in {"read", "exited"}
      /\ UNCHANGED <<sent, wire, inbox, pcClient>>
      /\ answers' = answers \/ (answers' = answers \o OK /\ pcServer' = "read")
      /\ pcServer' = "exited" \/ answers' = answers \o OK
  BY ItemsSame DEF WriteOK
<1>3. answers \o OK \in Seq({"O", "K", "newline"}) /\ Len(answers \o OK) = l + 3
  <2> DEFINE S == {"O", "K", "newline"}
  <2>1. OK \in Seq(S) /\ Len(OK) = 3
    BY DEF OK
  <2>2. answers \in Seq(S)
    BY <1>1
  <2> HIDE DEF S
  <2>3. answers \o OK \in Seq(S) /\ Len(answers \o OK) = Len(answers) + Len(OK)
    BY <2>1, <2>2, Concat
  <2> QED
    BY <2>1, <2>3 DEF S
<1>4. Types'
  BY <1>2, <1>3 DEF WriteOK, Types
<1>5. ASSUME NEW a \in Nat \ {0}
      PROVE  Credit(a, pcClient', sent, Len(answers'), pcServer')
                <= Credit(a, pcClient, sent, Len(answers), pcServer)
  <2>1. Acks(l + 3) \in Nat /\ Acks(l + 3) <= Acks(l) + 1
    BY <1>1 DEF Acks
  <2>2. Credit(a, pcClient, sent, l + 3, "read") <= Credit(a, pcClient, sent, l, "ack")
    BY <1>1, <2>1 DEF Credit
  <2>3. Credit(a, pcClient, sent, l, "exited") <= Credit(a, pcClient, sent, l, "ack")
    BY <1>1 DEF Credit
  <2>4. CASE answers' = answers \o OK /\ pcServer' = "read"
    BY <1>2, <1>3, <2>2, <2>4
  <2>5. CASE answers' = answers /\ pcServer' = "exited"
    BY <1>2, <2>3, <2>5
  <2> QED
    BY <1>2, <2>4, <2>5
<1> QED
  BY <1>2, <1>4, <1>5, QuietInv

(* The role is a text of one chunk. *)
LEMMA RoleText == <<Role>> \in Seq(Chunk)
BY DEF Role, Chunk

(* The first of a sequence and the rest of it. *)
LEMMA Prefixed ==
    ASSUME NEW S, NEW e \in S, NEW t \in Seq(S)
    PROVE  Head(<<e>> \o t) = e /\ Tail(<<e>> \o t) = t
<1> DEFINE u == <<e>> \o t
<1>1. <<e>> \in Seq(S) /\ Len(<<e>>) = 1 /\ <<e>>[1] = e
  OBVIOUS
<1>2. /\ u \in Seq(S) /\ Len(u) = 1 + Len(t) /\ Len(t) \in Nat
      /\ \A i \in 1..(1 + Len(t)) : u[i] = IF i <= 1 THEN <<e>>[i] ELSE t[i - 1]
  BY <1>1, Concat
<1> HIDE DEF u
<1>3. u # <<>> /\ Head(u) = u[1] /\ u[1] = e
  <2>1. 1 \in 1..(1 + Len(t)) /\ 1 <= 1
    BY <1>2
  <2>2. u[1] = e
    BY <1>1, <1>2, <2>1
  <2> QED
    BY <1>2, <2>2
<1>4. /\ Tail(u) \in Seq(S) /\ Len(Tail(u)) = Len(t)
      /\ \A i \in 1..Len(t) : Tail(u)[i] = u[i + 1]
  BY <1>2, <1>3, HeadTailProperties
<1>5. \A i \in 1..Len(t) : i + 1 \in 1..(1 + Len(t)) /\ ~(i + 1 <= 1) /\ (i + 1) - 1 = i
  BY <1>2
<1>6. \A i \in 1..Len(t) : Tail(u)[i] = t[i]
  BY <1>2, <1>4, <1>5
<1>7. Tail(u) = t
  BY <1>4, <1>6, SameSeq
<1> QED
  BY <1>3, <1>7 DEF u

(* What arrives is what is read behind the text in the inbox. *)
LEMMA ArriveInv ==
    ASSUME Types, Protocol, Arrive
    PROVE  Types' /\ Protocol'
<1>1. PICK a \in 1..(sent + 1), k \in 1..LineChunks, m \in 0..sent :
         /\ Situation(a, k, m, pcClient, sent, wire, inbox, pcServer)
         /\ Account(a, sent, AllItems, Credit(a, pcClient, sent, Len(answers), pcServer))
  BY DEF Protocol
<1>2. /\ Span(a, k, m) /\ sent \in Nat /\ m \in Nat /\ m <= sent /\ a \in Nat \ {0}
      /\ sent <= a + 1
  BY <1>1, Opened
<1>3. /\ wire # <<>> /\ inbox' = inbox \o Head(wire) /\ wire' = Tail(wire)
      /\ UNCHANGED <<pcClient, sent, pcServer, line, produced, answers>>
  BY DEF Arrive
<1>4. Types'
  <2>1. Head(wire) \in Seq(Chunk) /\ Tail(wire) \in Seq(Seq(Chunk))
    BY <1>3, HeadTailProperties DEF Types
  <2>2. inbox \o Head(wire) \in Seq(Chunk)
    BY <2>1, Concat DEF Types
  <2> QED
    BY <1>3, <2>1, <2>2 DEF Types
<1>5. AllItems' = AllItems
  BY <1>3, ItemsSame
<1>6. ASSUME wire = Lines(m, sent)
      PROVE  /\ m < sent /\ m + 1 \in 0..sent /\ Span(a, k, m + 1) /\ wire' = Lines(m + 1, sent)
             /\ Head(wire) = LineText(m + 1)
             /\ Text(a, k, m) \o LineText(m + 1) = Text(a, k, m + 1)
  <2>1. m < sent
    BY <1>2, <1>3, <1>6, Empty
  <2>2. m # a + 1
    BY <1>2, <2>1
  <2>3. m + 1 \in 0..sent
    BY <1>2, <2>1
  <2> QED
    BY <1>2, <1>3, <1>6, <2>1, <2>2, <2>3, TextGrows, LinesShrink
<1>7. CASE pcServer # "role"
  <2>1. inbox = Text(a, k, m) /\ wire = Lines(m, sent)
    BY <1>1, <1>7 DEF Situation
  <2>2. /\ m + 1 \in 0..sent /\ inbox' = Text(a, k, m + 1) /\ wire' = Lines(m + 1, sent)
        /\ Span(a, k, m + 1) /\ m + 1 <= sent
    <3>1. /\ m < sent /\ m + 1 \in 0..sent /\ Span(a, k, m + 1) /\ wire' = Lines(m + 1, sent)
          /\ Head(wire) = LineText(m + 1)
          /\ Text(a, k, m) \o LineText(m + 1) = Text(a, k, m + 1)
      BY <1>6, <2>1
    <3>2. inbox' = Text(a, k, m) \o LineText(m + 1)
      BY <1>3, <2>1, <3>1
    <3>3. m + 1 <= sent
      BY <1>2, <3>1
    <3> QED
      BY <3>1, <3>2, <3>3
  <2>3. Situation(a, k, m + 1, pcClient', sent', wire', inbox', pcServer')
    BY <1>1, <1>3, <1>7, <2>2 DEF Situation
  <2> QED
    BY <1>1, <1>3, <1>4, <1>5, <2>2, <2>3 DEF Protocol
<1>8. CASE pcServer = "role" /\ wire = <<<<Role>>>> \o Lines(0, sent) /\ m = 0 /\ inbox = <<>>
  <2>1. /\ <<Role>> \in Seq(Chunk) /\ Lines(0, sent) \in Seq(Seq(Chunk))
    <3>1. 0 \in Nat /\ 0 <= sent
      BY <1>2
    <3> QED
      BY <1>2, <3>1, RoleText, LinesFacts
  <2>2. Head(wire) = <<Role>> /\ Tail(wire) = Lines(0, sent)
    <3> DEFINE s == <<Role>>
               t == Lines(0, sent)
    <3>1. s \in Seq(Chunk) /\ t \in Seq(Seq(Chunk)) /\ wire = <<s>> \o t
      BY <1>8, <2>1
    <3> HIDE DEF s, t
    <3>2. Head(<<s>> \o t) = s /\ Tail(<<s>> \o t) = t
      BY <3>1, Prefixed
    <3> QED
      BY <3>1, <3>2 DEF s, t
  <2>3. inbox' = <<Role>> /\ Text(1, 1, 0) = <<>> /\ <<Role>> \o <<>> = <<Role>>
    <3>1. <<>> \o <<Role>> = <<Role>> /\ <<Role>> \o <<>> = <<Role>>
      BY <2>1, ConcatEmptySeq
    <3>2. Text(1, 1, 1 - 1) = <<>>
      BY Empty
    <3> QED
      BY <1>3, <1>8, <2>2, <3>1, <3>2
  <2>4. inbox' = <<Role>> \o Text(1, 1, m) /\ wire' = Lines(m, sent)
    BY <1>3, <1>8, <2>2, <2>3
  <2>5. Situation(a, k, m, pcClient', sent', wire', inbox', pcServer')
    BY <1>1, <1>3, <1>8, <2>4 DEF Situation
  <2> QED
    BY <1>1, <1>3, <1>4, <1>5, <2>5 DEF Protocol
<1>9. CASE pcServer = "role" /\ inbox = <<Role>> \o Text(1, 1, m) /\ wire = Lines(m, sent)
  <2>1. a = 1 /\ k = 1 /\ pcClient # "role"
    BY <1>1, <1>3, <1>9, EmptySeq DEF Situation
  <2>2. /\ m + 1 \in 0..sent /\ wire' = Lines(m + 1, sent) /\ Span(1, 1, m + 1) /\ m + 1 <= sent
        /\ Head(wire) = LineText(m + 1)
        /\ Text(1, 1, m) \o LineText(m + 1) = Text(1, 1, m + 1)
    BY <1>2, <1>6, <1>9, <2>1
  <2>3. inbox' = <<Role>> \o Text(1, 1, m + 1)
    <3>1. <<Role>> \in Seq(Chunk) /\ Text(1, 1, m) \in Seq(Chunk) /\ LineText(m + 1) \in Seq(Chunk)
      <4>1. Span(1, 1, m) /\ m + 1 \in Nat
        BY <1>2, <2>1
      <4> QED
        BY <4>1, RoleText, TextFacts, LineFacts
    <3>2. (<<Role>> \o Text(1, 1, m)) \o LineText(m + 1)
             = <<Role>> \o (Text(1, 1, m) \o LineText(m + 1))
      BY <3>1, ConcatAssociative
    <3> QED
      BY <1>3, <1>9, <2>2, <3>2
  <2>4. Situation(a, k, m + 1, pcClient', sent', wire', inbox', pcServer')
    BY <1>1, <1>3, <1>9, <2>1, <2>2, <2>3 DEF Situation
  <2> QED
    BY <1>1, <1>3, <1>4, <1>5, <2>2, <2>4 DEF Protocol
<1>10. pcServer = "role" =>
          \/ wire = <<<<Role>>>> \o Lines(0, sent) /\ m = 0 /\ inbox = <<>>
          \/ inbox = <<Role>> \o Text(1, 1, m) /\ wire = Lines(m, sent)
  BY <1>1, <1>3 DEF Situation
<1> QED
  BY <1>7, <1>8, <1>9, <1>10

(* With the role the child takes the beginning of the first line at most. *)
LEMMA ReadRoleInv ==
    ASSUME Types, Protocol, ReadRole
    PROVE  Types' /\ Protocol'
<1>1. PICK a \in 1..(sent + 1), k \in 1..LineChunks, m \in 0..sent :
         /\ Situation(a, k, m, pcClient, sent, wire, inbox, pcServer)
         /\ Account(a, sent, AllItems, Credit(a, pcClient, sent, Len(answers), pcServer))
  BY DEF Protocol
<1>2. /\ Span(a, k, m) /\ sent \in Nat /\ m \in Nat /\ m <= sent /\ a \in Nat \ {0}
      /\ Credit(a, pcClient, sent, Len(answers), pcServer) \in Int /\ Len(answers) \in Nat
  BY <1>1, Opened
<1>3. /\ pcServer = "role" /\ inbox # <<>> /\ pcServer' = "read"
      /\ inbox' = Rest(inbox, Least(1 + RoleRoom, Len(inbox)))
      /\ UNCHANGED <<pcClient, sent, wire, line, produced, answers>>
  BY DEF ReadRole
<1>4. /\ a = 1 /\ k = 1 /\ pcClient # "role"
      /\ inbox = <<Role>> \o Text(1, 1, m) /\ wire = Lines(m, sent)
  BY <1>1, <1>3 DEF Situation
<1> DEFINE t == Text(1, 1, m)
           r == Least(RoleRoom, Size(1, 1, m))
<1>5. t \in Seq(Chunk) /\ Len(t) = Size(1, 1, m) /\ Size(1, 1, m) \in Nat
  BY <1>2, <1>4, TextFacts
<1>6. r \in 0..Size(1, 1, m) /\ r <= RoleRoom
      /\ Least(1 + RoleRoom, 1 + Size(1, 1, m)) = 1 + r
  BY <1>5, LineProtocolAssumption DEF Least
<1>7. inbox' = Rest(t, r)
  <2>1. r \in 0..Len(t)
    BY <1>5, <1>6
  <2> HIDE DEF t, r
  <2>2. Len(<<Role>> \o t) = 1 + Len(t) /\ Rest(<<Role>> \o t, 1 + r) = Rest(t, r)
    BY <1>5, <2>1, RoleRest
  <2> QED
    BY <1>3, <1>4, <1>5, <1>6, <2>2 DEF t
<1>8. \E b \in 1..(m + 1), l \in 1..LineChunks :
         /\ Span(b, l, m) /\ Rest(t, r) = Text(b, l, m)
         /\ RoleRoom < LineChunks => b = 1
  <2>1. CASE r = 0
    <3>1. 0 \in 0..Len(t)
      BY <1>5
    <3>2. Rest(t, 0) = t
      <4>1. /\ Rest(t, 0) \in Seq(Chunk) /\ Len(Rest(t, 0)) = Len(t) - 0
            /\ \A i \in 1..(Len(t) - 0) : Rest(t, 0)[i] = t[0 + i]
        BY <1>5, <3>1, Split
      <4>2. Len(Rest(t, 0)) = Len(t) /\ \A i \in 1..Len(t) : Rest(t, 0)[i] = t[i]
        BY <1>5, <4>1
      <4> QED
        BY <1>5, <4>1, <4>2, SameSeq
    <3>3. 1 \in 1..(m + 1) /\ 1 \in 1..LineChunks
      BY <1>2, LineProtocolAssumption
    <3> QED
      BY <1>2, <1>4, <2>1, <3>2, <3>3
  <2>2. CASE r # 0
    <3>1. r \in 1..Size(1, 1, m)
      BY <1>5, <1>6, <2>2
    <3> HIDE DEF r
    <3>2. PICK b \in 1..(m + 1), l \in 1..LineChunks :
             /\ Span(b, l, m) /\ Rest(t, r) = Text(b, l, m)
             /\ b = 1 <=> r <= LineChunks - 1
      BY <1>2, <1>4, <3>1, TextRest
    <3>3. RoleRoom < LineChunks => r <= LineChunks - 1
      BY <1>5, <1>6, LineProtocolAssumption
    <3> QED
      BY <3>2, <3>3
  <2> QED
    BY <2>1, <2>2
<1>9. PICK b \in 1..(m + 1), l \in 1..LineChunks :
         /\ Span(b, l, m) /\ Rest(t, r) = Text(b, l, m)
         /\ RoleRoom < LineChunks => b = 1
  BY <1>8
<1>10. b \in 1..(sent + 1) /\ b <= sent + 1 /\ b \in Nat
  BY <1>2
<1>11. AllItems' = AllItems
  BY <1>3, ItemsSame
<1>12. Situation(b, l, m, pcClient', sent', wire', inbox', pcServer')
  BY <1>2, <1>3, <1>4, <1>7, <1>9, <1>10 DEF Situation
<1>13. Account(b, sent', AllItems', Credit(b, pcClient', sent', Len(answers'), pcServer'))
  <2>1. Acks(Len(answers)) \in Nat
    BY <1>2, CreditInt
  <2>2. Credit(b, pcClient, sent, Len(answers), "read")
           <= Credit(1, pcClient, sent, Len(answers), "role")
    BY <1>2, <1>10, <2>1 DEF Credit
  <2>3. Credit(b, pcClient, sent, Len(answers), "read") \in Int
    BY <1>2, <1>10, CreditInt
  <2>4. Account(b, sent, AllItems, Credit(b, pcClient, sent, Len(answers), "read"))
    BY <1>1, <1>2, <1>3, <1>4, <1>9, <1>10, <2>2, <2>3, AccountRole
  <2> QED
    BY <1>3, <1>11, <2>4
<1>14. Types'
  <2>1. inbox' \in Seq(Chunk)
    BY <1>5, <1>6, <1>7, Split
  <2> QED
    BY <1>3, <2>1 DEF Types
<1> QED
  BY <1>3, <1>10, <1>12, <1>13, <1>14 DEF Protocol

(* What a read leaves, and the item of what it took: it may hold two lines,  *)
(* of which the second is lost.                                              *)
LEMMA ReadLinesInv ==
    ASSUME Types, Protocol, ReadLines
    PROVE  Types' /\ Protocol'
<1>1. PICK a \in 1..(sent + 1), k \in 1..LineChunks, m \in 0..sent :
         /\ Situation(a, k, m, pcClient, sent, wire, inbox, pcServer)
         /\ Account(a, sent, AllItems, Credit(a, pcClient, sent, Len(answers), pcServer))
  BY DEF Protocol
<1>2. /\ Span(a, k, m) /\ sent \in Nat /\ m \in Nat /\ m <= sent /\ a \in Nat \ {0}
      /\ Credit(a, pcClient, sent, Len(answers), pcServer) \in Int /\ Len(answers) \in Nat
      /\ AllItems \in Seq(Seq(Chunk)) /\ k \in Nat
  BY <1>1, Opened
<1> DEFINE n == Least(LineRoom, Size(a, k, m))
           t == Text(a, k, m)
<1>3. /\ inbox = t /\ wire = Lines(m, sent) /\ (pcClient = "role" => FALSE)
      /\ pcServer = "read" /\ inbox # <<>> /\ pcServer' = "produce"
      /\ UNCHANGED <<pcClient, sent, wire, produced, answers>>
  BY <1>1 DEF Situation, ReadLines
<1>4. t \in Seq(Chunk) /\ Len(t) = Size(a, k, m) /\ Size(a, k, m) \in Nat
  BY <1>2, TextFacts
<1>5. line' = Start(t, n) \o Rest(line, n) /\ inbox' = Rest(t, n)
  BY <1>3, <1>4 DEF ReadLines
<1>6. m # a - 1 /\ Size(a, k, m) >= LineChunks - k + 1
  <2>1. Size(a, k, m) # 0
    BY <1>3, <1>4, EmptySeq
  <2> QED
    BY <1>2, <2>1, LineProtocolAssumption DEF Span, Size
<1>7. n \in (LineChunks - k + 1)..Size(a, k, m) /\ n \in 1..Size(a, k, m) /\ n \in Nat
  BY <1>1, <1>4, <1>6, LineProtocolAssumption DEF Least
<1>8. Rest(line, n) \in Seq(Chunk)
  <2>1. line \in Seq(Chunk) /\ Len(line) \in Nat /\ \A i \in 1..Len(line) : line[i] \in Chunk
    BY LenProperties, ElementOfSeq DEF Types
  <2>2. \A i \in (n + 1)..Len(line) : line[i] \in Chunk
    BY <1>7, <2>1
  <2>3. n + 1 \in Int /\ Len(line) \in Int
    BY <1>7, <2>1
  <2> HIDE DEF n
  <2> QED
    BY <2>1, <2>2, <2>3, SubSeqProperties DEF Rest
<1> HIDE DEF n
<1>9. PICK b \in a..(m + 1), l \in 1..LineChunks :
         /\ Span(b, l, m) /\ Rest(t, n) = Text(b, l, m)
         /\ b = a <=> n <= LineChunks - k
  BY <1>2, <1>7, TextRest
<1>10. /\ b \in (a + 1)..(sent + 1) /\ b <= a + 2 /\ b \in 1..(sent + 1) /\ b \in Nat \ {0}
       /\ b <= sent + 1
  BY <1>1, <1>2, <1>7, <1>9, LineProtocolAssumption DEF Span
<1>11. Item(line') = Text(a, k, a)
  BY <1>2, <1>5, <1>6, <1>7, <1>8, FirstItem
<1>12. AllItems = produced /\ AllItems' = Append(produced, Text(a, k, a))
  BY <1>3, <1>11 DEF AllItems
<1>13. Situation(b, l, m, pcClient', sent', wire', inbox', pcServer')
  BY <1>2, <1>3, <1>5, <1>9, <1>10 DEF Situation
<1>14. Account(b, sent', AllItems', Credit(b, pcClient', sent', Len(answers'), pcServer'))
  <2> DEFINE credit == Credit(a, pcClient, sent, Len(answers), "read")
             c == Credit(b, pcClient, sent, Len(answers), "produce")
  <2>1. Acks(Len(answers)) \in Nat
    BY <1>2, CreditInt
  <2>2. credit \in Int /\ c \in Int
    BY <1>2, <1>10, CreditInt
  <2>3. c = credit + 1 - (b - a) /\ sent - a + 1 <= credit
    <3> DEFINE f == IF pcClient \in {"role", "fgets"} THEN 1 ELSE 0
               d == Acks(Len(answers))
    <3>1. f \in Nat /\ d \in Nat
      BY <2>1
    <3>2. credit = f + d + 0 + (sent - a + 1) /\ c = f + d + 1 + (sent - b + 1)
      BY DEF Credit
    <3> HIDE DEF f, d, c, credit
    <3> QED
      BY <1>2, <1>10, <3>1, <3>2
  <2>4. Account(a, sent, produced, credit)
    BY <1>1, <1>3, <1>12
  <2> HIDE DEF c, credit
  <2>5. Account(b, sent, Append(produced, Text(a, k, a)), c)
    BY <1>2, <1>10, <1>12, <2>2, <2>3, <2>4, AccountRead
  <2> QED
    BY <1>3, <1>12, <2>5 DEF c
<1>15. Types'
  <2>1. n \in 0..Len(t)
    BY <1>4, <1>7
  <2>2. Start(t, n) \in Seq(Chunk) /\ inbox' \in Seq(Chunk)
    BY <1>4, <1>5, <2>1, Split
  <2>3. line' \in Seq(Chunk)
    BY <1>5, <1>8, <2>2, Concat
  <2> QED
    BY <1>3, <2>2, <2>3 DEF Types
<1> QED
  BY <1>3, <1>10, <1>13, <1>14, <1>15 DEF Protocol

(* Every step keeps the invariant. *)
LEMMA StepInv == LineInv /\ [ProtocolNext]_protocolVars => LineInv'
<1> SUFFICES ASSUME Types, Protocol, [ProtocolNext]_protocolVars
             PROVE  Types' /\ Protocol'
  BY DEF LineInv
<1>1. CASE UNCHANGED protocolVars
  <2>1. UNCHANGED <<pcClient, sent, wire, inbox, pcServer, line, produced, answers>>
    BY <1>1 DEF protocolVars
  <2>2. AllItems' = AllItems
    BY <2>1, ItemsSame
  <2> QED
    BY <2>1, <2>2 DEF Types, Protocol
<1>2. CASE Client
  BY <1>2, WriteRoleInv, WriteLineInv, ReadOKInv, CloseSocketInv DEF Client
<1>3. CASE Arrive
  BY <1>3, ArriveInv
<1>4. CASE Server
  BY <1>4, ReadRoleInv, ReadLinesInv, EndOfStreamInv, ProduceInv, WriteOKInv DEF Server
<1> QED
  BY <1>1, <1>2, <1>3, <1>4 DEF ProtocolNext

(* The invariant of the line protocol. *)
LEMMA Invariance == ProtocolSpec => []LineInv
BY InitInv, StepInv, PTL DEF ProtocolSpec

-----------------------------------------------------------------------------
(* The properties *)

(* Items are the ends of lines, in order. *)
LEMMA Ordered == LineInv => ItemsInOrder
<1> SUFFICES ASSUME LineInv
             PROVE  ItemsInOrder
  OBVIOUS
<1>1. PICK a \in 1..(sent + 1), k \in 1..LineChunks, m \in 0..sent :
         /\ Situation(a, k, m, pcClient, sent, wire, inbox, pcServer)
         /\ Account(a, sent, AllItems, Credit(a, pcClient, sent, Len(answers), pcServer))
  BY DEF LineInv, Protocol
<1>2. LineEnds(a, AllItems)
  BY <1>1 DEF Account
<1>3. /\ produced \in Seq(Seq(Chunk)) /\ Len(produced) \in Nat /\ DOMAIN produced = 1..Len(produced)
      /\ sent \in Nat /\ sent <= MaxLines /\ MaxLines \in Nat
  BY LenProperties, LineProtocolAssumption DEF LineInv, Types
<1>4. \A i \in 1..Len(produced) : i \in 1..Len(AllItems) /\ AllItems[i] = produced[i]
  BY <1>3 DEF AllItems
<1>5. \A i \in 1..Len(produced) :
         \E n \in 1..MaxLines : \E j \in 1..LineChunks :
            produced[i] = SubSeq(LineText(n), j, LineChunks)
  <2> SUFFICES ASSUME NEW i \in 1..Len(produced)
               PROVE  \E n \in 1..MaxLines : \E j \in 1..LineChunks :
                         produced[i] = SubSeq(LineText(n), j, LineChunks)
    OBVIOUS
  <2>1. PICK n \in 1..(a - 1), j \in 1..LineChunks : produced[i] = Text(n, j, n)
    BY <1>2, <1>4 DEF LineEnds
  <2>2. n \in Nat \ {0} /\ n \in 1..MaxLines
    BY <1>3
  <2> QED
    BY <2>1, <2>2, TextOne
<1>6. \A i, j \in 1..Len(produced) : i < j => produced[i][1][1] < produced[j][1][1]
  BY <1>2, <1>4 DEF LineEnds
<1> QED
  BY <1>3, <1>5, <1>6 DEF ItemsInOrder

(* What was not read to its end is pending. *)
LEMMA Unread ==
    ASSUME Types, NEW a \in Nat, NEW k, NEW m,
           Situation(a, k, m, pcClient, sent, wire, inbox, pcServer),
           NEW n \in 1..sent, a <= n
    PROVE  \/ \E i \in DOMAIN inbox : inbox[i] = <<n, LineChunks>>
           \/ \E i \in DOMAIN wire : wire[i] = LineText(n)
<1>1. /\ Span(a, k, m) /\ m \in Nat /\ m <= sent /\ n \in Nat /\ sent \in Nat /\ k \in 1..LineChunks
      /\ LineChunks \in Nat /\ m <= a + 1
  BY LineProtocolAssumption DEF Situation, Span, Types
<1>2. /\ inbox \in Seq(Chunk) /\ wire \in Seq(Seq(Chunk)) /\ Len(inbox) \in Nat /\ Len(wire) \in Nat
      /\ DOMAIN inbox = 1..Len(inbox) /\ DOMAIN wire = 1..Len(wire)
  BY LenProperties DEF Types
<1>3. /\ Lines(m, sent) \in Seq(Seq(Chunk)) /\ Len(Lines(m, sent)) = sent - m
      /\ \A i \in 1..(sent - m) : Lines(m, sent)[i] = LineText(m + i)
  BY <1>1, LinesFacts
<1>4. /\ Text(a, k, m) \in Seq(Chunk) /\ Len(Text(a, k, m)) = Size(a, k, m)
      /\ Size(a, k, m) \in Nat
      /\ \A i \in 1..Size(a, k, m) :
           Text(a, k, m)[i] = IF i <= LineChunks - k + 1 THEN <<a, k + i - 1>>
                              ELSE <<a + 1, i - (LineChunks - k + 1)>>
  BY <1>1, TextFacts
<1>5. m < n => n - m \in 1..(sent - m) /\ Lines(m, sent)[n - m] = LineText(n)
  <2>1. m < n => n - m \in 1..(sent - m) /\ m + (n - m) = n
    BY <1>1
  <2> QED
    BY <1>3, <2>1
<1>6. ~(m < n) => \E i \in 1..Size(a, k, m) : Text(a, k, m)[i] = <<n, LineChunks>>
  <2> HAVE ~(m < n)
  <2>1. CASE n = a
    <3> DEFINE i == LineChunks - k + 1
    <3>1. i \in 1..Size(a, k, m) /\ i <= LineChunks - k + 1 /\ k + i - 1 = LineChunks
      BY <1>1, <2>1 DEF Size
    <3> QED
      BY <1>4, <2>1, <3>1
  <2>2. CASE n = a + 1
    <3> DEFINE i == 2 * LineChunks - k + 1
    <3>1. /\ i \in 1..Size(a, k, m) /\ ~(i <= LineChunks - k + 1)
          /\ i - (LineChunks - k + 1) = LineChunks
      BY <1>1, <2>2, LineProtocolAssumption DEF Size
    <3> QED
      BY <1>4, <2>2, <3>1
  <2> QED
    BY <1>1, <2>1, <2>2
<1>7. CASE pcServer # "role"
  <2>1. inbox = Text(a, k, m) /\ wire = Lines(m, sent)
    BY <1>7 DEF Situation
  <2> QED
    BY <1>2, <1>3, <1>4, <1>5, <1>6, <2>1
<1>8. CASE pcServer = "role" /\ m = 0 /\ wire = <<<<Role>>>> \o Lines(0, sent)
  <2>1. n \in 1..sent /\ Lines(0, sent)[n] = LineText(n)
    BY <1>1, <1>3, <1>8
  <2>2. /\ Len(wire) = 1 + sent
        /\ \A i \in 1..(1 + sent) :
              wire[i] = IF i <= 1 THEN <<<<Role>>>>[i] ELSE Lines(0, sent)[i - 1]
    <3> DEFINE s == <<<<Role>>>>
               t == Lines(0, sent)
    <3>1. s \in Seq(Seq(Chunk)) /\ Len(s) = 1 /\ t \in Seq(Seq(Chunk)) /\ Len(t) = sent
          /\ wire = s \o t
      BY <1>1, <1>3, <1>8, RoleText
    <3> HIDE DEF s, t
    <3>2. /\ Len(s \o t) = Len(s) + Len(t)
          /\ \A i \in 1..(Len(s) + Len(t)) :
                (s \o t)[i] = IF i <= Len(s) THEN s[i] ELSE t[i - Len(s)]
      BY <3>1, Concat
    <3>3. /\ Len(wire) = 1 + sent
          /\ \A i \in 1..(1 + sent) : wire[i] = IF i <= 1 THEN s[i] ELSE t[i - 1]
      BY <3>1, <3>2
    <3> QED
      BY <3>3 DEF s, t
  <2>3. n + 1 \in 1..(1 + sent) /\ ~(n + 1 <= 1) /\ (n + 1) - 1 = n
    BY <1>1
  <2>4. wire[n + 1] = LineText(n)
    BY <2>1, <2>2, <2>3
  <2> QED
    BY <1>2, <2>2, <2>3, <2>4
<1>9. CASE pcServer = "role" /\ inbox = <<Role>> \o Text(a, k, m) /\ wire = Lines(m, sent)
  <2> DEFINE s == <<Role>>
             t == Text(a, k, m)
  <2>1. s \in Seq(Chunk) /\ Len(s) = 1 /\ t \in Seq(Chunk) /\ Len(t) = Size(a, k, m)
    BY <1>4, RoleText
  <2>2. inbox = s \o t
    BY <1>9
  <2> HIDE DEF s, t
  <2>3. /\ Len(s \o t) = Len(s) + Len(t)
        /\ \A i \in 1..(Len(s) + Len(t)) : (s \o t)[i] = IF i <= Len(s) THEN s[i] ELSE t[i - Len(s)]
    BY <2>1, Concat
  <2>4. /\ Len(inbox) = 1 + Size(a, k, m)
        /\ \A i \in 1..(1 + Size(a, k, m)) : inbox[i] = IF i <= 1 THEN s[i] ELSE t[i - 1]
    BY <2>1, <2>2, <2>3
  <2>5. \A i \in 1..Size(a, k, m) :
           i + 1 \in 1..(1 + Size(a, k, m)) /\ ~(i + 1 <= 1) /\ (i + 1) - 1 = i
    BY <1>4
  <2>6. \A i \in 1..Size(a, k, m) : i + 1 \in DOMAIN inbox /\ inbox[i + 1] = Text(a, k, m)[i]
    BY <1>2, <2>4, <2>5 DEF t
  <2>7. CASE m < n
    BY <1>2, <1>3, <1>5, <1>9, <2>7
  <2>8. CASE ~(m < n)
    BY <1>6, <2>6, <2>8
  <2> QED
    BY <2>7, <2>8
<1>10. pcServer = "role" =>
          \/ m = 0 /\ wire = <<<<Role>>>> \o Lines(0, sent)
          \/ inbox = <<Role>> \o Text(a, k, m) /\ wire = Lines(m, sent)
  <2>1. sent # 0
    BY <1>1
  <2> QED
    BY <2>1 DEF Situation
<1> QED
  BY <1>7, <1>8, <1>9, <1>10

(* All lines but one are pending or in an item.                              *)
LEMMA OneLost == RoleRoom < LineChunks /\ LineInv => AtMostOneLost
<1> SUFFICES ASSUME RoleRoom < LineChunks, LineInv
             PROVE  AtMostOneLost
  OBVIOUS
<1>1. PICK a \in 1..(sent + 1), k \in 1..LineChunks, m \in 0..sent :
         /\ Situation(a, k, m, pcClient, sent, wire, inbox, pcServer)
         /\ Account(a, sent, AllItems, Credit(a, pcClient, sent, Len(answers), pcServer))
  BY DEF LineInv, Protocol
<1>2. /\ a \in Nat /\ LineEnds(a, AllItems) /\ sent \in Nat
  BY <1>1, LineProtocolAssumption DEF Account, LineInv, Types
<1>3. PICK x \in 0..sent :
         \A n \in 1..(a - 1) : n = x \/ \E i \in 1..Len(AllItems) : AllItems[i][1][1] = n
  BY <1>1 DEF Account, Loses
<1>4. ASSUME NEW n \in 1..sent, n # x
      PROVE  Pending(n) \/ Produced(n)
  <2>1. CASE a <= n
    BY <1>1, <1>2, <2>1, Unread DEF LineInv, Pending
  <2>2. CASE ~(a <= n)
    <3>1. n \in 1..(a - 1)
      BY <1>2, <2>2
    <3>2. PICK i \in 1..Len(AllItems) : AllItems[i][1][1] = n
      BY <1>3, <1>4, <3>1
    <3>3. AllItems[i] \in Seq(Chunk) /\ Len(AllItems[i]) \in Nat \ {0}
      BY <1>2, ItemOf
    <3>4. 1 \in DOMAIN AllItems[i]
      BY <3>3, LenProperties
    <3>5. /\ produced \in Seq(Seq(Chunk)) /\ Len(produced) \in Nat
          /\ DOMAIN produced = 1..Len(produced)
      BY LenProperties DEF LineInv, Types
    <3>6. \/ i \in DOMAIN produced /\ AllItems[i] = produced[i]
          \/ pcServer = "produce" /\ AllItems[i] = Item(line)
      BY <3>5 DEF AllItems
    <3> QED
      BY <3>2, <3>4, <3>6 DEF Pending, Produced
  <2> QED
    BY <2>1, <2>2
<1>5. Lost \subseteq {x}
  BY <1>4 DEF Lost
<1>6. IsFiniteSet({x}) /\ Cardinality({x}) = 1
  BY FS_Singleton
<1>7. Cardinality(Lost) <= Cardinality({x}) /\ Cardinality(Lost) \in Nat
  BY <1>5, <1>6, FS_Subset, FS_CardinalityType
<1> QED
  BY <1>6, <1>7 DEF AtMostOneLost

(* ItemsInOrder of the child of pr_9: for lines of any length and any number *)
(* of them, and however much of a line is read with the role, an item is the *)
(* end of one line, and the items keep the order of the client's file.       *)
THEOREM ItemsAreLines == ProtocolSpec => []ItemsInOrder
BY Invariance, Ordered, PTL

(* AtMostOneLost of a client whose first line does not fit into role[16]     *)
(* behind the role: the newline that is left of the prompt costs one line at *)
(* most, however long the file is.                                           *)
THEOREM OneLineLost == RoleRoom < LineChunks => (ProtocolSpec => []AtMostOneLost)
<1> SUFFICES ASSUME RoleRoom < LineChunks
             PROVE  ProtocolSpec => []AtMostOneLost
  OBVIOUS
<1>1. LineInv => AtMostOneLost
  BY OneLost
<1> QED
  BY <1>1, Invariance, PTL

-----------------------------------------------------------------------------
(* PART 2: STAGE CHAIN *)

-----------------------------------------------------------------------------
(* The invariant *)

Spots == {"none", "pipe", "fork", "forked", "run", "end", "exited", "killed"}
Messages == Seq(Nat)
Senders == Source..(LastChild - 1)
Late == {"end", "exited", "killed"}

(* The pipe a process writes, the ends it leaves open. *)
Feed == [p \in Procs |-> Out(p)]
Own == [p \in Procs |-> OwnEnds(p)]

(* Where the processes are, what they hold, and the type of every message. *)
DataTypes ==
    /\ content \in [Pipes -> Seq(Messages)]
    /\ hand \in [Procs -> Seq(Messages)]
    /\ \A p \in Procs : hand[p] # <<>> => p \in Senders /\ Len(hand[p]) = 1
    /\ memory \in [Procs -> Seq(Nat)]
    /\ printed \in Seq(Messages)
    /\ lost \in [Procs -> SUBSET Nat]
ChainTypes ==
    /\ program \in Programs /\ failures \in Nat /\ DataTypes
    /\ at \in [Procs -> Spots] /\ index \in 0..LastChild
    /\ holds \subseteq Procs \X Pipes \X {"r", "w"}
    /\ at[Main] # "none" /\ \A c \in Children : at[c] \notin {"pipe", "fork"}
    /\ program = "cv_4" => at[Main] # "end"

(* A process forked but not yet started has all pipe ends, one that runs     *)
(* its own.                                                                  *)
ChainEnds ==
    \A p \in Procs, q \in Pipes, d \in {"r", "w"} :
        <<p, q, d>> \in holds <=> \/ at[p] \in {"fork", "forked"}
                                  \/ at[p] \in {"run", "end"} /\ <<q, d>> \in Own[p]

(* Children are forked in order. *)
ChainForked ==
    /\ at[Main] = "pipe" => index = 0 /\ \A c \in Children : at[c] = "none"
    /\ at[Main] = "fork" => \A c \in Children : at[c] = "none" <=> c >= index
    /\ at[Main] \notin {"pipe", "fork"} /\ (failures = 0 \/ at[Main] \notin Ended) =>
          \A c \in Children : at[c] # "none"

(* "END" is the last message of a pipe, and its writer has nothing left then. *)
NoEnd(s) == \A i \in 1..Len(s) : s[i] # END
EndRight(g, s, h, a) ==
    /\ \A i \in 1..(Len(s) - 1) : s[i] # END
    /\ h # <<>> \/ g = "pr_4" \/ a \notin Late => NoEnd(s)
    /\ g = "pr_4" \/ a \notin Late => NoEnd(h)
    /\ g = "pr_4" /\ a = "end" => h = <<>>
    /\ a = "end" /\ h # <<>> => h = <<END>>
EndLast == \A p \in Senders : EndRight(program, content[Feed[p]], hand[p], at[p])

(* While nothing fails, a process is past its input only when the process    *)
(* before it has sent everything.                                            *)
Done(g, s, h, a) ==
    /\ a \in {"end", "exited"} /\ h = <<>>
    /\ g = "cv_4" => s = <<END>>
    /\ g = "pr_4" => a = "exited" /\ s = <<>>
EndSent(s) == s # <<>> /\ s[Len(s)] = END
Alive ==
    failures = 0 =>
        /\ \A p \in Procs : at[p] # "killed" /\ (at[p] = "exited" => hand[p] = <<>>)
        /\ at[Source] \in {"end", "exited"} => Len(memory[Source]) = Items
        /\ \A p \in Senders :
              /\ at[p + 1] \in {"end", "exited"} =>
                    Done(program, content[Feed[p]], hand[p], at[p])
              /\ program = "cv_4" /\ at[p] \in {"end", "exited"} /\ hand[p] = <<>> =>
                    EndSent(content[Feed[p]])

-----------------------------------------------------------------------------
(* Sequences *)

(* One more element at the end. *)
LEMMA Appended ==
    ASSUME NEW S, NEW s \in Seq(S), NEW e \in S
    PROVE  /\ Append(s, e) \in Seq(S) /\ Len(Append(s, e)) = Len(s) + 1 /\ Len(s) \in Nat
           /\ Append(s, e)[Len(s) + 1] = e
           /\ \A k \in 1..Len(s) : Append(s, e)[k] = s[k]
           /\ \A k \in 1..(Len(s) + 1) : k \in 1..Len(s) \/ k = Len(s) + 1
BY AppendProperties, LenProperties

(* What is left behind the first t elements. *)
LEMMA Behind ==
    ASSUME NEW S, NEW s \in Seq(S), NEW t \in 0..Len(s)
    PROVE  LET r == SubSeq(s, t + 1, Len(s)) IN
           /\ r \in Seq(S) /\ Len(r) = Len(s) - t /\ Len(s) \in Nat
           /\ \A k \in 1..(Len(s) - t) : r[k] = s[t + k] /\ t + k \in 1..Len(s)
<1>1. Len(s) \in Nat /\ t \in Nat
  BY LenProperties
<1>2. /\ SubSeq(s, t + 1, Len(s)) \in Seq(S)
      /\ Len(SubSeq(s, t + 1, Len(s))) = IF t + 1 <= Len(s) THEN Len(s) - (t + 1) + 1 ELSE 0
      /\ \A k \in 1..(Len(s) - (t + 1) + 1) : SubSeq(s, t + 1, Len(s))[k] = s[t + 1 + k - 1]
  BY <1>1, SubSeqProperties
<1>3. \A k \in 1..(Len(s) - t) : t + 1 + k - 1 = t + k /\ t + k \in 1..Len(s)
  BY <1>1
<1>4. Len(s) - (t + 1) + 1 = Len(s) - t
  BY <1>1
<1>5. Len(SubSeq(s, t + 1, Len(s))) = Len(s) - t
  BY <1>1, <1>2
<1>6. ASSUME NEW k \in 1..(Len(s) - t)
      PROVE  SubSeq(s, t + 1, Len(s))[k] = s[t + k] /\ t + k \in 1..Len(s)
  <2>1. k \in 1..(Len(s) - (t + 1) + 1)
    BY <1>4
  <2>2. t + 1 + k - 1 = t + k /\ t + k \in 1..Len(s)
    BY <1>3
  <2> QED
    BY <1>2, <2>1, <2>2
<1> QED
  BY <1>1, <1>2, <1>5, <1>6

(* Sequences of one element. *)
LEMMA One ==
    ASSUME NEW S, NEW e \in S
    PROVE  <<e>> \in Seq(S) /\ Len(<<e>>) = 1 /\ <<e>>[1] = e /\ <<e>> # <<>> /\ Head(<<e>>) = e
OBVIOUS

(* The first element of a sequence. *)
LEMMA NotEmpty ==
    ASSUME NEW S, NEW s \in Seq(S), s # <<>>
    PROVE  /\ Len(s) \in Nat /\ Len(s) >= 1 /\ 1 \in 1..Len(s)
           /\ Head(s) = s[1] /\ s[1] \in S
<1>1. Len(s) \in Nat /\ Len(s) # 0
  BY EmptySeq, LenProperties
<1>2. 1 \in 1..Len(s) /\ Head(s) = s[1]
  BY <1>1, HeadTailProperties
<1> QED
  BY <1>1, <1>2, ElementOfSeq

-----------------------------------------------------------------------------
(* The shape of the two chains *)

(* There are two programs. *)
LEMMA Kinds == ChainTypes => program \in {"cv_4", "pr_4"}
BY StageChainAssumption DEF ChainTypes, DataTypes

(* Who writes to whom: every process but the last child writes the pipe      *)
(* that its right neighbour reads.                                           *)
LEMMA Shape ==
    ASSUME program \in {"cv_4", "pr_4"}
    PROVE  /\ Main \in Procs /\ Main \notin Children /\ Procs \in SUBSET Int
           /\ LastChild \in Children /\ LastChild \in Nat /\ 0 \in Children
           /\ Source \in Procs /\ LastChild # Source /\ LastChild \notin Senders
           /\ Source \in Senders /\ Senders \subseteq Procs /\ Children = Procs \ {Main}
           /\ \A c \in Children : c \in Nat /\ c <= LastChild
           /\ \A p \in Senders : /\ p \in Procs /\ Feed[p] = Out(p) /\ Feed[p] \in Pipes
                                 /\ p + 1 \in Children /\ p + 1 \in Procs /\ p + 1 # Source
                                 /\ In(p + 1) = Feed[p] /\ p + 1 # p
                                 /\ p + 1 \in Senders \/ p + 1 = LastChild
           /\ \A c \in Children : c # Source => c - 1 \in Senders /\ (c - 1) + 1 = c
                                                /\ In(c) = Feed[c - 1] /\ In(c) \in Pipes
           /\ \A p, r \in Senders : Feed[p] = Feed[r] => p = r
           /\ \A p \in Procs \ Senders : p = LastChild \/ (p = Main /\ program = "cv_4")
           /\ program = "cv_4" => Source = 0 /\ LastChild = 4
           /\ program = "pr_4" => Source = Main /\ LastChild = 2
<1>1. CASE program = "cv_4"
  BY <1>1 DEF Main, Procs, Children, LastChild, Source, Senders, Feed, Out, In, Pipes
<1>2. CASE program = "pr_4"
  BY <1>2 DEF Main, Procs, Children, LastChild, Source, Senders, Feed, Out, In, Pipes
<1> QED
  BY <1>1, <1>2

(* The same for one writer, with what is in its pipe and in its hand. *)
LEMMA Link ==
    ASSUME ChainTypes, NEW p \in Senders
    PROVE  /\ p \in Procs /\ p \in Int /\ Out(p) \in Pipes /\ Feed[p] \in Pipes
           /\ Feed[p] = Out(p)
           /\ p + 1 \in Children /\ p + 1 \in Procs /\ p + 1 # Source /\ In(p + 1) = Out(p)
           /\ p + 1 \in Senders \/ p + 1 = LastChild
           /\ content[Out(p)] \in Seq(Messages) /\ hand[p] \in Seq(Messages)
<1>1. p \in Procs /\ p \in Int
  BY Kinds, Shape
<1>2. Feed[p] = Out(p) /\ Feed[p] \in Pipes
  BY Kinds, Shape
<1>3. /\ p + 1 \in Children /\ p + 1 \in Procs /\ p + 1 # Source /\ In(p + 1) = Feed[p]
      /\ p + 1 \in Senders \/ p + 1 = LastChild
  BY Kinds, Shape
<1> QED
  BY <1>1, <1>2, <1>3 DEF ChainTypes, DataTypes

(* A run keeps its program, so its processes and pipes too. *)
LEMMA Onwards ==
    ASSUME [Next]_vars
    PROVE  /\ program' = program /\ Procs' = Procs /\ Children' = Children /\ Pipes' = Pipes
           /\ LastChild' = LastChild /\ Source' = Source /\ Senders' = Senders
           /\ Feed' = Feed /\ Own' = Own
<1>1. program' = program
  BY DEF Next, Running, MakePipes, Fork, Wait, Process, CloseOthers, Generate, Read,
         EndOfInput, Write, BrokenPipe, Exit, Kill, vars
<1>2. LastChild' = LastChild /\ Source' = Source /\ Pipes' = Pipes
  BY <1>1 DEF LastChild, Source, Pipes
<1>3. Children' = Children /\ Senders' = Senders
  BY <1>2 DEF Children, Senders
<1>4. Procs' = Procs
  BY <1>3 DEF Procs, Main
<1>5. Feed' = Feed
  BY <1>1, <1>4 DEF Feed, Out, In
<1>6. Own' = Own
  BY <1>1, <1>2, <1>4 DEF Own, OwnEnds, In, Out, Main
<1> QED
  BY <1>1, <1>2, <1>3, <1>4, <1>5, <1>6

-----------------------------------------------------------------------------
(* Where the processes are and the ends they have open *)

(* How a step moves the processes: the pipes are made, a child is forked,    *)
(* the parent waits for the next, a process closes the ends of others, sees  *)
(* the end of its input, or is gone; any other step moves none.              *)
Made ==
    /\ at[Main] = "pipe" /\ at' = [at EXCEPT ![Main] = "fork"]
    /\ holds' = {Main} \X Pipes \X {"r", "w"} /\ UNCHANGED <<index, failures>>
Forking ==
    /\ at[Main] = "fork" /\ UNCHANGED failures
    /\ holds' = holds \cup {<<index, e[2], e[3]>> : e \in EndsOf(Main)}
    /\ at' = [at EXCEPT ![index] = "forked",
                        ![Main] = IF index = LastChild THEN "forked" ELSE @]
    /\ index' = IF index = LastChild THEN 0 ELSE index + 1
Waited ==
    /\ at[Main] = "run" /\ index' \in 0..LastChild
    /\ UNCHANGED <<at, holds, failures>>
Closed(p) ==
    /\ at[p] = "forked" /\ at' = [at EXCEPT ![p] = "run"]
    /\ holds' = holds \ {e \in EndsOf(p) : <<e[2], e[3]>> \notin OwnEnds(p)}
    /\ UNCHANGED <<index, failures>>
SawEnd(p) ==
    /\ at[p] = "run" /\ at' = [at EXCEPT ![p] = "end"]
    /\ p = Main => program = "pr_4"
    /\ hand[p] = <<>> /\ AtEnd(p)
    /\ hand' = IF program = "cv_4" /\ p # LastChild
               THEN [hand EXCEPT ![p] = <<END>>] ELSE hand
    /\ UNCHANGED <<holds, index, failures, content, memory, printed, lost>>
Gone(p, how) ==
    /\ at[p] \notin {"none"} \cup Ended /\ Leave(p, how) /\ UNCHANGED index
    /\ \/ failures' = failures + 1
       \/ failures' = failures /\ how = "exited" /\ hand[p] = <<>>
             /\ (at[p] = "end" \/ (p = Main /\ at[p] = "run" /\ program = "cv_4"))
       \/ failures' = failures /\ how = "killed" /\ hand[p] # <<>>
             /\ at[p] \in {"run", "end"} /\ Readers(Out(p)) = {}
Still == UNCHANGED <<at, holds, index, failures>>

(* Every step is one of these moves. *)
LEMMA Moves ==
    ASSUME ChainTypes, [Next]_vars
    PROVE  \/ Made \/ Forking \/ Waited \/ Still
           \/ \E p \in Procs : Closed(p) \/ SawEnd(p) \/ \E how \in Ended : Gone(p, how)
<1>0. program \in {"cv_4", "pr_4"}
  BY Kinds
<1>1. CASE MakePipes \/ Fork
  <2>1. Main \in Procs
    BY <1>0, Shape
  <2> QED
    BY <1>1, <2>1 DEF MakePipes, Fork, Fail, Made, Forking, Gone, Ended
<1>2. CASE Wait
  <2>1. Main \in Procs /\ (hand[Main] # <<>> => Main \in Senders) /\ Source = 0
    BY <1>0, <1>2, Shape DEF ChainTypes, DataTypes, Wait
  <2>2. hand[Main] = <<>>
    BY <2>1 DEF Senders, Main
  <2>3. index # LastChild => index + 1 \in 0..LastChild
    BY <1>0, Shape DEF ChainTypes, DataTypes
  <2> QED
    BY <1>2, <2>1, <2>2, <2>3 DEF Wait, Gone, Ended, Waited, ChainTypes, DataTypes
<1>3. ASSUME NEW p \in Procs, Process(p)
      PROVE  \/ Still \/ Closed(p) \/ SawEnd(p) \/ \E how \in Ended : Gone(p, how)
  <2>1. CASE CloseOthers(p)
    BY <2>1 DEF CloseOthers, Closed
  <2>2. CASE EndOfInput(p)
    <3>1. p = Main => program = "pr_4"
      BY <1>0, <2>2, Shape DEF EndOfInput, AtEnd, Main
    <3> QED
      BY <2>2, <3>1 DEF EndOfInput, SawEnd, pipes
  <2>3. CASE BrokenPipe(p) \/ Exit(p)
    BY <2>3 DEF BrokenPipe, Exit, Gone, Ended
  <2>4. CASE Generate(p) \/ Read(p) \/ Write(p)
    BY <2>4 DEF Generate, Read, Write, Still, pipes
  <2> QED
    BY <1>3, <2>1, <2>2, <2>3, <2>4 DEF Process
<1>4. ASSUME NEW p \in Procs, Kill(p)
      PROVE  \E how \in Ended : Gone(p, how)
  BY <1>4 DEF Kill, Fail, Gone, Ended
<1>5. CASE UNCHANGED vars
  BY <1>5 DEF vars, Still, pipes
<1> QED
  BY <1>1, <1>2, <1>3, <1>4, <1>5 DEF Next, Running

(* The types hold before the first pipe is made. *)
LEMMA InitTypes == Init => ChainTypes
<1> SUFFICES ASSUME Init PROVE ChainTypes
  OBVIOUS
<1>1. program \in {"cv_4", "pr_4"}
  BY StageChainAssumption DEF Init
<1>2. <<>> \in Seq(Messages) /\ <<>> \in Seq(Nat)
  BY EmptySeq
<1>3. 0 \in 0..LastChild /\ Main \in Procs /\ \A c \in Children : c # Main /\ c \in Procs
  BY <1>1, Shape
<1>4. hand \in [Procs -> Seq(Messages)] /\ memory \in [Procs -> Seq(Nat)]
      /\ lost \in [Procs -> SUBSET Nat] /\ content \in [Pipes -> Seq(Messages)]
  BY <1>2 DEF Init
<1>5. at \in [Procs -> Spots] /\ at[Main] # "none" /\ at[Main] # "end"
      /\ \A c \in Children : at[c] \notin {"pipe", "fork"}
  BY <1>3 DEF Init, Spots
<1>6. \A p \in Procs : hand[p] = <<>>
  BY DEF Init
<1> QED
  BY <1>2, <1>3, <1>4, <1>5, <1>6 DEF Init, ChainTypes, DataTypes

(* A move keeps the types of places and pipe ends. *)
LEMMA StepMoves ==
    ASSUME ChainTypes, [Next]_vars
    PROVE  /\ at' \in [Procs -> Spots] /\ index' \in 0..LastChild /\ failures' \in Nat
           /\ holds' \subseteq Procs \X Pipes \X {"r", "w"}
           /\ at'[Main] # "none" /\ \A c \in Children : at'[c] \notin {"pipe", "fork"}
           /\ program = "cv_4" => at'[Main] # "end"
<1>0. /\ program \in {"cv_4", "pr_4"} /\ Main \in Procs /\ index \in 0..LastChild
      /\ 0..LastChild = Children /\ Children \subseteq Procs /\ Main \notin Children
      /\ LastChild \in Nat
  BY Kinds, Shape DEF ChainTypes, DataTypes, Children
<1>1. CASE Made
  BY <1>0, <1>1 DEF Made, ChainTypes, DataTypes, Spots
<1>2. CASE Forking
  <2>1. index' \in 0..LastChild
    BY <1>0, <1>2 DEF Forking
  <2>2. holds' \subseteq Procs \X Pipes \X {"r", "w"}
    <3>1. \A e \in EndsOf(Main) : e[2] \in Pipes /\ e[3] \in {"r", "w"}
      BY DEF EndsOf, ChainTypes, DataTypes
    <3> QED
      BY <1>0, <1>2, <3>1 DEF Forking, ChainTypes, DataTypes
  <2>3. at' \in [Procs -> Spots]
    BY <1>0, <1>2 DEF Forking, ChainTypes, DataTypes, Spots
  <2>4. /\ at'[Main] \in {"fork", "forked"}
        /\ \A c \in Children : at'[c] = at[c] \/ at'[c] = "forked"
    BY <1>0, <1>2 DEF Forking, ChainTypes, DataTypes
  <2> QED
    BY <1>2, <2>1, <2>2, <2>3, <2>4 DEF Forking, ChainTypes, DataTypes
<1>3. CASE Waited \/ Still
  BY <1>3 DEF Waited, Still, ChainTypes, DataTypes
<1>4. ASSUME NEW p \in Procs, Closed(p) \/ SawEnd(p)
      PROVE  /\ at' \in [Procs -> Spots] /\ at'[Main] # "none"
             /\ \A c \in Children : at'[c] \notin {"pipe", "fork"}
             /\ program = "cv_4" => at'[Main] # "end"
             /\ holds' \subseteq holds /\ index' = index /\ failures' = failures
  BY <1>0, <1>4 DEF Closed, SawEnd, ChainTypes, DataTypes, Spots
<1>5. ASSUME NEW p \in Procs, NEW how \in Ended, Gone(p, how)
      PROVE  /\ at' \in [Procs -> Spots] /\ at'[Main] # "none"
             /\ \A c \in Children : at'[c] \notin {"pipe", "fork"}
             /\ program = "cv_4" => at'[Main] # "end"
             /\ holds' \subseteq holds /\ index' = index /\ failures' \in Nat
  BY <1>0, <1>5 DEF Gone, Leave, ChainTypes, DataTypes, Spots, Ended
<1> QED
  <2>1. (\E p \in Procs : Closed(p) \/ SawEnd(p) \/ \E how \in Ended : Gone(p, how)) =>
           /\ at' \in [Procs -> Spots] /\ at'[Main] # "none"
           /\ \A c \in Children : at'[c] \notin {"pipe", "fork"}
           /\ program = "cv_4" => at'[Main] # "end"
           /\ holds' \subseteq holds /\ index' = index /\ failures' \in Nat
    BY <1>4, <1>5 DEF ChainTypes, DataTypes
  <2> QED
    BY <1>1, <1>2, <1>3, <2>1, Moves DEF ChainTypes, DataTypes

(* What a reader takes and makes of a message. *)
LEMMA TakenSome ==
    ASSUME ChainTypes, NEW p \in Children, p # Source, content[In(p)] # <<>>
    PROVE  /\ Taken(p) \in 1..Len(content[In(p)])
           /\ program = "cv_4" => Taken(p) = 1
           /\ program = "pr_4" => Taken(p) = Len(content[In(p)])
<1>1. program \in {"cv_4", "pr_4"} /\ In(p) \in Pipes
  BY Kinds, Shape
<1>2. content[In(p)] \in Seq(Messages)
  BY <1>1 DEF ChainTypes, DataTypes
<1> DEFINE n == Len(content[In(p)])
<1>3. n \in Nat /\ n >= 1
  BY <1>2, NotEmpty
<1>4. Room(In(p)) \div Frame(In(p)) = 1
  BY DEF Room, Frame, BUFFER_SIZE
<1>5. Min({n, 1}) = 1
  <2>1. 1 \in {n, 1} /\ \A y \in {n, 1} : 1 <= y
    BY <1>3
  <2>2. \A x \in {n, 1} : (\A y \in {n, 1} : x <= y) => x = 1
    BY <1>3
  <2> HIDE DEF n
  <2> QED
    BY <2>1, <2>2 DEF Min
<1>6. program = "cv_4" => Taken(p) = Min({n, 1})
  BY <1>4 DEF Taken
<1>7. program = "pr_4" => Taken(p) = n
  BY DEF Taken
<1> HIDE DEF n
<1> QED
  BY <1>1, <1>3, <1>5, <1>6, <1>7 DEF n

(* What a child makes of a message: one to write or none, never "END". *)
LEMMA ResultTypes ==
    ASSUME ChainTypes, NEW p \in Children, NEW m \in Messages, m # END
    PROVE  /\ Result(p, m) \in Seq(Messages) /\ Len(Result(p, m)) \in {0, 1}
           /\ Result(p, m) = <<>> \/ Result(p, m) = <<Result(p, m)[1]>>
           /\ \A i \in 1..Len(Result(p, m)) : Result(p, m)[i] # END
           /\ p = LastChild => Result(p, m) = <<>>
           /\ Remembered(p, m) \in Seq(Nat)
<1>0. p \in Procs /\ memory[p] \in Seq(Nat) /\ Len(memory[p]) + 1 \in Nat /\ m[1] \in Nat
  <2>1. p \in Procs
    BY DEF Procs
  <2>2. memory[p] \in Seq(Nat)
    BY <2>1 DEF ChainTypes, DataTypes
  <2>3. m[1] \in Nat
    BY NotEmpty DEF Messages, END
  <2> QED
    BY <2>1, <2>2, <2>3, LenProperties
<1>1. Append(m, Len(memory[p]) + 1) \in Messages /\ Append(m, Len(memory[p]) + 1) # END
  BY <1>0, Appended, LenProperties DEF Messages, END
<1>2. memory[p] \o m \in Messages /\ memory[p] \o m # END
  BY <1>0, ConcatProperties, NotEmpty, LenProperties DEF Messages, END
<1>3. Append(memory[p], m[1]) \in Seq(Nat)
  BY <1>0, Appended
<1>4. \/ Result(p, m) = <<>>
      \/ p # LastChild /\ \E r \in Messages : r # END /\ Result(p, m) = <<r>>
  <2>1. CASE p = LastChild
    <3>1. ~(program = "pr_4" /\ p = 0) /\ ~(program = "cv_4" /\ p = 1)
          /\ ~(program = "cv_4" /\ p = 3)
      BY <2>1 DEF LastChild
    <3> QED
      BY <2>1, <3>1 DEF Result
  <2>2. CASE p # LastChild /\ program = "pr_4" /\ p = 0
    BY <1>1, <2>2 DEF Result
  <2>3. CASE p # LastChild /\ program = "cv_4" /\ p = 1 /\ m[1] \notin Kept
    BY <2>3 DEF Result
  <2>4. CASE p # LastChild /\ program = "cv_4" /\ p = 3
    <3>1. Result(p, m) = <<memory[p] \o m>>
      BY <2>4 DEF Result
    <3> QED
      BY <1>2, <2>4, <3>1
  <2>5. CASE /\ p # LastChild /\ ~(program = "pr_4" /\ p = 0)
             /\ ~(program = "cv_4" /\ p = 1 /\ m[1] \notin Kept)
             /\ ~(program = "cv_4" /\ p = 3)
    BY <2>5 DEF Result
  <2> QED
    BY <2>1, <2>2, <2>3, <2>4, <2>5
<1>5. ASSUME NEW r \in Messages, r # END, Result(p, m) = <<r>>
      PROVE  /\ Result(p, m) \in Seq(Messages) /\ Len(Result(p, m)) = 1
             /\ Result(p, m) = <<Result(p, m)[1]>>
             /\ \A i \in 1..Len(Result(p, m)) : Result(p, m)[i] # END
  BY <1>5, One
<1>6. <<>> \in Seq(Messages) /\ Len(<<>>) = 0 /\ 1..0 = {}
  BY EmptySeq
<1> HIDE DEF END
<1> QED
  BY <1>0, <1>3, <1>4, <1>5, <1>6 DEF Remembered

(* Only four actions of a process touch messages. *)
LEMMA Work ==
    ASSUME [Next]_vars
    PROVE  \/ UNCHANGED <<content, hand, memory, printed, lost>>
           \/ \E p \in Procs : Generate(p) \/ Read(p) \/ EndOfInput(p) \/ Write(p)
BY DEF Next, Running, Process, MakePipes, Fork, Wait, CloseOthers, BrokenPipe, Exit, Kill,
       data, vars, pipes

(* A read of a child by its parts. *)
LEMMA ReadFacts ==
    ASSUME ChainTypes, NEW p \in Children, Read(p)
    PROVE  LET q == content[In(p)]
               t == Taken(p)
           IN /\ p # Source /\ In(p) \in Pipes /\ q \in Seq(Messages) /\ t \in 1..Len(q)
              /\ Len(q) \in Nat /\ q # <<>> /\ Head(q) = q[1] /\ q[1] \in Messages /\ q[1] # END
              /\ q[1][1] \in Nat /\ p \in Procs /\ p - 1 \in Senders /\ In(p) = Feed[p - 1]
              /\ hand[p] = <<>> /\ at[p] = "run"
              /\ hand' = [hand EXCEPT ![p] = Result(p, q[1])]
              /\ memory' = [memory EXCEPT ![p] = Remembered(p, q[1])]
              /\ printed' = IF p = LastChild THEN Append(printed, q[1]) ELSE printed
              /\ content' = [content EXCEPT ![In(p)] = SubSeq(q, t + 1, Len(q))]
              /\ lost' = [lost EXCEPT ![p] =
                            @ \cup {q[i][1] : i \in {j \in 2..t : q[j] # END}}]
<1>1. /\ p # Source /\ content[In(p)] # <<>> /\ Head(content[In(p)]) # END
      /\ hand[p] = <<>> /\ at[p] = "run"
      /\ LET q == content[In(p)]
             m == Head(q)
         IN /\ hand' = [hand EXCEPT ![p] = Result(p, m)]
            /\ memory' = [memory EXCEPT ![p] = Remembered(p, m)]
            /\ printed' = IF p = LastChild THEN Append(printed, m) ELSE printed
            /\ content' = [content EXCEPT ![In(p)] = SubSeq(q, Taken(p) + 1, Len(q))]
            /\ lost' = [lost EXCEPT ![p] = @ \cup
                           {q[i][1] : i \in {j \in 2..Taken(p) : q[j] # END}}]
  BY DEF Read
<1>2. /\ In(p) \in Pipes /\ p \in Procs /\ p - 1 \in Senders /\ In(p) = Feed[p - 1]
  BY <1>1, Kinds, Shape
<1>3. Taken(p) \in 1..Len(content[In(p)])
  BY <1>1, TakenSome
<1>4. content[In(p)] \in Seq(Messages)
  BY <1>2 DEF ChainTypes, DataTypes
<1> DEFINE q == content[In(p)]
           t == Taken(p)
<1>5. Len(q) \in Nat /\ Head(q) = q[1] /\ q[1] \in Messages
  BY <1>1, <1>4, NotEmpty
<1>6. q[1] # END
  BY <1>1, <1>5
<1>7. q[1][1] \in Nat
  BY <1>5, <1>6, NotEmpty DEF Messages, END
<1>8. /\ hand' = [hand EXCEPT ![p] = Result(p, q[1])]
      /\ memory' = [memory EXCEPT ![p] = Remembered(p, q[1])]
      /\ printed' = IF p = LastChild THEN Append(printed, q[1]) ELSE printed
      /\ content' = [content EXCEPT ![In(p)] = SubSeq(q, t + 1, Len(q))]
      /\ lost' = [lost EXCEPT ![p] = @ \cup {q[i][1] : i \in {j \in 2..t : q[j] # END}}]
  BY <1>1, <1>5
<1> HIDE DEF q, t
<1>9. /\ content[In(p)] = q /\ Taken(p) = t
  BY DEF q, t
<1> QED
  BY <1>1, <1>2, <1>3, <1>4, <1>5, <1>6, <1>7, <1>8, <1>9

(* Messages keep their types, and a hand holds one at most. *)
LEMMA StepData == ChainTypes /\ [Next]_vars => DataTypes'
<1> SUFFICES ASSUME ChainTypes, [Next]_vars PROVE DataTypes'
  OBVIOUS
<1>0. /\ content \in [Pipes -> Seq(Messages)] /\ hand \in [Procs -> Seq(Messages)]
      /\ \A p \in Procs : hand[p] # <<>> => p \in Senders /\ Len(hand[p]) = 1
      /\ memory \in [Procs -> Seq(Nat)] /\ printed \in Seq(Messages)
      /\ lost \in [Procs -> SUBSET Nat]
      /\ program \in {"cv_4", "pr_4"} /\ Source \in Senders /\ LastChild \notin Senders
  BY Kinds, Shape DEF ChainTypes, DataTypes
<1>1. CASE UNCHANGED <<content, hand, memory, printed, lost>>
  BY <1>0, <1>1, Onwards DEF DataTypes
<1>2. ASSUME NEW p \in Procs, Generate(p) PROVE DataTypes'
  <2> DEFINE k == Len(memory[p]) + 1
             m == <<k>>
  <2>1. /\ p = Source /\ memory' = [memory EXCEPT ![p] = Append(@, k)]
        /\ hand' = [hand EXCEPT ![p] = <<m>>] /\ UNCHANGED <<content, printed, lost>>
    BY <1>2 DEF Generate, pipes
  <2>2. memory[p] \in Seq(Nat) /\ k \in Nat
    BY <1>0, LenProperties
  <2>3. Append(memory[p], k) \in Seq(Nat) /\ m \in Messages
    BY <2>2, Appended DEF Messages
  <2> HIDE DEF k, m
  <2>4. <<m>> \in Seq(Messages) /\ Len(<<m>>) = 1
    BY <2>3, One
  <2> QED
    BY <1>0, <2>1, <2>3, <2>4, Onwards DEF DataTypes
<1>3. ASSUME NEW p \in Procs, Read(p) PROVE DataTypes'
  <2> DEFINE q == content[In(p)]
             t == Taken(p)
             r == Result(p, q[1])
             b == Remembered(p, q[1])
             u == SubSeq(q, t + 1, Len(q))
             a == Append(printed, q[1])
             l == lost[p] \cup {q[i][1] : i \in {j \in 2..t : q[j] # END}}
  <2>1. p \in Children
    BY <1>3 DEF Read
  <2>2. /\ In(p) \in Pipes /\ q \in Seq(Messages) /\ t \in 1..Len(q) /\ Len(q) \in Nat
        /\ q[1] \in Messages /\ q[1] # END /\ hand' = [hand EXCEPT ![p] = r]
        /\ memory' = [memory EXCEPT ![p] = b]
        /\ printed' = IF p = LastChild THEN a ELSE printed
        /\ content' = [content EXCEPT ![In(p)] = u] /\ lost' = [lost EXCEPT ![p] = l]
        /\ p - 1 \in Senders
    BY <1>3, <2>1, ReadFacts
  <2>3. r \in Seq(Messages) /\ Len(r) \in {0, 1} /\ b \in Seq(Nat)
        /\ (p = LastChild => r = <<>>) /\ (Len(r) = 0 => r = <<>>)
    BY <2>1, <2>2, ResultTypes, EmptySeq
  <2>4. u \in Seq(Messages) /\ a \in Seq(Messages)
    <3>1. t \in 0..Len(q)
      BY <2>2
    <3> QED
      BY <1>0, <2>2, <3>1, Behind, Appended
  <2>5. l \in SUBSET Nat
    <3>1. lost[p] \in SUBSET Nat
      BY <1>0
    <3>2. ASSUME NEW i \in 2..t, q[i] # END PROVE q[i][1] \in Nat
      <4>1. q[i] \in Messages
        BY <2>2, ElementOfSeq
      <4> QED
        BY <3>2, <4>1, NotEmpty DEF Messages, END
    <3> QED
      BY <3>1, <3>2
  <2>6. r # <<>> => p \in Senders
    <3>1. p # LastChild => p \in Senders
      BY <1>0, <1>3, <2>1, <2>2, Shape
    <3> QED
      BY <2>3, <3>1
  <2> HIDE DEF r, b, u, a, l
  <2> QED
    BY <1>0, <2>2, <2>3, <2>4, <2>5, <2>6, Onwards DEF DataTypes
<1>4. ASSUME NEW p \in Procs, EndOfInput(p) PROVE DataTypes'
  <2>1. /\ UNCHANGED <<content, memory, printed, lost>>
        /\ hand' = IF program = "cv_4" /\ p # LastChild
                   THEN [hand EXCEPT ![p] = <<END>>] ELSE hand
        /\ AtEnd(p)
    BY <1>4 DEF EndOfInput, pipes
  <2>2. program = "cv_4" /\ p # LastChild => p \in Senders
    <3>1. p = Source \/ p \in Children
      BY <2>1 DEF AtEnd
    <3> QED
      BY <1>0, <3>1, Shape
  <2>3. END \in Messages
    BY EmptySeq DEF END, Messages
  <2>4. <<END>> \in Seq(Messages) /\ Len(<<END>>) = 1
    BY <2>3, One
  <2> QED
    BY <1>0, <2>1, <2>2, <2>4, Onwards DEF DataTypes
<1>5. ASSUME NEW p \in Procs, Write(p) PROVE DataTypes'
  <2> DEFINE m == Head(hand[p])
             a == Append(content[Out(p)], m)
  <2>1. /\ hand[p] # <<>> /\ content' = [content EXCEPT ![Out(p)] = a]
        /\ hand' = [hand EXCEPT ![p] = <<>>] /\ UNCHANGED <<memory, printed, lost>>
    BY <1>5 DEF Write
  <2>2. p \in Senders /\ hand[p] \in Seq(Messages)
    BY <1>0, <2>1
  <2>3. Out(p) \in Pipes
    BY <2>2, Link
  <2>4. m \in Messages
    BY <2>1, <2>2, NotEmpty
  <2>5. a \in Seq(Messages) /\ <<>> \in Seq(Messages)
    BY <1>0, <2>3, <2>4, Appended, EmptySeq
  <2> HIDE DEF m, a
  <2> QED
    BY <1>0, <2>1, <2>3, <2>5, Onwards DEF DataTypes
<1> QED
  BY <1>1, <1>2, <1>3, <1>4, <1>5, Work

(* Every step keeps the types. *)
LEMMA StepTypes == ChainTypes /\ [Next]_vars => ChainTypes'
<1> SUFFICES ASSUME ChainTypes, [Next]_vars PROVE ChainTypes'
  OBVIOUS
<1>1. program' \in Programs
  BY Onwards DEF ChainTypes
<1>2. DataTypes'
  BY StepData
<1>3. Main' = Main
  BY DEF Main
<1> QED
  BY <1>1, <1>2, <1>3, StepMoves, Onwards DEF ChainTypes

(* At the start no pipe end is open and no child forked. *)
LEMMA InitEnds == Init => ChainEnds /\ ChainForked
<1> SUFFICES ASSUME Init PROVE ChainEnds /\ ChainForked
  OBVIOUS
<1>1. program \in {"cv_4", "pr_4"}
  BY StageChainAssumption DEF Init
<1>2. /\ at[Main] = "pipe" /\ \A c \in Children : at[c] = "none"
      /\ \A p \in Procs : at[p] \in {"pipe", "none"}
  BY <1>1, Shape DEF Init
<1>3. ChainEnds
  BY <1>2 DEF ChainEnds, Init
<1> QED
  BY <1>2, <1>3 DEF ChainForked, Init

(* A process that runs has only the ends it needs, after every step. *)
LEMMA StepEnds == ChainTypes /\ ChainEnds /\ ChainForked /\ [Next]_vars => ChainEnds'
<1> SUFFICES ASSUME ChainTypes, ChainEnds, ChainForked, [Next]_vars,
                    NEW x \in Procs, NEW q \in Pipes, NEW d \in {"r", "w"}
             PROVE  <<x, q, d>> \in holds' <=>
                        \/ at'[x] \in {"fork", "forked"}
                        \/ at'[x] \in {"run", "end"} /\ <<q, d>> \in Own[x]
  BY Onwards DEF ChainEnds
<1>0. /\ <<x, q, d>> \in holds <=> \/ at[x] \in {"fork", "forked"}
                                   \/ at[x] \in {"run", "end"} /\ <<q, d>> \in Own[x]
      /\ at \in [Procs -> Spots] /\ Main \in Procs /\ Own[x] = OwnEnds(x)
      /\ index \in Procs /\ index # Main
  BY Kinds, Shape DEF ChainEnds, ChainTypes, Own, Children
<1>1. CASE Made
  <2>1. x # Main => at'[x] = "none" /\ <<x, q, d>> \notin holds'
    BY <1>0, <1>1, Shape, Kinds DEF Made, ChainForked
  <2>2. x = Main => at'[x] = "fork" /\ <<x, q, d>> \in holds'
    BY <1>0, <1>1 DEF Made
  <2> QED
    BY <2>1, <2>2
<1>2. CASE Forking
  <2>1. <<Main, q, d>> \in holds
    BY <1>0, <1>2 DEF Forking, ChainEnds
  <2>2. <<x, q, d>> \in holds' <=> <<x, q, d>> \in holds \/ x = index
    <3>1. <<Main, q, d>> \in EndsOf(Main)
      BY <2>1 DEF EndsOf
    <3>2. <<index, q, d>> \in {<<index, e[2], e[3]>> : e \in EndsOf(Main)}
      BY <3>1
    <3> QED
      BY <1>2, <3>2 DEF Forking
  <2>3. /\ at'[index] = "forked" /\ at'[Main] \in {"fork", "forked"}
        /\ (x # index /\ x # Main => at'[x] = at[x])
    BY <1>0, <1>2 DEF Forking
  <2>4. <<Main, q, d>> \in holds'
    BY <1>2, <2>1 DEF Forking
  <2> QED
    BY <1>0, <2>2, <2>3, <2>4
<1>3. CASE Waited \/ Still
  BY <1>0, <1>3 DEF Waited, Still
<1>4. ASSUME NEW p \in Procs, Closed(p)
      PROVE  <<x, q, d>> \in holds' <=>
                 \/ at'[x] \in {"fork", "forked"}
                 \/ at'[x] \in {"run", "end"} /\ <<q, d>> \in Own[x]
  <2>1. CASE x = p
    <3>1. at[x] = "forked" /\ at'[x] = "run" /\ <<x, q, d>> \in holds
      BY <1>0, <1>4, <2>1 DEF Closed
    <3>2. <<x, q, d>> \in holds' <=> <<q, d>> \in OwnEnds(x)
      BY <1>4, <2>1, <3>1 DEF Closed, EndsOf
    <3> QED
      BY <1>0, <3>1, <3>2
  <2>2. CASE x # p
    <3>1. at'[x] = at[x] /\ (<<x, q, d>> \in holds' <=> <<x, q, d>> \in holds)
      BY <1>0, <1>4, <2>2 DEF Closed, EndsOf
    <3> QED
      BY <1>0, <3>1
  <2> QED
    BY <2>1, <2>2
<1>5. ASSUME NEW p \in Procs, SawEnd(p)
      PROVE  <<x, q, d>> \in holds' <=>
                 \/ at'[x] \in {"fork", "forked"}
                 \/ at'[x] \in {"run", "end"} /\ <<q, d>> \in Own[x]
  BY <1>0, <1>5 DEF SawEnd
<1>6. ASSUME NEW p \in Procs, NEW how \in Ended, Gone(p, how)
      PROVE  <<x, q, d>> \in holds' <=>
                 \/ at'[x] \in {"fork", "forked"}
                 \/ at'[x] \in {"run", "end"} /\ <<q, d>> \in Own[x]
  <2>1. x = p => at'[x] \in Ended /\ <<x, q, d>> \notin holds'
    BY <1>0, <1>6 DEF Gone, Leave, EndsOf
  <2>2. x # p => at'[x] = at[x] /\ (<<x, q, d>> \in holds' <=> <<x, q, d>> \in holds)
    BY <1>0, <1>6 DEF Gone, Leave, EndsOf
  <2> QED
    BY <1>0, <2>1, <2>2 DEF Ended
<1> QED
  BY <1>1, <1>2, <1>3, <1>4, <1>5, <1>6, Moves

(* Every step keeps what is known of the children already forked. *)
LEMMA StepForked == ChainTypes /\ ChainForked /\ [Next]_vars => ChainForked'
<1> SUFFICES ASSUME ChainTypes, ChainForked, [Next]_vars PROVE ChainForked'
  OBVIOUS
<1>0. /\ at \in [Procs -> Spots] /\ Main \in Procs /\ failures \in Nat
      /\ index \in Children /\ Main \notin Children /\ Children \subseteq Procs
      /\ 0 \in Children /\ LastChild \in Nat
      /\ \A c \in Children : c \in Nat /\ c <= LastChild
  BY Kinds, Shape DEF ChainTypes, Children
<1>00. Children' = Children /\ Main' = Main
  BY Onwards DEF Main
<1>1. CASE Made
  BY <1>0, <1>00, <1>1 DEF Made, ChainForked
<1>2. CASE Forking
  <2>1. \A c \in Children : at'[c] = IF c = index THEN "forked" ELSE at[c]
    BY <1>0, <1>2 DEF Forking
  <2>2. \A c \in Children : at[c] = "none" <=> c >= index
    BY <1>2 DEF Forking, ChainForked
  <2>3. CASE index = LastChild
    <3>1. at'[Main] = "forked" /\ \A c \in Children : at'[c] # "none"
      BY <1>0, <1>2, <2>1, <2>2, <2>3 DEF Forking
    <3> QED
      BY <1>00, <3>1 DEF ChainForked
  <2>4. CASE index # LastChild
    <3>1. at'[Main] = "fork" /\ index' = index + 1
      BY <1>0, <1>2, <2>4 DEF Forking
    <3>2. \A c \in Children : at'[c] = "none" <=> c >= index + 1
      BY <1>0, <2>1, <2>2
    <3> QED
      BY <1>00, <3>1, <3>2 DEF ChainForked
  <2> QED
    BY <2>3, <2>4
<1>3. CASE Waited \/ Still
  BY <1>00, <1>3 DEF Waited, Still, ChainForked, Ended
<1>4. ASSUME NEW p \in Procs, Closed(p) \/ SawEnd(p) PROVE ChainForked'
  <2>1. /\ index' = index /\ failures' = failures
        /\ \A c \in Procs : \/ at'[c] = at[c]
                            \/ at[c] \in {"forked", "run"} /\ at'[c] \in {"run", "end"}
    BY <1>0, <1>4 DEF Closed, SawEnd
  <2> QED
    BY <1>0, <1>00, <2>1 DEF ChainForked, Ended
<1>5. ASSUME NEW p \in Procs, NEW how \in Ended, Gone(p, how) PROVE ChainForked'
  <2>1. /\ index' = index /\ (failures' = failures \/ failures' = failures + 1)
        /\ at[p] # "none" /\ at'[p] = how
        /\ \A c \in Procs \ {p} : at'[c] = at[c]
        /\ failures' = failures => at[p] \in {"run", "end"}
    BY <1>0, <1>5 DEF Gone, Leave
  <2>2. failures' = 0 => failures' = failures
    BY <1>0, <2>1
  <2>3. \A c \in Children : at'[c] = "none" <=> at[c] = "none"
    BY <1>0, <2>1 DEF Ended
  <2>4. CASE p = Main
    BY <1>00, <2>1, <2>2, <2>3, <2>4 DEF ChainForked, Ended
  <2>5. CASE p # Main
    BY <1>0, <1>00, <2>1, <2>2, <2>3, <2>5 DEF ChainForked, Ended
  <2> QED
    BY <2>4, <2>5
<1> QED
  BY <1>1, <1>2, <1>3, <1>4, <1>5, Moves

-----------------------------------------------------------------------------
(* A process and the pipe it writes *)

(* What a step does to the pipe s, the messages h and the place a of its     *)
(* writer.                                                                   *)
Makes(s, h, a, s1, h1, a1) ==
    /\ a = "run" /\ a1 = a /\ s1 = s /\ h = <<>> /\ Len(h1) <= 1 /\ NoEnd(h1)
    /\ h1 \in Seq(Messages)
Finds(g, s, h, a, s1, h1, a1) ==
    /\ a = "run" /\ a1 = "end" /\ s1 = s /\ h = <<>>
    /\ h1 = IF g = "cv_4" THEN <<END>> ELSE <<>>
Puts(s, h, a, s1, h1, a1) ==
    /\ a1 = a /\ a \in {"run", "end"} /\ h # <<>> /\ h1 = <<>> /\ s1 = Append(s, Head(h))
Gives(g, s, h, a, s1, h1, a1) ==
    /\ a1 = a /\ h1 = h /\ s # <<>> /\ s[1] # END
    /\ \E t \in 1..Len(s) : s1 = SubSeq(s, t + 1, Len(s)) /\ (g = "cv_4" => t = 1)
Goes(s, h, a, s1, h1, a1) ==
    /\ s1 = s /\ h1 = h
    /\ \/ a1 = a
       \/ a \notin Ended /\ a1 \in Ended
       \/ a \in {"none", "pipe", "fork", "forked"} /\ a1 \in {"fork", "forked", "run"}

(* How one process moves in a step. *)
LEMMA MovesOne ==
    ASSUME ChainTypes, ChainForked, [Next]_vars, NEW p \in Procs
    PROVE  \/ at'[p] = at[p]
           \/ at[p] \notin Ended /\ at'[p] \in Ended /\ Gone(p, at'[p])
           \/ at[p] \in {"none", "pipe", "fork", "forked"} /\ at'[p] \in {"fork", "forked", "run"}
           \/ SawEnd(p) /\ at'[p] = "end"
<1>0. at \in [Procs -> Spots] /\ Main \in Procs /\ index \in Procs /\ index \in Children
      /\ index # Main /\ index \in Nat
  BY Kinds, Shape DEF ChainTypes, Children
<1>1. CASE Made \/ Waited \/ Still
  BY <1>0, <1>1 DEF Made, Waited, Still
<1>2. CASE Forking
  <2>1. at[index] = "none"
    BY <1>0, <1>2 DEF Forking, ChainForked
  <2> QED
    BY <1>0, <1>2, <2>1 DEF Forking
<1>3. ASSUME NEW x \in Procs, Closed(x) \/ SawEnd(x) \/ \E how \in Ended : Gone(x, how)
      PROVE  \/ at'[p] = at[p]
             \/ at[p] \notin Ended /\ at'[p] \in Ended /\ Gone(p, at'[p])
             \/ at[p] = "forked" /\ at'[p] = "run"
             \/ SawEnd(p) /\ at'[p] = "end"
  BY <1>0, <1>3 DEF Closed, SawEnd, Gone, Leave
<1> QED
  BY <1>1, <1>2, <1>3, Moves

(* A step is one of these changes of the pipe of p, its hand and its place. *)
LEMMA LinkSteps ==
    ASSUME ChainTypes, ChainForked, [Next]_vars, NEW p \in Senders
    PROVE  LET s == content[Feed[p]]
               h == hand[p]
               a == at[p]
               s1 == content'[Feed[p]]
               h1 == hand'[p]
               a1 == at'[p]
           IN \/ Makes(s, h, a, s1, h1, a1) \/ Finds(program, s, h, a, s1, h1, a1)
              \/ Puts(s, h, a, s1, h1, a1) \/ Goes(s, h, a, s1, h1, a1)
              \/ Gives(program, s, h, a, s1, h1, a1) /\ at[p + 1] = "run"
<1> DEFINE s == content[Feed[p]]
           h == hand[p]
           a == at[p]
           s1 == content'[Feed[p]]
           h1 == hand'[p]
           a1 == at'[p]
<1> SUFFICES \/ Makes(s, h, a, s1, h1, a1) \/ Finds(program, s, h, a, s1, h1, a1)
             \/ Puts(s, h, a, s1, h1, a1) \/ Goes(s, h, a, s1, h1, a1)
             \/ Gives(program, s, h, a, s1, h1, a1) /\ at[p + 1] = "run"
  OBVIOUS
<1>0. /\ p \in Procs /\ Feed[p] = Out(p) /\ Feed[p] \in Pipes /\ p # LastChild
      /\ content \in [Pipes -> Seq(Messages)] /\ hand \in [Procs -> Seq(Messages)]
      /\ at \in [Procs -> Spots] /\ program \in {"cv_4", "pr_4"}
      /\ \A r \in Senders : Feed[r] = Feed[p] => r = p
  BY Link, Kinds, Shape DEF ChainTypes, DataTypes
<1>1. CASE SawEnd(p)
  BY <1>0, <1>1 DEF SawEnd, Finds
<1>2. CASE s1 = s /\ h1 = h /\ ~SawEnd(p)
  BY <1>0, <1>2, MovesOne DEF Goes
<1>3. ASSUME NEW x \in Procs, Generate(x)
      PROVE  Makes(s, h, a, s1, h1, a1) \/ (s1 = s /\ h1 = h)
  <2>1. CASE x = p
    <3> DEFINE k == Len(memory[p]) + 1
               m == <<k>>
    <3>1. /\ a = "run" /\ a1 = a /\ s1 = s /\ h = <<>> /\ h1 = <<m>>
      BY <1>0, <1>3, <2>1 DEF Generate, pipes
    <3>2. k \in Nat
      <4>1. memory[p] \in Seq(Nat)
        BY <1>0 DEF ChainTypes, DataTypes
      <4> QED
        BY <4>1, LenProperties
    <3>3. m \in Messages /\ m # END
      BY <3>2, One DEF Messages, END
    <3> HIDE DEF m
    <3>4. <<m>> \in Seq(Messages) /\ Len(<<m>>) = 1 /\ <<m>>[1] = m
      BY <3>3, One
    <3>5. NoEnd(<<m>>)
      BY <3>3, <3>4 DEF NoEnd
    <3> QED
      BY <3>1, <3>4, <3>5 DEF Makes
  <2>2. CASE x # p
    BY <1>0, <1>3, <2>2 DEF Generate, pipes
  <2> QED
    BY <2>1, <2>2
<1>4. ASSUME NEW x \in Procs, Read(x)
      PROVE  \/ Makes(s, h, a, s1, h1, a1) \/ (s1 = s /\ h1 = h)
             \/ Gives(program, s, h, a, s1, h1, a1) /\ at[p + 1] = "run"
  <2> DEFINE q == content[In(x)]
             t == Taken(x)
  <2>1. x \in Children /\ at' = at
    BY <1>4 DEF Read
  <2>2. /\ x - 1 \in Senders /\ In(x) = Feed[x - 1] /\ q \in Seq(Messages) /\ q # <<>>
        /\ q[1] # END /\ t \in 1..Len(q) /\ hand[x] = <<>> /\ at[x] = "run"
        /\ q[1] \in Messages
        /\ hand' = [hand EXCEPT ![x] = Result(x, q[1])]
        /\ content' = [content EXCEPT ![In(x)] = SubSeq(q, t + 1, Len(q))]
    BY <1>4, <2>1, ReadFacts
  <2>3. program = "cv_4" => t = 1
    BY <2>1, <2>2, Kinds, Shape, TakenSome
  <2>4. CASE x = p
    <3>1. In(x) # Feed[p]
        <4>1. In(p) \in Int /\ Out(p) = In(p) + 1
        BY <1>0, <2>1, <2>4, Shape DEF Out, In
      <4> QED
        BY <1>0, <2>4, <4>1
    <3>2. /\ Result(x, q[1]) \in Seq(Messages) /\ Len(Result(x, q[1])) <= 1
          /\ NoEnd(Result(x, q[1]))
      <4> HIDE DEF q
      <4>1. /\ Result(x, q[1]) \in Seq(Messages) /\ Len(Result(x, q[1])) \in {0, 1}
            /\ \A i \in 1..Len(Result(x, q[1])) : Result(x, q[1])[i] # END
        BY <2>1, <2>2, ResultTypes
      <4> QED
        BY <4>1 DEF NoEnd
    <3> HIDE DEF q
    <3> QED
      BY <1>0, <2>1, <2>2, <2>4, <3>1, <3>2 DEF Makes
  <2>5. CASE x - 1 = p
    <3>1. x = p + 1 /\ x # p
      BY SMTT(30), <1>0, <2>1, <2>5, Shape
    <3>2. q = s /\ s1 = SubSeq(s, t + 1, Len(s)) /\ h1 = h /\ a1 = a
      BY <1>0, <2>1, <2>2, <2>5, <3>1
    <3> HIDE DEF q, t, s, h, a, s1, h1, a1
    <3> QED
      BY <2>2, <2>3, <3>1, <3>2 DEF Gives
  <2>6. CASE x # p /\ x - 1 # p
    <3>1. In(x) # Feed[p]
      BY <1>0, <2>2, <2>6
    <3> QED
      BY <1>0, <2>2, <2>6, <3>1
  <2> QED
    BY <2>4, <2>5, <2>6
<1>5. ASSUME NEW x \in Procs, EndOfInput(x)
      PROVE  SawEnd(p) \/ (s1 = s /\ h1 = h)
  <2>1. CASE x = p
    <3>1. p = Main => program = "pr_4"
      BY <1>0, <1>5, <2>1, Shape DEF EndOfInput, AtEnd, Main
    <3> QED
      BY <1>5, <2>1, <3>1 DEF EndOfInput, SawEnd, pipes
  <2>2. CASE x # p
    BY <1>0, <1>5, <2>2 DEF EndOfInput, pipes
  <2> QED
    BY <2>1, <2>2
<1>6. ASSUME NEW x \in Procs, Write(x)
      PROVE  Puts(s, h, a, s1, h1, a1) \/ (s1 = s /\ h1 = h)
  <2>1. /\ hand[x] # <<>> /\ at[x] \in {"run", "end"} /\ at' = at
        /\ content' = [content EXCEPT ![Out(x)] = Append(@, Head(hand[x]))]
        /\ hand' = [hand EXCEPT ![x] = <<>>]
    BY <1>6 DEF Write
  <2>2. x \in Senders
    BY <2>1 DEF ChainTypes, DataTypes
  <2>3. Out(x) = Feed[x]
    BY <2>2, Link
  <2>4. CASE x = p
    BY <1>0, <2>1, <2>3, <2>4 DEF Puts
  <2>5. CASE x # p
    BY <1>0, <2>1, <2>2, <2>3, <2>5
  <2> QED
    BY <2>4, <2>5
<1>9. CASE s1 = s /\ h1 = h
  BY <1>1, <1>2, <1>9
<1>8. CASE UNCHANGED <<content, hand, memory, printed, lost>>
  <2>1. s1 = s /\ h1 = h
    BY <1>8
  <2> QED
    BY <1>9, <2>1
<1> HIDE DEF s, h, a, s1, h1, a1
<1>7. ASSUME NEW x \in Procs, Generate(x) \/ Read(x) \/ EndOfInput(x) \/ Write(x)
      PROVE  \/ Makes(s, h, a, s1, h1, a1) \/ Finds(program, s, h, a, s1, h1, a1)
             \/ Puts(s, h, a, s1, h1, a1) \/ Goes(s, h, a, s1, h1, a1)
             \/ Gives(program, s, h, a, s1, h1, a1) /\ at[p + 1] = "run"
  BY <1>1, <1>3, <1>4, <1>5, <1>6, <1>7, <1>9
<1> QED
  BY <1>7, <1>8, Work

(* "END" stays the last message of the pipe. *)
LEMMA EndKept ==
    ASSUME NEW g \in {"cv_4", "pr_4"}, NEW s \in Seq(Messages), NEW h \in Seq(Messages),
           NEW a, NEW s1, NEW h1, NEW a1, EndRight(g, s, h, a), Len(h) <= 1,
           \/ Makes(s, h, a, s1, h1, a1) \/ Finds(g, s, h, a, s1, h1, a1)
           \/ Puts(s, h, a, s1, h1, a1) \/ Goes(s, h, a, s1, h1, a1)
           \/ Gives(g, s, h, a, s1, h1, a1)
    PROVE  EndRight(g, s1, h1, a1)
<1>1. CASE Makes(s, h, a, s1, h1, a1)
  BY <1>1 DEF Makes, EndRight, Late
<1>2. CASE Finds(g, s, h, a, s1, h1, a1)
  <2>1. NoEnd(s) /\ Len(s) \in Nat
    BY <1>2, LenProperties DEF Finds, EndRight, Late
  <2>2. g = "pr_4" => h1 = <<>> /\ NoEnd(h1)
    BY <1>2 DEF Finds, NoEnd
  <2> QED
    BY <1>2, <2>1, <2>2 DEF Finds, EndRight, Late, NoEnd
<1>3. CASE Puts(s, h, a, s1, h1, a1)
  <2> DEFINE e == Head(h)
  <2>1. e = h[1] /\ e \in Messages /\ 1 \in 1..Len(h)
    BY <1>3, NotEmpty DEF Puts
  <2>2. /\ s1 = Append(s, e) /\ Len(s1) = Len(s) + 1 /\ Len(s) \in Nat
        /\ s1[Len(s) + 1] = e /\ \A k \in 1..Len(s) : s1[k] = s[k]
        /\ \A k \in 1..(Len(s) + 1) : k \in 1..Len(s) \/ k = Len(s) + 1
    BY <1>3, <2>1, Appended DEF Puts
  <2>3. NoEnd(s)
    BY <1>3 DEF Puts, EndRight
  <2>4. (g = "pr_4" \/ a \notin Late) => e # END
    BY <2>1 DEF EndRight, NoEnd
  <2>5. h1 = <<>> /\ a1 = a /\ NoEnd(h1)
    BY <1>3 DEF Puts, NoEnd
  <2> HIDE DEF e, END
  <2>6. \A i \in 1..(Len(s1) - 1) : s1[i] # END
    BY <2>2, <2>3 DEF NoEnd
  <2>7. (g = "pr_4" \/ a \notin Late) => NoEnd(s1)
    BY <2>2, <2>3, <2>4 DEF NoEnd
  <2> QED
    BY <2>5, <2>6, <2>7 DEF EndRight
<1>4. CASE Goes(s, h, a, s1, h1, a1)
  BY <1>4 DEF Goes, EndRight, Late, Ended
<1>5. CASE Gives(g, s, h, a, s1, h1, a1)
  <2>1. PICK t \in 1..Len(s) : s1 = SubSeq(s, t + 1, Len(s))
    BY <1>5 DEF Gives
  <2>2. t \in 0..Len(s)
    BY <2>1
  <2>3. /\ Len(s1) = Len(s) - t /\ Len(s) \in Nat
        /\ \A k \in 1..(Len(s) - t) : s1[k] = s[t + k] /\ t + k \in 1..Len(s)
    BY <2>1, <2>2, Behind
  <2>4. NoEnd(s) => NoEnd(s1)
    BY <2>3 DEF NoEnd
  <2>5. \A i \in 1..(Len(s1) - 1) : i \in 1..(Len(s) - t) /\ t + i \in 1..(Len(s) - 1)
    BY <2>1, <2>3
  <2>6. \A i \in 1..(Len(s1) - 1) : s1[i] # END
    BY <2>3, <2>5 DEF EndRight
  <2> QED
    BY <1>5, <2>4, <2>6 DEF Gives, EndRight
<1> QED
  BY <1>1, <1>2, <1>3, <1>4, <1>5

(* There is no "END" at the start. *)
LEMMA InitEndLast == Init => EndLast
<1> SUFFICES ASSUME Init, NEW p \in Senders
             PROVE  EndRight(program, content[Feed[p]], hand[p], at[p])
  BY DEF EndLast
<1>1. p \in Procs /\ Feed[p] \in Pipes
  BY InitTypes, Link
<1>2. content[Feed[p]] = <<>> /\ hand[p] = <<>> /\ at[p] \in {"pipe", "none"}
  BY <1>1 DEF Init
<1> QED
  BY <1>2 DEF EndRight, NoEnd, Late

(* Every step keeps "END" the last message of each pipe. *)
LEMMA StepEndLast == ChainTypes /\ ChainForked /\ EndLast /\ [Next]_vars => EndLast'
<1> SUFFICES ASSUME ChainTypes, ChainForked, EndLast, [Next]_vars, NEW p \in Senders
             PROVE  EndRight(program, content'[Feed[p]], hand'[p], at'[p])
  BY Onwards DEF EndLast
<1>1. content[Feed[p]] \in Seq(Messages) /\ hand[p] \in Seq(Messages) /\ p \in Procs
  BY Link
<1>2. EndRight(program, content[Feed[p]], hand[p], at[p])
  BY DEF EndLast
<1>3. Len(hand[p]) <= 1
  <2>1. hand[p] = <<>> \/ Len(hand[p]) = 1
    BY <1>1 DEF ChainTypes, DataTypes
  <2>2. Len(<<>>) = 0
    BY EmptySeq
  <2>3. CASE hand[p] = <<>>
    BY <2>2, <2>3
  <2>4. CASE Len(hand[p]) = 1
    BY <2>4
  <2> QED
    BY <2>1, <2>3, <2>4
<1> QED
  BY <1>1, <1>2, <1>3, Kinds, LinkSteps, EndKept

-----------------------------------------------------------------------------
(* Without a failure nobody is killed and everything is sent *)

(* A pipe is written by the one and read by the other of its two processes. *)
LEMMA OwnFacts ==
    ASSUME ChainTypes, NEW p \in Senders
    PROVE  <<Feed[p], "w">> \in Own[p] /\ <<Feed[p], "r">> \in Own[p + 1]
<1>1. program \in {"cv_4", "pr_4"}
  BY Kinds
<1>2. /\ p \in Procs /\ p + 1 \in Procs /\ Feed[p] = Out(p) /\ Feed[p] \in Pipes
      /\ In(p + 1) = Out(p) /\ Own[p] = OwnEnds(p) /\ Own[p + 1] = OwnEnds(p + 1)
  BY Link DEF Own
<1>3. ~(program = "cv_4" /\ p = Main) /\ ~(program = "pr_4" /\ p = LastChild) /\ p + 1 # Main
  BY <1>1, Shape DEF Senders, Source, Main, Children
<1>4. OwnEnds(p) = {<<In(p), "r">>, <<Out(p), "w">>} \cap (Pipes \X {"r", "w"})
  BY <1>3 DEF OwnEnds
<1>5. <<Out(p), "r">> \in OwnEnds(p + 1)
  <2>1. CASE program = "pr_4" /\ p + 1 = LastChild
    BY <1>2, <1>3, <2>1 DEF OwnEnds, In, LastChild
  <2>2. CASE ~(program = "pr_4" /\ p + 1 = LastChild)
    BY <1>2, <1>3, <2>2 DEF OwnEnds
  <2> QED
    BY <2>1, <2>2
<1> QED
  BY <1>2, <1>4, <1>5

(* Without a failure the reader of a pipe does not leave before its writer,  *)
(* so nobody is killed by SIGPIPE.                                           *)
LEMMA ReaderThere ==
    ASSUME ChainTypes, ChainEnds, ChainForked, Alive, failures = 0,
           NEW p \in Procs, hand[p] # <<>>, at[p] \in {"run", "end"}
    PROVE  Readers(Out(p)) # {}
<1>1. p \in Senders
  BY DEF ChainTypes, DataTypes
<1>2. /\ Feed[p] = Out(p) /\ Feed[p] \in Pipes /\ p + 1 \in Children /\ p + 1 \in Procs
      /\ Main \in Procs /\ at \in [Procs -> Spots] /\ Children = Procs \ {Main}
  BY <1>1, Link, Kinds, Shape DEF ChainTypes
<1>3. at[p + 1] \notin {"killed", "exited"}
  <2>1. at[p + 1] # "killed"
    BY <1>2 DEF Alive
  <2>2. at[p + 1] # "exited"
    BY <1>1 DEF Alive, Done
  <2> QED
    BY <2>1, <2>2
<1>4. CASE at[p + 1] = "none"
  <2>1. at[Main] = "fork"
    BY <1>2, <1>4 DEF ChainForked
  <2>2. <<Main, Out(p), "r">> \in holds
    BY <1>2, <2>1 DEF ChainEnds
  <2> QED
    BY <1>2, <2>2 DEF Readers
<1>5. CASE at[p + 1] \in {"forked", "run", "end"}
  <2>1. <<p + 1, Out(p), "r">> \in holds
    BY <1>1, <1>2, <1>5, OwnFacts DEF ChainEnds
  <2> QED
    BY <1>2, <2>1 DEF Readers
<1>6. at[p + 1] \in Spots \ {"pipe", "fork"}
  BY <1>2 DEF ChainTypes
<1> QED
  BY <1>3, <1>4, <1>5, <1>6 DEF Spots

(* Without a failure a pipe loses its last writer only because the process   *)
(* before has ended by itself.                                               *)
LEMMA WriterGone ==
    ASSUME ChainTypes, ChainEnds, ChainForked, Alive, failures = 0,
           NEW p \in Senders, at[p + 1] = "run", Writers(Feed[p]) = {}
    PROVE  at[p] = "exited"
<1>1. /\ Feed[p] \in Pipes /\ p + 1 \in Children /\ p \in Procs /\ p \in Int
      /\ Main \in Procs /\ at \in [Procs -> Spots] /\ Children = Procs \ {Main}
      /\ index \in Int
  <2>1. /\ Feed[p] \in Pipes /\ p + 1 \in Children /\ p \in Procs /\ p \in Int
    BY Link
  <2>2. /\ Main \in Procs /\ at \in [Procs -> Spots] /\ Children = Procs \ {Main}
    BY Kinds, Shape DEF ChainTypes
  <2>3. index \in 0..LastChild /\ LastChild \in Nat
    BY Kinds, Shape DEF ChainTypes
  <2> QED
    BY <2>1, <2>2, <2>3
<1>2. <<p, Feed[p], "w">> \notin holds
  BY <1>1 DEF Writers
<1>3. at[p] \notin {"fork", "forked", "run", "end"}
  BY <1>1, <1>2, OwnFacts DEF ChainEnds
<1>4. at[p] # "killed"
  BY <1>1 DEF Alive
<1>5. at[Main] # "pipe"
  BY <1>1 DEF ChainForked
<1>6. at[p] \notin {"none", "pipe"}
  <2>1. CASE p = Main
    BY <1>5, <2>1 DEF ChainTypes
  <2>2. CASE p # Main
    <3>1. p \in Children /\ at[p] # "pipe"
      BY <1>1, <2>2 DEF ChainTypes
    <3>2. CASE at[Main] = "fork"
      <4>1. p + 1 < index
        BY <1>1, <3>2 DEF ChainForked
      <4> QED
        BY <1>1, <3>1, <3>2, <4>1 DEF ChainForked
    <3>3. CASE at[Main] # "fork"
      BY <1>5, <3>1, <3>3 DEF ChainForked
    <3> QED
      BY <3>2, <3>3
  <2> QED
    BY <2>1, <2>2
<1> QED
  BY <1>1, <1>3, <1>4, <1>6 DEF Spots

(* At the start nobody has ended. *)
LEMMA InitAlive == Init => Alive
<1> SUFFICES ASSUME Init PROVE Alive
  OBVIOUS
<1>1. \A p \in Procs : at[p] \in {"pipe", "none"}
  BY DEF Init
<1>2. Source \in Procs /\ \A p \in Senders : p \in Procs /\ p + 1 \in Procs
  BY InitTypes, Link, Kinds, Shape
<1> QED
  BY <1>1, <1>2 DEF Alive

(* Only a source that still runs counts items. *)
LEMMA SourceMemory ==
    ASSUME ChainTypes, [Next]_vars
    PROVE  memory'[Source] = memory[Source] \/ (at[Source] = "run" /\ at' = at)
<1>1. memory \in [Procs -> Seq(Nat)] /\ Source \in Procs
  BY Kinds, Shape DEF ChainTypes, DataTypes
<1>2. ASSUME NEW p \in Procs, Generate(p) \/ Read(p) \/ EndOfInput(p) \/ Write(p)
      PROVE  memory'[Source] = memory[Source] \/ (at[Source] = "run" /\ at' = at)
  BY <1>1, <1>2 DEF Generate, Read, EndOfInput, Write
<1> QED
  BY <1>2, Work

(* While nothing fails, every step keeps all before the end of an input      *)
(* sent.                                                                     *)
LEMMA StepAlive ==
    ChainTypes /\ ChainEnds /\ ChainForked /\ EndLast /\ Alive /\ [Next]_vars => Alive'
<1> SUFFICES ASSUME ChainTypes, ChainEnds, ChainForked, EndLast, Alive, [Next]_vars,
                    failures' = 0
             PROVE  /\ \A p \in Procs : at'[p] # "killed" /\ (at'[p] = "exited" => hand'[p] = <<>>)
                    /\ at'[Source] \in {"end", "exited"} => Len(memory'[Source]) = Items
                    /\ \A p \in Senders :
                         /\ at'[p + 1] \in {"end", "exited"} =>
                              Done(program, content'[Feed[p]], hand'[p], at'[p])
                         /\ program = "cv_4" /\ at'[p] \in {"end", "exited"} /\ hand'[p] = <<>> =>
                              EndSent(content'[Feed[p]])
  BY Onwards DEF Alive
<1>0. failures = 0 /\ failures' = failures
  <2>1. failures \in Nat /\ (failures' = failures \/ failures' = failures + 1)
    BY Moves DEF ChainTypes, Made, Forking, Waited, Still, Closed, SawEnd, Gone
  <2> QED
    BY <2>1
<1>1. ASSUME NEW p \in Procs, at'[p] # at[p], at'[p] \in Ended
      PROVE  /\ at'[p] = "exited" /\ hand[p] = <<>>
             /\ at[p] = "end" \/ (p = Main /\ program = "cv_4")
  <2>1. Gone(p, at'[p])
    BY <1>1, MovesOne DEF SawEnd, Ended
  <2>2. ~(hand[p] # <<>> /\ at[p] \in {"run", "end"} /\ Readers(Out(p)) = {})
    BY <1>0, ReaderThere
  <2>3. failures' # failures + 1
    BY <1>0
  <2> QED
    BY <2>1, <2>2, <2>3 DEF Gone
<1>2. ASSUME NEW p \in Procs
      PROVE  at'[p] # "killed" /\ (at'[p] = "exited" => hand'[p] = <<>>)
  <2>1. at[p] # "killed" /\ (at[p] = "exited" => hand[p] = <<>>)
    BY <1>0 DEF Alive
  <2>2. at'[p] # "killed"
    BY <1>1, <2>1 DEF Ended
  <2>3. at'[p] = "exited" => hand[p] = <<>>
    BY <1>1, <2>1 DEF Ended
  <2>4. CASE p \in Senders /\ at'[p] = "exited"
    BY <2>3, <2>4, LinkSteps DEF Makes, Finds, Puts, Gives, Goes
  <2>5. CASE p \notin Senders
    <3>1. hand'[p] = <<>>
      BY <2>5, StepData, Onwards DEF DataTypes
    <3> QED
      BY <2>2, <3>1
  <2> QED
    BY <2>2, <2>3, <2>4, <2>5
<1>3. ASSUME at'[Source] \in {"end", "exited"} PROVE Len(memory'[Source]) = Items
  <2>0. Source \in Procs /\ (program = "cv_4" => Source # Main)
    BY Kinds, Shape DEF Source, Main
  <2>1. CASE at[Source] \in {"end", "exited"}
    BY <1>0, <2>1, SourceMemory DEF Alive
  <2>2. CASE SawEnd(Source)
    BY <2>2 DEF SawEnd, AtEnd
  <2>3. at[Source] \in {"end", "exited"} \/ SawEnd(Source)
    <3>1. CASE at'[Source] = "exited" /\ at[Source] # at'[Source]
      BY <1>1, <2>0, <3>1 DEF Ended
    <3>2. CASE at'[Source] = "end" /\ at[Source] # at'[Source]
      BY <2>0, <3>2, MovesOne DEF Ended
    <3> QED
      BY <1>3, <3>1, <3>2
  <2> QED
    BY <2>1, <2>2, <2>3
<1>4. ASSUME NEW p \in Senders, at'[p + 1] \in {"end", "exited"}
      PROVE  Done(program, content'[Feed[p]], hand'[p], at'[p])
  <2> DEFINE s == content[Feed[p]]
             h == hand[p]
             a == at[p]
  <2>0. /\ p \in Procs /\ p + 1 \in Procs /\ p + 1 # Main /\ p + 1 # p /\ Feed[p] = Out(p)
        /\ In(p + 1) = Feed[p] /\ p + 1 # Source /\ s \in Seq(Messages)
        /\ program \in {"cv_4", "pr_4"} /\ hand \in [Procs -> Seq(Messages)]
        /\ at \in [Procs -> Spots]
    BY Link, Kinds, Shape DEF ChainTypes, DataTypes
  <2>1. CASE at[p + 1] \in {"end", "exited"}
    <3>1. Done(program, s, h, a)
      BY <1>0, <2>1 DEF Alive
    <3>2. Goes(s, h, a, content'[Feed[p]], hand'[p], at'[p])
      BY <2>1, <3>1, LinkSteps DEF Makes, Finds, Puts, Gives, Done
    <3> QED
      BY <1>2, <2>0, <3>1, <3>2 DEF Goes, Done, Ended
  <2>2. CASE SawEnd(p + 1)
    <3>1. /\ content' = content /\ hand'[p] = h /\ at'[p] = a /\ AtEnd(p + 1)
          /\ at[p + 1] = "run"
      BY <2>0, <2>2 DEF SawEnd
    <3>2. EndRight(program, s, h, a) /\ a # "killed"
      BY <1>0, <2>0 DEF EndLast, Alive
    <3>3. CASE s # <<>> /\ Head(s) = END
      <4>1. Len(s) \in Nat /\ 1 \in 1..Len(s) /\ s[1] = END
        BY <2>0, <3>3, NotEmpty
      <4>2. ~NoEnd(s)
        BY <4>1 DEF NoEnd
      <4>3. program = "cv_4" /\ h = <<>> /\ a \in {"end", "exited"}
        BY <2>0, <3>2, <4>2 DEF EndRight, Late
      <4>4. Len(s) = 1
        <5>1. \A i \in 1..(Len(s) - 1) : s[i] # END
          BY <3>2 DEF EndRight
        <5>2. 1 \notin 1..(Len(s) - 1)
          BY <4>1, <5>1
        <5>3. \A n \in Nat : 1 \in 1..n /\ 1 \notin 1..(n - 1) => n = 1
          OBVIOUS
        <5> QED
          BY <4>1, <5>2, <5>3
      <4>5. s = <<END>>
        BY <2>0, <4>1, <4>4
      <4> HIDE DEF s, h, a
      <4> QED
        BY <3>1, <4>3, <4>5 DEF Done, s
    <3>4. CASE s = <<>> /\ Writers(Feed[p]) = {}
      <4>1. a = "exited" /\ h = <<>>
        BY <1>0, <2>0, <3>1, <3>4, WriterGone DEF Alive
      <4>2. program # "cv_4"
        BY <1>0, <3>4, <4>1 DEF Alive, EndSent
      <4> QED
        BY <2>0, <3>1, <3>4, <4>1, <4>2 DEF Done
    <3> QED
      BY <2>0, <3>1, <3>3, <3>4 DEF AtEnd
  <2>3. at[p + 1] \in {"end", "exited"} \/ SawEnd(p + 1)
    <3>1. CASE at'[p + 1] = "exited" /\ at[p + 1] # at'[p + 1]
      BY <1>1, <2>0, <3>1 DEF Ended
    <3>2. CASE at'[p + 1] = "end" /\ at[p + 1] # at'[p + 1]
      BY <2>0, <3>2, MovesOne DEF Ended
    <3> QED
      BY <1>4, <3>1, <3>2
  <2> QED
    BY <2>1, <2>2, <2>3
<1>5. ASSUME NEW p \in Senders, program = "cv_4", at'[p] \in {"end", "exited"}, hand'[p] = <<>>
      PROVE  EndSent(content'[Feed[p]])
  <2> DEFINE s == content[Feed[p]]
             h == hand[p]
             a == at[p]
             s1 == content'[Feed[p]]
  <2>0. p \in Procs /\ s \in Seq(Messages) /\ h \in Seq(Messages) /\ p # Main
    BY <1>5, Link, Kinds, Shape DEF Senders, Main
  <2>1. EndRight(program, s, h, a) /\ (a \in {"end", "exited"} /\ h = <<>> => EndSent(s))
    BY <1>0, <1>5 DEF EndLast, Alive
  <2>2. CASE Puts(s, h, a, s1, hand'[p], at'[p])
    <3>1. h = <<END>> /\ s1 = Append(s, Head(h))
      BY <1>5, <2>1, <2>2 DEF Puts, EndRight
    <3>2. END \in Messages
      BY EmptySeq DEF END, Messages
    <3>3. s1 = Append(s, END)
      BY <3>1, <3>2, One
    <3>4. Len(s1) = Len(s) + 1 /\ s1[Len(s) + 1] = END /\ Len(s) \in Nat
      BY <2>0, <3>2, <3>3, Appended
    <3>5. Len(s1) # 0
      BY <3>4
    <3> HIDE DEF s, s1
    <3> QED
      BY <3>4, <3>5, EmptySeq DEF EndSent, s1
  <2>3. CASE Goes(s, h, a, s1, hand'[p], at'[p])
    <3>1. a \in {"end", "exited"}
      <4>1. CASE at'[p] = a
        BY <1>5, <4>1
      <4>2. CASE at'[p] # a
        BY <1>1, <1>5, <2>0, <2>3, <4>2 DEF Goes, Ended
      <4> QED
        BY <4>1, <4>2
    <3> QED
      BY <1>5, <2>1, <2>3, <3>1 DEF Goes
  <2>4. CASE Gives(program, s, h, a, s1, hand'[p], at'[p])
    <3>1. EndSent(s) /\ s[1] # END /\ s1 = SubSeq(s, 1 + 1, Len(s)) /\ 1 \in 1..Len(s)
      BY <1>5, <2>1, <2>4 DEF Gives
    <3>2. Len(s) # 1 /\ Len(s) \in Nat /\ s[Len(s)] = END
      BY <2>0, <3>1, LenProperties DEF EndSent
    <3>3. 1 \in 0..Len(s)
      BY <3>1
    <3>4. Len(s1) = Len(s) - 1 /\ \A k \in 1..(Len(s) - 1) : s1[k] = s[1 + k]
      BY <2>0, <3>1, <3>3, Behind
    <3>5. Len(s1) # 0 /\ s1[Len(s1)] = END
      <4>1. Len(s) - 1 \in 1..(Len(s) - 1) /\ 1 + (Len(s) - 1) = Len(s)
        BY <3>1, <3>2
      <4> QED
        BY <3>2, <3>4, <4>1
    <3> HIDE DEF s, s1
    <3> QED
      BY <3>5, EmptySeq DEF EndSent, s1
  <2> QED
    BY <1>5, <2>2, <2>3, <2>4, LinkSteps DEF Makes, Finds
<1> QED
  BY <1>2, <1>3, <1>4, <1>5

-----------------------------------------------------------------------------
(* Items on their way *)

(* The numbers or names of the messages of s, whether s has them in order. *)
Keys(s) == {s[i][1] : i \in {j \in 1..Len(s) : s[j] # END}}
Climbs(s) ==
    \A i, j \in 1..Len(s) : i < j /\ s[i] # END /\ s[j] # END => s[i][1] < s[j][1]

(* Keys are numbers. *)
LEMMA KeysNat ==
    ASSUME NEW s \in Seq(Messages)
    PROVE  Keys(s) \in SUBSET Nat
<1> SUFFICES ASSUME NEW i \in 1..Len(s), s[i] # END PROVE s[i][1] \in Nat
  BY DEF Keys
<1>1. s[i] \in Messages
  BY ElementOfSeq
<1> QED
  BY <1>1, NotEmpty DEF Messages, END

(* The keys of nothing, of "END" and of one message. *)
LEMMA KeysEmpty ==
    /\ Keys(<<>>) = {} /\ Climbs(<<>>) /\ Keys(<<END>>) = {}
    /\ \A m \in Messages : m # END => Keys(<<m>>) = {m[1]}
<1>1. Len(<<>>) = 0 /\ 1..0 = {} /\ 1..1 = {1}
  BY EmptySeq
<1>2. Keys(<<>>) = {} /\ Climbs(<<>>)
  BY <1>1 DEF Keys, Climbs
<1>3. END \in Messages
  BY EmptySeq DEF END, Messages
<1>4. Keys(<<END>>) = {}
  <2>1. Len(<<END>>) = 1 /\ <<END>>[1] = END
    BY <1>3, One
  <2> HIDE DEF END
  <2> QED
    BY <1>1, <2>1 DEF Keys
<1>5. ASSUME NEW m \in Messages, m # END PROVE Keys(<<m>>) = {m[1]}
  <2> DEFINE s == <<m>>
  <2>1. Len(s) = 1 /\ s[1] = m
    BY One
  <2> HIDE DEF s, END
  <2>2. Keys(s) = {m[1]}
    <3>1. {j \in 1..Len(s) : s[j] # END} = {1}
      BY <1>1, <1>5, <2>1
    <3> QED
      BY <2>1, <3>1 DEF Keys
  <2> QED
    BY <2>2 DEF s
<1> QED
  BY <1>2, <1>4, <1>5

(* Behind the others comes one message more. *)
LEMMA KeysAppend ==
    ASSUME NEW s \in Seq(Messages), NEW e \in Messages
    PROVE  /\ Keys(Append(s, e)) = Keys(s) \cup Keys(<<e>>)
           /\ Climbs(s) /\ (\A k \in Keys(s), l \in Keys(<<e>>) : k < l) => Climbs(Append(s, e))
<1> DEFINE a == Append(s, e)
           n == Len(s)
<1>1. /\ a \in Seq(Messages) /\ Len(a) = n + 1 /\ n \in Nat /\ a[n + 1] = e
      /\ \A k \in 1..n : a[k] = s[k]
      /\ \A k \in 1..(n + 1) : k \in 1..n \/ k = n + 1
  BY Appended
<1>2. Keys(<<e>>) = IF e = END THEN {} ELSE {e[1]}
  <2> HIDE DEF END
  <2>1. CASE e = END
    BY <2>1, KeysEmpty
  <2>2. CASE e # END
    BY <2>2, KeysEmpty
  <2> QED
    BY <2>1, <2>2
<1> HIDE DEF END, a, n
<1>3. \A i \in 1..n : i \in 1..(n + 1)
  BY <1>1
<1>4. n + 1 \in 1..(n + 1)
  BY <1>1
<1>5. Keys(a) = Keys(s) \cup Keys(<<e>>)
  <2>1. ASSUME NEW x \in Keys(a) PROVE x \in Keys(s) \cup Keys(<<e>>)
    <3>1. PICK i \in 1..Len(a) : a[i] # END /\ x = a[i][1]
      BY DEF Keys
    <3> QED
      BY <1>1, <1>2, <3>1 DEF Keys, n
  <2>2. ASSUME NEW x \in Keys(s) PROVE x \in Keys(a)
    <3>1. PICK i \in 1..n : s[i] # END /\ x = s[i][1]
      BY DEF Keys, n
    <3> QED
      BY <1>1, <1>3, <3>1 DEF Keys
  <2>3. ASSUME NEW x \in Keys(<<e>>) PROVE x \in Keys(a)
    <3>1. e # END /\ x = e[1]
      BY <1>2
    <3> QED
      BY <1>1, <1>4, <3>1 DEF Keys
  <2> QED
    BY <2>1, <2>2, <2>3
<1>6. ASSUME Climbs(s), \A k \in Keys(s), l \in Keys(<<e>>) : k < l PROVE Climbs(a)
  <2> SUFFICES ASSUME NEW i \in 1..Len(a), NEW j \in 1..Len(a), i < j, a[i] # END, a[j] # END
               PROVE  a[i][1] < a[j][1]
    BY DEF Climbs
  <2>1. i \in 1..n
    BY <1>1
  <2>2. CASE j \in 1..n
    BY <1>1, <1>6, <2>1, <2>2 DEF Climbs, n
  <2>3. CASE j = n + 1
    <3>1. a[i][1] \in Keys(s)
      BY <1>1, <2>1 DEF Keys, n
    <3>2. a[j][1] \in Keys(<<e>>)
      BY <1>1, <1>2, <2>3
    <3> QED
      BY <1>6, <3>1, <3>2
  <2> QED
    BY <1>1, <2>2, <2>3
<1> QED
  BY <1>5, <1>6 DEF a

(* A read takes the first message and swallows those behind it up to t. *)
LEMMA KeysBehind ==
    ASSUME NEW s \in Seq(Messages), NEW t \in 1..Len(s), s[1] # END, Climbs(s)
    PROVE  LET u == SubSeq(s, t + 1, Len(s))
               D == {s[i][1] : i \in {j \in 2..t : s[j] # END}}
           IN /\ Climbs(u) /\ s[1][1] \in Nat /\ D \in SUBSET Nat
              /\ Keys(s) = {s[1][1]} \cup D \cup Keys(u)
              /\ D \cap Keys(u) = {}
              /\ \A k \in D \cup Keys(u) : s[1][1] < k
<1> DEFINE u == SubSeq(s, t + 1, Len(s))
           D == {s[i][1] : i \in {j \in 2..t : s[j] # END}}
           n == Len(s)
<1>1. t \in 0..n
  OBVIOUS
<1>2. /\ u \in Seq(Messages) /\ Len(u) = n - t /\ n \in Nat
      /\ \A k \in 1..(n - t) : u[k] = s[t + k] /\ t + k \in 1..n
  BY <1>1, Behind
<1>3. \A i \in 1..n : s[i] # END => s[i][1] \in Nat
  BY KeysNat DEF Keys
<1>4. /\ 1 \in 1..n /\ t \in Nat /\ \A i \in 2..t : i \in 1..n /\ 1 < i
      /\ \A k \in 1..(n - t) : t + k > 1 /\ \A i \in 1..t : i < t + k
      /\ \A i \in 1..n : i = 1 \/ i \in 2..t \/ (i - t \in 1..(n - t) /\ t + (i - t) = i)
  BY <1>2
<1> HIDE DEF END, u, n
<1>5. \A x : x \in Keys(u) <=> \E k \in 1..(n - t) : s[t + k] # END /\ x = s[t + k][1]
  <2>1. \A x : x \in Keys(u) <=> \E k \in 1..Len(u) : u[k] # END /\ x = u[k][1]
    BY DEF Keys
  <2>2. \A k \in 1..(n - t) : u[k] = s[t + k]
    BY <1>2
  <2>3. Len(u) = n - t
    BY <1>2
  <2> QED
    BY <2>1, <2>2, <2>3
<1>6. \A x : x \in Keys(s) <=> \E i \in 1..n : s[i] # END /\ x = s[i][1]
  BY DEF Keys, n
<1>7. \A x : x \in D <=> \E i \in 2..t : s[i] # END /\ x = s[i][1]
  OBVIOUS
<1> HIDE DEF D
<1>8. \A i, j \in 1..n : i < j /\ s[i] # END /\ s[j] # END => s[i][1] < s[j][1]
  BY DEF Climbs, n
<1>9. Keys(s) = {s[1][1]} \cup D \cup Keys(u)
  <2>1. ASSUME NEW x \in Keys(s) PROVE x \in {s[1][1]} \cup D \cup Keys(u)
    <3>1. PICK i \in 1..n : s[i] # END /\ x = s[i][1]
      BY <1>6
    <3> QED
      BY <1>4, <1>5, <1>7, <3>1
  <2>2. s[1][1] \in Keys(s)
    BY <1>4, <1>6
  <2>3. ASSUME NEW x \in D PROVE x \in Keys(s)
    BY <1>4, <1>6, <1>7
  <2>4. ASSUME NEW x \in Keys(u) PROVE x \in Keys(s)
    BY <1>2, <1>5, <1>6
  <2> QED
    BY <2>1, <2>2, <2>3, <2>4
<1>10. \A k \in D \cup Keys(u) : s[1][1] < k
  <2>1. ASSUME NEW x \in D PROVE s[1][1] < x
    BY <1>4, <1>7, <1>8
  <2>2. ASSUME NEW x \in Keys(u) PROVE s[1][1] < x
    <3>1. PICK k \in 1..(n - t) : s[t + k] # END /\ x = s[t + k][1]
      BY <1>5
    <3>2. t + k \in 1..n /\ 1 < t + k
      BY <1>2, <1>4
    <3> QED
      BY <1>4, <1>8, <3>1, <3>2
  <2> QED
    BY <2>1, <2>2
<1>11. ASSUME NEW x \in D, x \in Keys(u) PROVE FALSE
  <2>1. PICK k \in 1..(n - t) : s[t + k] # END /\ x = s[t + k][1]
    BY <1>5, <1>11
  <2>2. PICK i \in 2..t : s[i] # END /\ x = s[i][1]
    BY <1>7
  <2>3. i \in 1..n /\ t + k \in 1..n /\ i < t + k
    BY <1>2, <1>4
  <2>4. s[i][1] < s[t + k][1] /\ s[i][1] \in Nat
    BY <1>3, <1>8, <2>1, <2>2, <2>3 DEF n
  <2> QED
    BY <2>1, <2>2, <2>4
<1>12. Climbs(u)
  <2> SUFFICES ASSUME NEW i \in 1..Len(u), NEW j \in 1..Len(u), i < j, u[i] # END, u[j] # END
               PROVE  u[i][1] < u[j][1]
    BY DEF Climbs
  <2>1. /\ u[i] = s[t + i] /\ u[j] = s[t + j] /\ t + i \in 1..n /\ t + j \in 1..n
    BY <1>2
  <2>2. t + i < t + j
    BY <1>4
  <2> QED
    BY <1>8, <2>1, <2>2
<1>13. s[1][1] \in Nat
  BY <1>3, <1>4 DEF n
<1>14. D \in SUBSET Nat
  BY <1>3, <1>4, <1>7 DEF n
<1>15. /\ Climbs(u) /\ s[1][1] \in Nat /\ D \in SUBSET Nat
       /\ Keys(s) = {s[1][1]} \cup D \cup Keys(u)
       /\ D \cap Keys(u) = {}
       /\ \A k \in D \cup Keys(u) : s[1][1] < k
  BY <1>9, <1>10, <1>11, <1>12, <1>13, <1>14
<1> QED
  BY <1>15 DEF u, D, n

(* F[p] and H[p] are what is in the pipe behind p and in its hand, R what has *)
(* come through all links N, X what is gone on the way: the n items made so   *)
(* far are all somewhere, and in order.                                       *)
Below(A, B) == \A a \in A, b \in B : a < b
InOrder(N, F, H, R, n) ==
    /\ \A p \in N : Below(F[p], H[p])
    /\ \A p, r \in N : p < r => Below(F[r] \cup H[r], F[p] \cup H[p])
    /\ \A p \in N : Below(R, F[p] \cup H[p]) /\ F[p] \cup H[p] \subseteq 1..n
    /\ R \subseteq 1..n
Covered(N, F, H, R, X, n) == \A k \in 1..n : k \in X \cup R \/ \E p \in N : k \in F[p] \cup H[p]
Apart(N, F, H, R, X, n) ==
    X \subseteq 1..n /\ \A k \in X : k \notin R /\ \A p \in N : k \notin F[p] \cup H[p]
Picked(N, s, F, H, R, K) == R \subseteq K /\ \A p \in N \ {s} : F[p] \cup H[p] \subseteq K

(* The source makes item n + 1. *)
LEMMA OrderMakes ==
    ASSUME NEW N \in SUBSET Int, NEW s \in N, \A p \in N : s <= p, NEW n \in Nat,
           NEW F \in [N -> SUBSET Nat], NEW H \in [N -> SUBSET Nat], NEW R, NEW X, NEW K,
           InOrder(N, F, H, R, n), H[s] = {}
    PROVE  LET G == [H EXCEPT ![s] = {n + 1}] IN
           /\ InOrder(N, F, G, R, n + 1)
           /\ Covered(N, F, H, R, X, n) => Covered(N, F, G, R, X, n + 1)
           /\ Apart(N, F, H, R, X, n) => Apart(N, F, G, R, X, n + 1)
           /\ Picked(N, s, F, H, R, K) => Picked(N, s, F, G, R, K)
<1> DEFINE G == [H EXCEPT ![s] = {n + 1}]
<1>1. G[s] = {n + 1} /\ \A p \in N \ {s} : G[p] = H[p]
  OBVIOUS
<1>2. \A k \in 1..n : k \in 1..(n + 1) /\ k < n + 1 /\ k \in Int
  OBVIOUS
<1>3. n + 1 \in 1..(n + 1) /\ \A k \in 1..(n + 1) : k \in 1..n \/ k = n + 1
  OBVIOUS
<1> HIDE DEF G
<1>4. \A p \in N : /\ Below(F[p], G[p]) /\ Below(R, F[p] \cup G[p])
                   /\ F[p] \cup G[p] \subseteq 1..(n + 1)
  <2> SUFFICES ASSUME NEW p \in N
               PROVE  /\ Below(F[p], G[p]) /\ Below(R, F[p] \cup G[p])
                      /\ F[p] \cup G[p] \subseteq 1..(n + 1)
    OBVIOUS
  <2>1. CASE p = s
    BY <1>1, <1>2, <1>3, <2>1 DEF InOrder, Below
  <2>2. CASE p # s
    BY <1>1, <1>2, <2>2 DEF InOrder
  <2> QED
    BY <2>1, <2>2
<1>5. ASSUME NEW p \in N, NEW r \in N, p < r
      PROVE  Below(F[r] \cup G[r], F[p] \cup G[p])
  <2>1. r # s
    BY <1>5
  <2>2. G[r] = H[r]
    BY <1>1, <2>1
  <2>3. CASE p = s
    BY <1>1, <1>2, <1>5, <2>2, <2>3 DEF InOrder, Below
  <2>4. CASE p # s
    BY <1>1, <1>5, <2>2, <2>4 DEF InOrder
  <2> QED
    BY <2>3, <2>4
<1>6. R \subseteq 1..(n + 1)
  BY <1>2 DEF InOrder
<1>7. InOrder(N, F, G, R, n + 1)
  BY <1>4, <1>5, <1>6 DEF InOrder
<1>8. ASSUME Covered(N, F, H, R, X, n), NEW k \in 1..(n + 1)
      PROVE  k \in X \cup R \/ \E p \in N : k \in F[p] \cup G[p]
  <2>1. CASE k \in 1..n
    BY <1>1, <1>8, <2>1 DEF Covered
  <2>2. CASE k = n + 1
    BY <1>1, <2>2
  <2> QED
    BY <1>3, <2>1, <2>2
<1>9. ASSUME Apart(N, F, H, R, X, n) PROVE Apart(N, F, G, R, X, n + 1)
  <2>1. X \subseteq 1..(n + 1)
    BY <1>2, <1>9 DEF Apart
  <2>2. n + 1 \notin X
    BY <1>2, <1>9 DEF Apart
  <2> QED
    BY <1>1, <1>9, <2>1, <2>2 DEF Apart
<1>10. Picked(N, s, F, H, R, K) => Picked(N, s, F, G, R, K)
  BY <1>1 DEF Picked
<1>11. /\ InOrder(N, F, G, R, n + 1)
       /\ Covered(N, F, H, R, X, n) => Covered(N, F, G, R, X, n + 1)
       /\ Apart(N, F, H, R, X, n) => Apart(N, F, G, R, X, n + 1)
       /\ Picked(N, s, F, H, R, K) => Picked(N, s, F, G, R, K)
  BY <1>7, <1>8, <1>9, <1>10 DEF Covered
<1> QED
  BY <1>11 DEF G

(* What p has in its hand goes to the end of its pipe. *)
LEMMA OrderPuts ==
    ASSUME NEW N \in SUBSET Int, NEW s \in N, NEW p \in N, NEW n \in Nat,
           NEW F \in [N -> SUBSET Nat], NEW H \in [N -> SUBSET Nat], NEW R, NEW X, NEW K,
           InOrder(N, F, H, R, n)
    PROVE  LET E == [F EXCEPT ![p] = F[p] \cup H[p]]
               G == [H EXCEPT ![p] = {}]
           IN /\ InOrder(N, E, G, R, n)
              /\ Covered(N, F, H, R, X, n) => Covered(N, E, G, R, X, n)
              /\ Apart(N, F, H, R, X, n) => Apart(N, E, G, R, X, n)
              /\ Picked(N, s, F, H, R, K) => Picked(N, s, E, G, R, K)
<1> DEFINE E == [F EXCEPT ![p] = F[p] \cup H[p]]
           G == [H EXCEPT ![p] = {}]
<1>1. /\ \A q \in N : E[q] \cup G[q] = F[q] \cup H[q]
      /\ G[p] = {} /\ \A q \in N \ {p} : E[q] = F[q] /\ G[q] = H[q]
  OBVIOUS
<1> HIDE DEF E, G
<1>2. \A q \in N : Below(E[q], G[q])
  BY <1>1 DEF InOrder, Below
<1>3. InOrder(N, E, G, R, n)
  BY <1>1, <1>2 DEF InOrder
<1>4. /\ Covered(N, F, H, R, X, n) => Covered(N, E, G, R, X, n)
      /\ Apart(N, F, H, R, X, n) => Apart(N, E, G, R, X, n)
      /\ Picked(N, s, F, H, R, K) => Picked(N, s, E, G, R, K)
  BY <1>1 DEF Covered, Apart, Picked
<1> QED
  BY <1>3, <1>4 DEF E, G

(* The reader of link p takes k, swallows D and leaves Y; M, which is k or    *)
(* nothing, is in its hand then, or has come through.                         *)
LEMMA OrderTakes ==
    ASSUME NEW N \in SUBSET Int, NEW s \in N, \A q \in N : s <= q, NEW p \in N, NEW n \in Nat,
           NEW F \in [N -> SUBSET Nat], NEW H \in [N -> SUBSET Nat], NEW R, NEW X, NEW K,
           InOrder(N, F, H, R, n),
           NEW k \in Nat, NEW D \in SUBSET Nat, NEW Y \in SUBSET Nat, NEW M \in SUBSET {k},
           F[p] = {k} \cup D \cup Y, D \cap Y = {}, \A d \in D \cup Y : k < d,
           NEW G, NEW T,
           \/ p + 1 \in N /\ H[p + 1] = {} /\ G = [H EXCEPT ![p + 1] = M] /\ T = R
           \/ (\A q \in N : q <= p) /\ G = H /\ T = R \cup M
    PROVE  LET E == [F EXCEPT ![p] = Y]
               Z == X \cup D \cup ({k} \ M)
           IN /\ InOrder(N, E, G, T, n)
              /\ Covered(N, F, H, R, X, n) => Covered(N, E, G, T, Z, n)
              /\ Apart(N, F, H, R, X, n) => Apart(N, E, G, T, Z, n)
              /\ Picked(N, s, F, H, R, K) /\ M \subseteq K => Picked(N, s, E, G, T, K)
<1> DEFINE E == [F EXCEPT ![p] = Y]
           Z == X \cup D \cup ({k} \ M)
<1>1. E[p] = Y /\ \A q \in N \ {p} : E[q] = F[q]
  OBVIOUS
<1>2. \/ /\ p + 1 \in N /\ H[p + 1] = {} /\ T = R /\ G[p + 1] = M
         /\ \A q \in N \ {p + 1} : G[q] = H[q]
      \/ (\A q \in N : q <= p) /\ G = H /\ T = R \cup M
  OBVIOUS
<1>3. /\ k \in F[p] /\ Y \subseteq F[p] /\ D \subseteq F[p] /\ \A q \in N : E[q] \subseteq F[q]
      /\ \A d \in D \cup Y : k < d /\ d # k
  BY <1>1
<1>4. p + 1 # p /\ p < p + 1 /\ \A q \in N : q < p + 1 => q = p \/ q < p
  OBVIOUS
<1>41. \A q \in N : p + 1 < q => p < q
  OBVIOUS
<1> HIDE DEF E
<1>5. \A q, r \in N : q < r => Below(F[r] \cup H[r], F[q] \cup H[q])
  BY DEF InOrder
<1>6. \A q \in N : /\ Below(F[q], H[q]) /\ Below(R, F[q] \cup H[q]) /\ F[q] \cup H[q] \subseteq 1..n
  BY DEF InOrder
<1>7. InOrder(N, E, G, T, n)
  <2>1. CASE /\ p + 1 \in N /\ H[p + 1] = {} /\ T = R /\ G[p + 1] = M
             /\ \A q \in N \ {p + 1} : G[q] = H[q]
    <3>1. \A q \in N : Below(E[q], G[q])
      <4>1. Below(F[p + 1], {k})
        BY <1>3, <1>4, <1>5, <2>1 DEF Below
      <4>2. Below(E[p + 1], G[p + 1])
        <5>1. E[p + 1] \subseteq F[p + 1] /\ G[p + 1] \subseteq {k}
          BY <1>3, <2>1
        <5> QED
          BY <4>1, <5>1 DEF Below
      <4> QED
        BY <1>3, <1>6, <2>1, <4>2 DEF Below
    <3>2. ASSUME NEW q \in N, NEW r \in N, q < r
          PROVE  Below(E[r] \cup G[r], E[q] \cup G[q])
      <4>0. Below(F[r] \cup H[r], F[q] \cup H[q])
        BY <1>5, <3>2
      <4>1. CASE r = p + 1 /\ q = p
        <5>1. Below(F[r], Y \cup H[p])
          BY <1>3, <4>0, <4>1 DEF Below
        <5>2. Below({k}, Y \cup H[p])
          BY <1>3, <1>6 DEF Below
        <5>3. E[r] \cup G[r] \subseteq F[r] \cup {k} /\ E[q] \cup G[q] \subseteq Y \cup H[p]
          BY <1>1, <1>3, <1>4, <2>1, <4>1
        <5> QED
          BY <4>0, <4>1, <5>1, <5>2, <5>3 DEF Below
      <4>2. CASE r = p + 1 /\ q # p
        <5>1. Below({k}, F[q] \cup H[q])
          BY <1>3, <1>4, <1>5, <3>2, <4>2 DEF Below
        <5>2. /\ E[r] \cup G[r] \subseteq F[r] \cup {k}
              /\ E[q] \cup G[q] \subseteq F[q] \cup H[q]
          <6>1. q # r
            BY <3>2
          <6>2. G[r] = M /\ G[q] = H[q] /\ M \subseteq {k}
            BY <2>1, <4>2, <6>1
          <6>3. E[r] \subseteq F[r] /\ E[q] \subseteq F[q]
            BY <1>3
          <6> QED
            BY <6>2, <6>3
        <5> QED
          BY <4>0, <5>1, <5>2 DEF Below
      <4>3. CASE q = p + 1
        <5>1. Below(F[r] \cup H[r], {k})
          BY <1>3, <1>41, <1>5, <3>2, <4>3 DEF Below
        <5>2. /\ E[r] \cup G[r] \subseteq F[r] \cup H[r]
              /\ E[q] \cup G[q] \subseteq F[q] \cup {k}
          <6>1. q # r
            BY <3>2
          <6>2. G[q] = M /\ G[r] = H[r] /\ M \subseteq {k}
            BY <2>1, <4>3, <6>1
          <6>3. E[r] \subseteq F[r] /\ E[q] \subseteq F[q]
            BY <1>3
          <6> QED
            BY <6>2, <6>3
        <5> QED
          BY <4>0, <5>1, <5>2 DEF Below
      <4>4. CASE r # p + 1 /\ q # p + 1
        BY <1>3, <2>1, <4>0, <4>4 DEF Below
      <4> QED
        BY <4>1, <4>2, <4>3, <4>4
    <3>3. ASSUME NEW q \in N
          PROVE  Below(T, E[q] \cup G[q]) /\ E[q] \cup G[q] \subseteq 1..n
      <4>1. Below(R, {k}) /\ k \in 1..n
        BY <1>3, <1>6 DEF Below
      <4> QED
        BY <1>3, <1>6, <2>1, <4>1 DEF Below
    <3>4. T \subseteq 1..n
      BY <2>1 DEF InOrder
    <3> QED
      BY <3>1, <3>2, <3>3, <3>4 DEF InOrder
  <2>2. CASE (\A q \in N : q <= p) /\ G = H /\ T = R \cup M
    <3>1. \A q \in N : Below(E[q], G[q])
      BY <1>3, <1>6, <2>2 DEF Below
    <3>2. \A q, r \in N : q < r => Below(E[r] \cup G[r], E[q] \cup G[q])
      BY <1>3, <1>5, <2>2 DEF Below
    <3>3. ASSUME NEW q \in N
          PROVE  Below(T, E[q] \cup G[q]) /\ E[q] \cup G[q] \subseteq 1..n
      <4>1. Below({k}, E[q] \cup G[q])
        <5>1. CASE q = p
          BY <1>1, <1>3, <1>6, <2>2, <5>1 DEF Below
        <5>2. CASE q # p
          <6>1. q < p
            BY <2>2, <5>2
          <6> QED
            BY <1>1, <1>3, <1>5, <2>2, <5>2, <6>1 DEF Below
        <5> QED
          BY <5>1, <5>2
      <4> QED
        BY <1>3, <1>6, <2>2, <4>1 DEF Below
    <3>4. T \subseteq 1..n
      BY <1>3, <1>6, <2>2 DEF InOrder
    <3> QED
      BY <3>1, <3>2, <3>3, <3>4 DEF InOrder
  <2> QED
    BY <1>2, <2>1, <2>2
<1>8. \A x : x \in F[p] <=> x = k \/ x \in D \/ x \in Y
  OBVIOUS
<1>9. \A q \in N, x \in Nat :
         x \in F[q] \cup H[q] => x \in Z \/ x \in T \/ \E r \in N : x \in E[r] \cup G[r]
  <2> SUFFICES ASSUME NEW q \in N, NEW x \in Nat, x \in F[q] \cup H[q]
               PROVE  x \in Z \/ x \in T \/ \E r \in N : x \in E[r] \cup G[r]
    OBVIOUS
  <2>1. CASE x \in H[q]
    BY <1>2, <2>1
  <2>2. CASE q # p /\ x \in F[q]
    BY <1>1, <2>2
  <2>3. CASE q = p /\ x \in F[q]
    BY <1>1, <1>2, <1>8, <2>3
  <2> QED
    BY <2>1, <2>2, <2>3
<1>10. Covered(N, F, H, R, X, n) => Covered(N, E, G, T, Z, n)
  BY <1>2, <1>9 DEF Covered
<1>11. ASSUME Apart(N, F, H, R, X, n) PROVE Apart(N, E, G, T, Z, n)
  <2>1. Z \subseteq 1..n
    BY <1>3, <1>6, <1>11 DEF Apart
  <2>2. ASSUME NEW x \in X PROVE x \notin T /\ \A q \in N : x \notin E[q] \cup G[q]
    BY <1>2, <1>3, <1>11 DEF Apart
  <2>3. ASSUME NEW x \in D \cup ({k} \ M) PROVE x \notin T /\ \A q \in N : x \notin E[q] \cup G[q]
    <3>1. x \in F[p] /\ x \notin M /\ x \notin Y /\ x \in Nat
      BY <1>3
    <3>2. x \notin R /\ x \notin H[p]
      BY <1>6, <3>1 DEF Below
    <3>3. \A q \in N \ {p} : x \notin F[q] \cup H[q]
      <4> SUFFICES ASSUME NEW q \in N, q # p PROVE x \notin F[q] \cup H[q]
        OBVIOUS
      <4>1. q < p \/ p < q
        BY <1>3
      <4> QED
        BY <1>5, <3>1, <4>1 DEF Below
    <3> QED
      BY <1>1, <1>2, <3>1, <3>2, <3>3
  <2> QED
    BY <2>1, <2>2, <2>3 DEF Apart
<1>12. ASSUME Picked(N, s, F, H, R, K), M \subseteq K PROVE Picked(N, s, E, G, T, K)
  BY <1>2, <1>3, <1>12 DEF Picked
<1>13. /\ InOrder(N, E, G, T, n)
       /\ Covered(N, F, H, R, X, n) => Covered(N, E, G, T, Z, n)
       /\ Apart(N, F, H, R, X, n) => Apart(N, E, G, T, Z, n)
       /\ Picked(N, s, F, H, R, K) /\ M \subseteq K => Picked(N, s, E, G, T, K)
  BY <1>7, <1>10, <1>11, <1>12
<1> QED
  BY <1>13 DEF E, Z

-----------------------------------------------------------------------------
(* The flow of the items through the first three links of either chain *)

Links == Source..(Source + 2)
InPipe == [p \in Links |-> Keys(content[Feed[p]])]
InHand == [p \in Links |-> Keys(hand[p])]
Elements(s) == {s[j] : j \in 1..Len(s)}
Rising(s) == \A i, j \in 1..Len(s) : i < j => s[i] < s[j]
Through == IF program = "cv_4" THEN Elements(memory[3]) ELSE Keys(printed)
Dropped == IF program = "cv_4" THEN (1..Items) \ Kept ELSE UNION {lost[p] : p \in Procs}
Sent == Len(memory[Source])

Flowing ==
    /\ InOrder(Links, InPipe, InHand, Through, Sent) /\ Sent <= Items
    /\ Covered(Links, InPipe, InHand, Through, Dropped, Sent)
    /\ program = "pr_4" => Apart(Links, InPipe, InHand, Through, Dropped, Sent)
    /\ program = "cv_4" => Picked(Links, Source, InPipe, InHand, Through, Kept)
Climbing ==
    /\ \A p \in Links : Climbs(content[Feed[p]])
    /\ program = "cv_4" => Rising(memory[3])
    /\ program = "pr_4" => Climbs(printed)

(* The links by number, for each program. *)
LEMMA LinksShape ==
    ASSUME program \in {"cv_4", "pr_4"}
    PROVE  /\ Links \in SUBSET Int /\ Links \subseteq Senders /\ Links \subseteq Procs
           /\ Source \in Links /\ Source + 2 \in Links /\ Source \in Int
           /\ \A p \in Links : /\ Source <= p /\ p <= Source + 2
                               /\ p + 1 \in Links \/ p = Source + 2
           /\ LastChild \notin Links
           /\ program = "cv_4" => /\ Senders \ Links = {3} /\ Source = 0 /\ LastChild = 4
                                  /\ 3 \in Procs /\ 3 \in Children
           /\ program = "pr_4" => Senders = Links /\ Source = Main /\ LastChild = 2
<1>1. CASE program = "cv_4"
  BY <1>1 DEF Main, Procs, Children, LastChild, Source, Senders, Links
<1>2. CASE program = "pr_4"
  BY <1>2 DEF Main, Procs, Children, LastChild, Source, Senders, Links
<1> QED
  BY <1>1, <1>2

(* What is under way are numbers of items. *)
LEMMA FlowTypes ==
    ASSUME ChainTypes
    PROVE  /\ InPipe \in [Links -> SUBSET Nat] /\ InHand \in [Links -> SUBSET Nat]
           /\ Sent \in Nat /\ Through \in SUBSET Nat
<1>1. /\ content \in [Pipes -> Seq(Messages)] /\ hand \in [Procs -> Seq(Messages)]
      /\ memory \in [Procs -> Seq(Nat)] /\ printed \in Seq(Messages)
      /\ Source \in Procs /\ (program = "cv_4" => 3 \in Procs)
      /\ \A p \in Links : p \in Procs /\ Feed[p] \in Pipes
  BY Kinds, Shape, LinksShape DEF ChainTypes, DataTypes
<1>2. \A p \in Links : Keys(content[Feed[p]]) \in SUBSET Nat /\ Keys(hand[p]) \in SUBSET Nat
  BY <1>1, KeysNat
<1>3. \A s \in Seq(Nat) : Elements(s) \in SUBSET Nat
  BY ElementOfSeq DEF Elements
<1>4. Keys(printed) \in SUBSET Nat
  BY <1>1, KeysNat
<1> QED
  BY <1>1, <1>2, <1>3, <1>4, LenProperties DEF InPipe, InHand, Sent, Through

(* Nothing is on its way at the start. *)
LEMMA InitFlow == Init => Flowing /\ Climbing
<1> SUFFICES ASSUME Init PROVE Flowing /\ Climbing
  OBVIOUS
<1>0. ChainTypes /\ program \in {"cv_4", "pr_4"}
  BY InitTypes, Kinds
<1>1. \A p \in Links : p \in Procs /\ Feed[p] \in Pipes
  BY <1>0, LinksShape, Link
<1>2. \A p \in Links : content[Feed[p]] = <<>> /\ hand[p] = <<>>
  BY <1>1 DEF Init
<1>3. InPipe = [p \in Links |-> {}] /\ InHand = [p \in Links |-> {}]
  BY <1>2, KeysEmpty DEF InPipe, InHand
<1>4. memory[Source] = <<>> /\ (program = "cv_4" => memory[3] = <<>>) /\ printed = <<>>
  BY <1>0, Shape, LinksShape DEF Init
<1>5. Len(<<>>) = 0 /\ 1..0 = {}
  BY EmptySeq
<1>6. Elements(<<>>) = {} /\ Rising(<<>>)
  BY <1>5 DEF Elements, Rising
<1>7. Through = {} /\ Sent = 0
  BY <1>4, <1>5, <1>6, KeysEmpty DEF Through, Sent
<1>8. program = "pr_4" => Dropped = {}
  BY DEF Dropped, Init
<1>9. InOrder(Links, InPipe, InHand, Through, Sent) /\ Sent <= Items
  BY <1>3, <1>5, <1>7, StageChainAssumption DEF InOrder, Below
<1>10. /\ Covered(Links, InPipe, InHand, Through, Dropped, Sent)
       /\ program = "pr_4" => Apart(Links, InPipe, InHand, Through, Dropped, Sent)
       /\ program = "cv_4" => Picked(Links, Source, InPipe, InHand, Through, Kept)
  BY <1>3, <1>5, <1>7, <1>8 DEF Covered, Apart, Picked
<1>11. Climbing
  BY <1>2, <1>4, <1>6, KeysEmpty DEF Climbing
<1> QED
  BY <1>9, <1>10, <1>11 DEF Flowing

(* The flow after a step, from the sets after it. *)
LEMMA FlowStill ==
    ASSUME Flowing, InPipe' = InPipe, InHand' = InHand, Through' = Through, Sent' = Sent,
           Dropped' = Dropped, [Next]_vars
    PROVE  Flowing'
<1>1. program' = program /\ Links' = Links /\ Source' = Source
  BY Onwards DEF Links
<1> QED
  BY <1>1 DEF Flowing

(* The item made comes behind all others. *)
LEMMA FlowGenerate ==
    ASSUME ChainTypes, Flowing, [Next]_vars, NEW p \in Procs, Generate(p)
    PROVE  Flowing' /\ content' = content /\ printed' = printed
           /\ \A x \in Procs : x # Source => memory'[x] = memory[x]
<1> DEFINE k == Len(memory[p]) + 1
           m == <<k>>
<1>0. /\ program \in {"cv_4", "pr_4"} /\ memory \in [Procs -> Seq(Nat)]
      /\ hand \in [Procs -> Seq(Messages)]
      /\ program' = program /\ Links' = Links /\ Source' = Source /\ Feed' = Feed
      /\ Procs' = Procs
  BY Kinds, Onwards DEF ChainTypes, DataTypes, Links
<1>1. /\ p = Source /\ memory' = [memory EXCEPT ![p] = Append(@, k)] /\ hand[p] = <<>>
      /\ hand' = [hand EXCEPT ![p] = <<m>>] /\ UNCHANGED <<content, printed, lost>>
      /\ Len(memory[p]) < Items
  BY DEF Generate, pipes
<1>2. /\ Source \in Links /\ Links \in SUBSET Int /\ \A q \in Links : Source <= q
      /\ (program = "cv_4" => 3 # Source /\ 3 \in Procs) /\ Links \subseteq Procs
  BY <1>0, LinksShape
<1>3. Sent \in Nat /\ k = Sent + 1
  BY <1>1, FlowTypes DEF Sent
<1>4. Sent' = Sent + 1
  <2>1. memory'[Source] = Append(memory[Source], k)
    BY <1>0, <1>1
  <2>2. memory[Source] \in Seq(Nat) /\ k \in Nat
    BY <1>0, <1>1, <1>3
  <2> HIDE DEF k
  <2>3. Len(Append(memory[Source], k)) = Len(memory[Source]) + 1
    BY <2>2, Appended
  <2> QED
    BY <1>0, <2>1, <2>3 DEF Sent
<1>5. InPipe' = InPipe
  BY <1>0, <1>1 DEF InPipe
<1>6. m \in Messages /\ m # END /\ m[1] = k
  BY <1>3, One DEF Messages, END
<1>7. Keys(<<m>>) = {k}
  BY <1>6, KeysEmpty
<1>8. InHand[Source] = {}
  BY <1>1, <1>2, KeysEmpty DEF InHand
<1>9. InHand' = [InHand EXCEPT ![Source] = {Sent + 1}]
  <2> HIDE DEF m
  <2>1. hand'[Source] = <<m>> /\ \A q \in Links : q # Source => hand'[q] = hand[q]
    BY <1>0, <1>1, <1>2
  <2> QED
    BY <1>0, <1>2, <1>3, <1>7, <2>1 DEF InHand
<1>10. \A x \in Procs : x # Source => memory'[x] = memory[x]
  BY <1>0, <1>1
<1>11. Through' = Through /\ Dropped' = Dropped
  BY <1>0, <1>1, <1>2, <1>10 DEF Through, Dropped
<1>12. Sent + 1 <= Items
  <2>1. Items \in Nat
    BY StageChainAssumption
  <2> QED
    BY <1>1, <1>3, <2>1 DEF Sent
<1>13. LET G == [InHand EXCEPT ![Source] = {Sent + 1}] IN
       /\ InOrder(Links, InPipe, G, Through, Sent + 1)
       /\ Covered(Links, InPipe, G, Through, Dropped, Sent + 1)
       /\ program = "pr_4" => Apart(Links, InPipe, G, Through, Dropped, Sent + 1)
       /\ program = "cv_4" => Picked(Links, Source, InPipe, G, Through, Kept)
  <2>1. InPipe \in [Links -> SUBSET Nat] /\ InHand \in [Links -> SUBSET Nat]
    BY FlowTypes
  <2> QED
    BY <1>2, <1>3, <1>8, <2>1, OrderMakes DEF Flowing
<1> QED
  BY <1>0, <1>1, <1>4, <1>5, <1>9, <1>10, <1>11, <1>12, <1>13 DEF Flowing

(* A hand with a message holds this one only. *)
LEMMA OneMessage ==
    ASSUME NEW h \in Seq(Messages), Len(h) = 1
    PROVE  h = <<Head(h)>> /\ Head(h) \in Messages /\ h # <<>>
<1>1. h # <<>>
  BY EmptySeq
<1>2. Head(h) = h[1] /\ h[1] \in Messages
  BY <1>1, NotEmpty
<1>3. h = <<h[1]>>
  OBVIOUS
<1> QED
  BY <1>1, <1>2, <1>3

(* A write keeps the items and their order; a printed message was not        *)
(* printed before.                                                           *)
LEMMA FlowWrite ==
    ASSUME ChainTypes, Flowing, Climbing, [Next]_vars, NEW p \in Procs, Write(p)
    PROVE  Flowing' /\ Climbing'
<1> DEFINE e == Head(hand[p])
           s == content[Feed[p]]
           a == Append(s, e)
<1>0. /\ program \in {"cv_4", "pr_4"} /\ hand \in [Procs -> Seq(Messages)]
      /\ content \in [Pipes -> Seq(Messages)]
      /\ program' = program /\ Links' = Links /\ Source' = Source /\ Feed' = Feed
      /\ Procs' = Procs /\ p \in Senders /\ Len(hand[p]) = 1 /\ hand[p] # <<>>
  BY Kinds, Onwards DEF ChainTypes, DataTypes, Links, Write
<1>1. /\ content' = [content EXCEPT ![Feed[p]] = a]
      /\ hand' = [hand EXCEPT ![p] = <<>>] /\ UNCHANGED <<memory, printed, lost>>
  <2>1. Out(p) = Feed[p]
    BY <1>0, Link
  <2> QED
    BY <2>1 DEF Write
<1>2. /\ \A q \in Links : q # p => Feed[q] # Feed[p]
      /\ Feed[p] \in Pipes /\ Links \in SUBSET Int /\ Links \subseteq Procs /\ Source \in Links
      /\ \A q \in Links : Feed[q] \in Pipes
  BY <1>0, LinksShape, Shape
<1>3. s \in Seq(Messages) /\ e \in Messages /\ hand[p] = <<e>>
  BY <1>0, <1>2, OneMessage
<1>4. Through' = Through /\ Dropped' = Dropped /\ Sent' = Sent
  BY <1>0, <1>1 DEF Through, Dropped, Sent
<1>5. /\ Keys(a) = Keys(s) \cup Keys(<<e>>)
      /\ Climbs(s) /\ (\A k \in Keys(s), l \in Keys(<<e>>) : k < l) => Climbs(a)
  BY <1>3, KeysAppend
<1> HIDE DEF a, e
<1>6. /\ content'[Feed[p]] = a /\ hand'[p] = <<>>
      /\ \A q \in Links : q # p => content'[Feed[q]] = content[Feed[q]] /\ hand'[q] = hand[q]
  BY <1>0, <1>1, <1>2
<1>7. CASE p \notin Links
  <2>1. InPipe' = InPipe /\ InHand' = InHand
    BY <1>0, <1>6, <1>7 DEF InPipe, InHand
  <2>2. Climbing'
    BY <1>0, <1>1, <1>6, <1>7 DEF Climbing
  <2> QED
    BY <1>4, <2>1, <2>2, FlowStill
<1>8. CASE p \in Links
  <2>1. InPipe[p] = Keys(s) /\ InHand[p] = Keys(<<e>>)
    BY <1>3, <1>8 DEF InPipe, InHand
  <2>2. InPipe' = [InPipe EXCEPT ![p] = InPipe[p] \cup InHand[p]]
    BY <1>0, <1>5, <1>6, <1>8, <2>1 DEF InPipe
  <2>3. InHand' = [InHand EXCEPT ![p] = {}]
    BY <1>0, <1>6, <1>8, KeysEmpty DEF InHand
  <2>4. LET E == [InPipe EXCEPT ![p] = InPipe[p] \cup InHand[p]]
            G == [InHand EXCEPT ![p] = {}]
        IN /\ InOrder(Links, E, G, Through, Sent)
           /\ Covered(Links, E, G, Through, Dropped, Sent)
           /\ program = "pr_4" => Apart(Links, E, G, Through, Dropped, Sent)
           /\ program = "cv_4" => Picked(Links, Source, E, G, Through, Kept)
    <3>1. InPipe \in [Links -> SUBSET Nat] /\ InHand \in [Links -> SUBSET Nat] /\ Sent \in Nat
      BY FlowTypes
    <3> QED
      BY <1>2, <1>8, <3>1, OrderPuts DEF Flowing
  <2>5. Climbs(a)
    <3>1. Below(Keys(s), Keys(<<e>>))
      BY <1>8, <2>1 DEF Flowing, InOrder
    <3>2. Climbs(s)
      BY <1>8 DEF Climbing
    <3> QED
      BY <1>5, <3>1, <3>2 DEF Below
  <2>6. Climbing'
    BY <1>0, <1>1, <1>6, <2>5 DEF Climbing
  <2> QED
    BY <1>0, <1>4, <2>2, <2>3, <2>4, <2>6 DEF Flowing
<1> QED
  BY <1>7, <1>8

(* "END" is no item. *)
LEMMA FlowEndOfInput ==
    ASSUME ChainTypes, Flowing, Climbing, [Next]_vars, NEW p \in Procs, EndOfInput(p)
    PROVE  Flowing' /\ Climbing'
<1>0. /\ program \in {"cv_4", "pr_4"} /\ hand \in [Procs -> Seq(Messages)]
      /\ program' = program /\ Links' = Links /\ Source' = Source /\ Feed' = Feed
      /\ Procs' = Procs
  BY Kinds, Onwards DEF ChainTypes, DataTypes, Links
<1>1. /\ hand[p] = <<>> /\ UNCHANGED <<content, memory, printed, lost>>
      /\ hand' = IF program = "cv_4" /\ p # LastChild
                 THEN [hand EXCEPT ![p] = <<END>>] ELSE hand
  BY DEF EndOfInput, pipes
<1>2. Through' = Through /\ Dropped' = Dropped /\ Sent' = Sent /\ InPipe' = InPipe
  BY <1>0, <1>1 DEF Through, Dropped, Sent, InPipe
<1>3. \A q \in Links : q \in Procs
  BY <1>0, LinksShape
<1>4. InHand' = InHand
  <2> HIDE DEF END
  <2>1. \A q \in Links : Keys(hand'[q]) = Keys(hand[q])
    BY <1>0, <1>1, <1>3, KeysEmpty
  <2> QED
    BY <1>0, <2>1 DEF InHand
<1>5. Climbing'
  BY <1>0, <1>1 DEF Climbing
<1> QED
  BY <1>2, <1>4, <1>5, FlowStill

(* The key of a message stays the same, or the filter drops the message. *)
LEMMA ResultKeys ==
    ASSUME ChainTypes, NEW x \in Links, x # Source, NEW m \in Messages, m # END
    PROVE  LET M == Keys(Result(x, m)) IN
           /\ M \in SUBSET {m[1]}
           /\ program = "pr_4" => M = {m[1]}
           /\ program = "cv_4" => {m[1]} \ M \subseteq {m[1]} \ Kept
           /\ program = "cv_4" => M \subseteq Kept \/ x # Source + 1
           /\ Remembered(x, m) # memory[x] => program = "pr_4"
<1>0. /\ program \in {"cv_4", "pr_4"} /\ x # LastChild /\ x \in Procs
      /\ (program = "cv_4" => x \in {1, 2} /\ Source = 0)
  <2>1. program \in {"cv_4", "pr_4"}
    BY Kinds
  <2> QED
    BY <2>1, LinksShape DEF Links
<1>1. Keys(<<m>>) = {m[1]} /\ Keys(<<>>) = {}
  BY KeysEmpty
<1>2. CASE program = "pr_4" /\ x = 0
  <2> DEFINE v == Len(memory[x]) + 1
             r == Append(m, v)
  <2>1. v \in Nat
    BY <1>0, LenProperties DEF ChainTypes, DataTypes
  <2>2. m \in Seq(Nat) /\ 1 \in 1..Len(m)
    BY NotEmpty DEF Messages, END
  <2> HIDE DEF v
  <2>3. r \in Seq(Nat) /\ r[1] = m[1] /\ Len(r) = Len(m) + 1 /\ Len(m) \in Nat
    BY <2>1, <2>2, Appended
  <2>4. r # END
    BY <2>3, EmptySeq DEF END
  <2>5. Keys(<<r>>) = {m[1]}
    BY <2>3, <2>4, KeysEmpty DEF Messages
  <2>6. Result(x, m) = <<r>>
    BY <1>0, <1>2 DEF Result, v
  <2> QED
    BY <1>2, <2>5, <2>6
<1>3. CASE ~(program = "pr_4" /\ x = 0)
  <2>1. Result(x, m) = IF program = "cv_4" /\ x = 1 /\ m[1] \notin Kept THEN <<>> ELSE <<m>>
    BY <1>0, <1>3 DEF Result
  <2>2. program = "cv_4" => Remembered(x, m) = memory[x]
    BY <1>0 DEF Remembered
  <2> QED
    BY <1>0, <1>1, <2>1, <2>2
<1> QED
  BY <1>2, <1>3

(* One more number behind smaller ones. *)
LEMMA RisingAppend ==
    ASSUME NEW s \in Seq(Nat), NEW k \in Nat
    PROVE  /\ Elements(Append(s, k)) = Elements(s) \cup {k}
           /\ Rising(s) /\ (\A e \in Elements(s) : e < k) => Rising(Append(s, k))
<1> DEFINE a == Append(s, k)
           n == Len(s)
<1>1. /\ Len(a) = n + 1 /\ n \in Nat /\ a[n + 1] = k
      /\ \A i \in 1..n : a[i] = s[i]
      /\ \A i \in 1..(n + 1) : i \in 1..n \/ i = n + 1
  BY Appended
<1>2. n + 1 \in 1..(n + 1) /\ \A i \in 1..n : i \in 1..(n + 1)
  BY <1>1
<1> HIDE DEF a
<1>3. Elements(a) = Elements(s) \cup {k}
  BY <1>1, <1>2 DEF Elements
<1>4. ASSUME Rising(s), \A e \in Elements(s) : e < k PROVE Rising(a)
  <2> SUFFICES ASSUME NEW i \in 1..(n + 1), NEW j \in 1..(n + 1), i < j PROVE a[i] < a[j]
    BY <1>1 DEF Rising
  <2>1. i \in 1..n
    BY <1>1
  <2>2. CASE j \in 1..n
    BY <1>1, <1>4, <2>1, <2>2 DEF Rising
  <2>3. CASE j = n + 1
    BY <1>1, <1>4, <2>1, <2>3 DEF Elements
  <2> QED
    BY <1>1, <2>2, <2>3
<1> QED
  BY <1>3, <1>4 DEF a

(* A read by the process behind one of the first three links. *)
LEMMA ReadLink ==
    ASSUME ChainTypes, Flowing, Climbing, [Next]_vars, NEW x \in Procs, Read(x), x - 1 \in Links
    PROVE  LET p == x - 1
               q == content[Feed[p]]
               k == q[1][1]
               D == {q[i][1] : i \in {j \in 2..Taken(x) : q[j] # END}}
               Y == Keys(SubSeq(q, Taken(x) + 1, Len(q)))
           IN /\ p + 1 = x /\ q \in Seq(Messages) /\ q[1] \in Messages /\ q[1] # END /\ k \in Nat
              /\ D \in SUBSET Nat /\ Y \in SUBSET Nat /\ InPipe[p] = {k} \cup D \cup Y
              /\ D \cap Y = {} /\ \A d \in D \cup Y : k < d
              /\ InPipe' = [InPipe EXCEPT ![p] = Y]
              /\ \A r \in Links : Climbs(content'[Feed[r]])
              /\ program = "cv_4" => D = {}
<1> DEFINE p == x - 1
           q == content[Feed[p]]
           t == Taken(x)
           u == SubSeq(q, t + 1, Len(q))
           D == {q[i][1] : i \in {j \in 2..t : q[j] # END}}
<1>0. x \in Children /\ Links' = Links /\ Feed' = Feed /\ program \in {"cv_4", "pr_4"}
      /\ content \in [Pipes -> Seq(Messages)]
  BY Onwards, Kinds DEF Read, Links, ChainTypes, DataTypes
<1>1. /\ x # Source /\ In(x) \in Pipes /\ q \in Seq(Messages) /\ t \in 1..Len(q)
      /\ q # <<>> /\ q[1] \in Messages /\ q[1] # END /\ In(x) = Feed[p]
      /\ content' = [content EXCEPT ![Feed[p]] = u]
  <2>1. In(x) = Feed[p]
    BY <1>0, ReadFacts
  <2> QED
    BY <1>0, <2>1, ReadFacts
<1>2. \A r \in Links : r # p => Feed[r] # Feed[p]
  BY <1>0, LinksShape, Shape
<1>3. Climbs(q)
  BY DEF Climbing
<1>4. /\ Climbs(u) /\ q[1][1] \in Nat /\ D \in SUBSET Nat
      /\ Keys(q) = {q[1][1]} \cup D \cup Keys(u) /\ D \cap Keys(u) = {}
      /\ \A d \in D \cup Keys(u) : q[1][1] < d
  BY <1>1, <1>3, KeysBehind
<1>5. p + 1 = x
  BY <1>0, Shape
<1>6. program = "cv_4" => D = {}
  <2>1. program = "cv_4" => t = 1
    BY <1>0, <1>1, TakenSome
  <2>2. 2..1 = {}
    OBVIOUS
  <2> QED
    BY <2>1, <2>2
<1>7. Keys(u) \in SUBSET Nat
  <2>1. t \in 0..Len(q)
    BY <1>1
  <2>2. u \in Seq(Messages)
    BY <1>1, <2>1, Behind
  <2> QED
    BY <2>2, KeysNat
<1> HIDE DEF u, D
<1>8. /\ content'[Feed[p]] = u
      /\ \A r \in Links : r # p => content'[Feed[r]] = content[Feed[r]]
  BY <1>0, <1>1, <1>2
<1>9. InPipe' = [InPipe EXCEPT ![p] = Keys(u)]
  BY <1>0, <1>8 DEF InPipe
<1>10. \A r \in Links : Climbs(content'[Feed[r]])
  BY <1>4, <1>8 DEF Climbing
<1>11. InPipe[p] = Keys(q)
  BY DEF InPipe
<1> QED
  BY <1>1, <1>4, <1>5, <1>6, <1>7, <1>9, <1>10, <1>11 DEF u, D

(* The reader has it in its hand, or it has come through. *)
LEMMA ReadOn ==
    ASSUME ChainTypes, Flowing, Climbing, [Next]_vars, NEW x \in Procs, Read(x), x - 1 \in Links
    PROVE  LET m == content[Feed[x - 1]][1]
               M == IF x \in Links THEN Keys(Result(x, m)) ELSE {m[1]}
           IN /\ M \in SUBSET {m[1]} /\ (program = "pr_4" => M = {m[1]})
              /\ program = "cv_4" => M \subseteq Kept /\ {m[1]} \ M \subseteq (1..Items) \ Kept
              /\ \/ x \in Links /\ InHand[x] = {} /\ InHand' = [InHand EXCEPT ![x] = M]
                    /\ Through' = Through
                 \/ x \notin Links /\ InHand' = InHand /\ Through' = Through \cup M
              /\ Sent' = Sent
              /\ program = "cv_4" => Rising(memory[3])'
              /\ program = "pr_4" => Climbs(printed')
<1> DEFINE p == x - 1
           m == content[Feed[p]][1]
           M == IF x \in Links THEN Keys(Result(x, m)) ELSE {m[1]}
<1>0. /\ x \in Children /\ program \in {"cv_4", "pr_4"} /\ hand \in [Procs -> Seq(Messages)]
      /\ memory \in [Procs -> Seq(Nat)] /\ printed \in Seq(Messages)
      /\ program' = program /\ Links' = Links /\ Source' = Source /\ Procs' = Procs
  BY Kinds, Onwards DEF Read, ChainTypes, DataTypes, Links
<1>1. /\ p + 1 = x /\ m \in Messages /\ m # END /\ m[1] \in Nat /\ m[1] \in InPipe[p]
  BY ReadLink
<1>2. /\ x # Source /\ In(x) = Feed[p] /\ hand[x] = <<>>
      /\ hand' = [hand EXCEPT ![x] = Result(x, m)]
      /\ memory' = [memory EXCEPT ![x] = Remembered(x, m)]
      /\ printed' = IF x = LastChild THEN Append(printed, m) ELSE printed
  <2>1. In(x) = Feed[p]
    BY <1>0, ReadFacts
  <2> QED
    BY SMTT(30), <1>0, <2>1, ReadFacts
<1> HIDE DEF m
<1>3. /\ Links \subseteq Procs /\ Source \in Links /\ LastChild \notin Links
      /\ program = "cv_4" => Source = 0 /\ LastChild = 4 /\ 3 \in Procs /\ 3 \notin Links
      /\ program = "pr_4" /\ x \notin Links => x = LastChild
      /\ program = "cv_4" /\ x \notin Links => x = 3
      /\ p \in Links /\ x \in Int
  <2>1. Links \subseteq Procs /\ Source \in Links /\ LastChild \notin Links
    BY <1>0, LinksShape
  <2>2. CASE program = "cv_4"
    <3>1. Source = 0 /\ LastChild = 4 /\ 3 \in Procs
      BY <1>0, <2>2, LinksShape
    <3> QED
      BY <1>1, <2>1, <2>2, <3>1, Shape DEF Links
  <2>3. CASE program = "pr_4"
    <3>1. Source = -1 /\ LastChild = 2
      BY <1>0, <2>3, LinksShape DEF Main
    <3> QED
      BY <1>1, <2>1, <2>3, <3>1, Shape DEF Links, Main
  <2> QED
    BY <1>0, <2>2, <2>3
<1>4. /\ m[1] \in 1..Sent /\ Below(Through, {m[1]})
      /\ p # Source /\ program = "cv_4" => m[1] \in Kept
  <2>1. Below(Through, InPipe[p] \cup InHand[p]) /\ InPipe[p] \cup InHand[p] \subseteq 1..Sent
    BY <1>3 DEF Flowing, InOrder
  <2> QED
    BY <1>1, <1>3, <2>1 DEF Below, Flowing, Picked
<1>5. m[1] \in 1..Items
  BY <1>4, FlowTypes, StageChainAssumption DEF Flowing
<1>6. Sent' = Sent
  BY <1>0, <1>2, <1>3 DEF Sent
<1>7. CASE x \in Links
  <2>1. M = Keys(Result(x, m))
    BY <1>7
  <2>2. /\ M \in SUBSET {m[1]} /\ (program = "pr_4" => M = {m[1]})
        /\ program = "cv_4" => {m[1]} \ M \subseteq {m[1]} \ Kept
        /\ program = "cv_4" => M \subseteq Kept \/ x # Source + 1
    BY <1>1, <1>2, <1>7, <2>1, ResultKeys
  <2>3. program = "cv_4" => M \subseteq Kept
    <3>1. x # Source + 1 => p # Source
      BY <1>1
    <3> QED
      BY <1>4, <2>2, <3>1
  <2>4. InHand[x] = {} /\ InHand' = [InHand EXCEPT ![x] = M]
    BY <1>0, <1>2, <1>3, <1>7, <2>1, KeysEmpty DEF InHand
  <2>5. printed' = printed /\ (program = "cv_4" => memory'[3] = memory[3])
    BY <1>0, <1>2, <1>3, <1>7
  <2>6. Through' = Through /\ (program = "cv_4" => Rising(memory[3])')
        /\ (program = "pr_4" => Climbs(printed'))
    BY <1>0, <2>5 DEF Through, Climbing
  <2>7. program = "cv_4" => {m[1]} \ M \subseteq (1..Items) \ Kept
    BY <1>5, <2>2
  <2> QED
    BY <1>6, <1>7, <2>2, <2>3, <2>4, <2>6, <2>7 DEF m
<1>8. CASE x \notin Links
  <2>1. M = {m[1]}
    BY <1>8
  <2>2. InHand' = InHand
    BY <1>0, <1>2, <1>3, <1>8 DEF InHand
  <2>3. program = "cv_4" => m[1] \in Kept
    <3>1. program = "cv_4" => p # Source
      BY <1>1, <1>3, <1>8
    <3> QED
      BY <1>4, <3>1
  <2>4. CASE program = "cv_4"
    <3>1. x = 3 /\ memory[3] \in Seq(Nat)
      BY <1>0, <1>3, <1>8, <2>4
    <3>2. Remembered(x, m) = Append(memory[3], m[1])
      BY <2>4, <3>1 DEF Remembered
    <3>3. memory'[3] = Append(memory[3], m[1])
      BY <1>0, <1>2, <1>3, <3>1, <3>2
    <3>4. Through = Elements(memory[3]) /\ Rising(memory[3])
      BY <2>4 DEF Through, Climbing
    <3>5. \A e \in Elements(memory[3]) : e < m[1]
      BY <1>4, <3>4 DEF Below
    <3>6. /\ Elements(Append(memory[3], m[1])) = Elements(memory[3]) \cup {m[1]}
          /\ Rising(Append(memory[3], m[1]))
      BY <1>1, <3>1, <3>4, <3>5, RisingAppend
    <3>7. Through' = Through \cup M /\ Rising(memory[3])'
      BY <1>0, <2>1, <2>4, <3>3, <3>4, <3>6 DEF Through
    <3> QED
      BY <1>6, <1>8, <2>1, <2>2, <2>3, <2>4, <3>7 DEF m
  <2>5. CASE program = "pr_4"
    <3>1. printed' = Append(printed, m)
      BY <1>2, <1>3, <1>8, <2>5
    <3>2. Through = Keys(printed) /\ Climbs(printed)
      BY <2>5 DEF Through, Climbing
    <3>3. Keys(<<m>>) = {m[1]}
      BY <1>1, KeysEmpty
    <3>4. Keys(Append(printed, m)) = Keys(printed) \cup {m[1]} /\ Climbs(Append(printed, m))
      BY <1>0, <1>1, <1>4, <3>2, <3>3, KeysAppend DEF Below
    <3>5. Through' = Through \cup M /\ Climbs(printed')
      BY <1>0, <2>1, <2>5, <3>1, <3>2, <3>4 DEF Through
    <3> QED
      BY <1>6, <1>8, <2>1, <2>2, <2>5, <3>5 DEF m
  <2> QED
    BY <1>0, <2>4, <2>5
<1> QED
  BY <1>7, <1>8

(* A read takes an item on, filters it, or loses those swallowed with it;    *)
(* it reorders none.                                                         *)
LEMMA FlowRead ==
    ASSUME ChainTypes, Flowing, Climbing, [Next]_vars, NEW x \in Procs, Read(x)
    PROVE  Flowing' /\ Climbing'
<1> DEFINE p == x - 1
           q == content[Feed[p]]
           m == q[1]
           k == m[1]
           D == {q[i][1] : i \in {j \in 2..Taken(x) : q[j] # END}}
           Y == Keys(SubSeq(q, Taken(x) + 1, Len(q)))
           M == IF x \in Links THEN Keys(Result(x, m)) ELSE {m[1]}
<1>0. /\ x \in Children /\ program \in {"cv_4", "pr_4"} /\ Source \in Procs
      /\ memory \in [Procs -> Seq(Nat)] /\ lost \in [Procs -> SUBSET Nat]
      /\ content \in [Pipes -> Seq(Messages)]
      /\ program' = program /\ Links' = Links /\ Source' = Source /\ Procs' = Procs
      /\ Feed' = Feed /\ Links \in SUBSET Int /\ Source \in Links
      /\ \A r \in Links : Source <= r /\ r <= Source + 2
  BY Kinds, Shape, LinksShape, Onwards DEF Read, ChainTypes, DataTypes, Links
<1>1. /\ x # Source /\ p \in Senders /\ p + 1 = x /\ In(x) = Feed[p]
      /\ hand' = [hand EXCEPT ![x] = Result(x, m)]
      /\ memory' = [memory EXCEPT ![x] = Remembered(x, m)]
      /\ content' = [content EXCEPT ![Feed[p]] = SubSeq(q, Taken(x) + 1, Len(q))]
      /\ lost' = [lost EXCEPT ![x] = lost[x] \cup D]
      /\ m \in Messages /\ m # END
  <2>1. In(x) = Feed[p]
    BY <1>0, ReadFacts
  <2>2. x # Source
    BY DEF Read
  <2>3. p + 1 = x /\ p \in Senders
    BY <1>0, <2>2, Shape
  <2>4. content[In(x)] = q
    BY <2>1
  <2>5. /\ hand' = [hand EXCEPT ![x] = Result(x, m)]
        /\ memory' = [memory EXCEPT ![x] = Remembered(x, m)]
        /\ m \in Messages /\ m # END
    BY <1>0, <2>4, ReadFacts
  <2>6. content' = [content EXCEPT ![Feed[p]] = SubSeq(q, Taken(x) + 1, Len(q))]
    BY <1>0, <2>1, <2>4, ReadFacts
  <2>7. lost' = [lost EXCEPT ![x] = lost[x] \cup D]
    <3>1. lost' = [lost EXCEPT ![x] = @ \cup
                     {content[In(x)][i][1] :
                        i \in {j \in 2..Taken(x) : content[In(x)][j] # END}}]
      BY <1>0, ReadFacts
    <3> QED
      BY <2>4, <3>1
  <2> QED
    BY <2>1, <2>2, <2>3, <2>5, <2>6, <2>7
<1>2. CASE p \notin Links
  <2>1. program = "cv_4" /\ p = 3 /\ LastChild = 4 /\ x = 4 /\ 3 \in Procs /\ Source = 0
        /\ x \notin Links
    BY <1>0, <1>1, <1>2, LinksShape
  <2>2. \A r \in Links : Feed[r] # Feed[p] /\ Feed[r] \in Pipes /\ r \in Procs
    BY <1>0, <1>1, <1>2, LinksShape, Shape
  <2> HIDE DEF q, m, D
  <2>3. \A r \in Links : content'[Feed[r]] = content[Feed[r]] /\ hand'[r] = hand[r]
    BY <1>0, <1>1, <2>1, <2>2 DEF ChainTypes, DataTypes
  <2>4. memory'[3] = memory[3] /\ memory'[Source] = memory[Source]
    BY <1>0, <1>1, <2>1
  <2>5. InPipe' = InPipe /\ InHand' = InHand
    BY <1>0, <2>3 DEF InPipe, InHand
  <2>6. Through' = Through /\ Dropped' = Dropped /\ Sent' = Sent
    BY <1>0, <2>1, <2>4 DEF Through, Dropped, Sent
  <2>7. Climbing'
    BY <1>0, <2>1, <2>3, <2>4 DEF Climbing
  <2> QED
    BY <2>5, <2>6, <2>7, FlowStill
<1>3. CASE p \in Links
  <2>1. /\ k \in Nat /\ D \in SUBSET Nat /\ Y \in SUBSET Nat /\ InPipe[p] = {k} \cup D \cup Y
        /\ D \cap Y = {} /\ \A d \in D \cup Y : k < d
        /\ InPipe' = [InPipe EXCEPT ![p] = Y]
        /\ \A r \in Links : Climbs(content'[Feed[r]])
        /\ program = "cv_4" => D = {}
    BY <1>3, ReadLink
  <2>2. /\ M \in SUBSET {k} /\ (program = "pr_4" => M = {k})
        /\ program = "cv_4" => M \subseteq Kept /\ {k} \ M \subseteq (1..Items) \ Kept
        /\ \/ x \in Links /\ InHand[x] = {} /\ InHand' = [InHand EXCEPT ![x] = M]
              /\ Through' = Through
           \/ x \notin Links /\ InHand' = InHand /\ Through' = Through \cup M
        /\ Sent' = Sent
        /\ program = "cv_4" => Rising(memory[3])'
        /\ program = "pr_4" => Climbs(printed')
    BY <1>3, ReadOn
  <2> HIDE DEF q, m, D, Y, M, k
  <2>3. Dropped' = Dropped \cup D \cup ({k} \ M)
    <3>1. CASE program = "cv_4"
      <4>1. Dropped' = (1..Items) \ Kept /\ Dropped = (1..Items) \ Kept
        BY <1>0, <3>1 DEF Dropped
      <4> QED
        BY <2>1, <2>2, <3>1, <4>1
    <3>2. CASE program = "pr_4"
      <4>1. Dropped' = UNION {lost'[r] : r \in Procs} /\ Dropped = UNION {lost[r] : r \in Procs}
        BY <1>0, <3>2 DEF Dropped
      <4>2. \A r \in Procs : lost'[r] = IF r = x THEN lost[r] \cup D ELSE lost[r]
        BY <1>0, <1>1
      <4>3. UNION {lost'[r] : r \in Procs} = (UNION {lost[r] : r \in Procs}) \cup D
        <5>1. \A y : y \in UNION {lost'[r] : r \in Procs} <=> \E r \in Procs : y \in lost'[r]
          OBVIOUS
        <5>2. \A y : y \in UNION {lost[r] : r \in Procs} <=> \E r \in Procs : y \in lost[r]
          OBVIOUS
        <5>3. \A y : (\E r \in Procs : y \in lost'[r])
                        <=> (\E r \in Procs : y \in lost[r]) \/ y \in D
          BY <4>2
        <5> QED
          BY <5>1, <5>2, <5>3
      <4> QED
        BY <2>2, <3>2, <4>1, <4>3
    <3> QED
      BY <1>0, <3>1, <3>2
  <2>4. \/ p + 1 \in Links /\ InHand[p + 1] = {} /\ InHand' = [InHand EXCEPT ![p + 1] = M]
           /\ Through' = Through
        \/ (\A r \in Links : r <= p) /\ InHand' = InHand /\ Through' = Through \cup M
    <3>1. x \notin Links => \A r \in Links : r <= p
      BY <1>0, <1>1, <1>3, LinksShape
    <3> QED
      BY <1>1, <2>2, <3>1
  <2>5. /\ InOrder(Links, InPipe', InHand', Through', Sent)
        /\ Covered(Links, InPipe', InHand', Through', Dropped', Sent)
        /\ program = "pr_4" => Apart(Links, InPipe', InHand', Through', Dropped', Sent)
        /\ program = "cv_4" => Picked(Links, Source, InPipe', InHand', Through', Kept)
    <3> DEFINE E == [InPipe EXCEPT ![p] = Y]
               Z == Dropped \cup D \cup ({k} \ M)
               G == InHand'
               T == Through'
    <3>1. InPipe \in [Links -> SUBSET Nat] /\ InHand \in [Links -> SUBSET Nat] /\ Sent \in Nat
      BY FlowTypes
    <3>2. InOrder(Links, InPipe, InHand, Through, Sent)
      BY DEF Flowing
    <3>3. \A r \in Links : Source <= r
      BY <1>0
    <3> HIDE DEF p
    <3>4. /\ InOrder(Links, E, G, T, Sent)
          /\ Covered(Links, InPipe, InHand, Through, Dropped, Sent) =>
                Covered(Links, E, G, T, Z, Sent)
          /\ Apart(Links, InPipe, InHand, Through, Dropped, Sent) =>
                Apart(Links, E, G, T, Z, Sent)
          /\ Picked(Links, Source, InPipe, InHand, Through, Kept) /\ M \subseteq Kept
                => Picked(Links, Source, E, G, T, Kept)
      BY <1>0, <1>3, <2>1, <2>2, <2>4, <3>1, <3>2, <3>3, OrderTakes
    <3> QED
      BY <2>1, <2>2, <2>3, <3>4 DEF Flowing
  <2>6. Flowing'
    BY <1>0, <2>2, <2>5 DEF Flowing
  <2>7. Climbing'
    BY <1>0, <2>1, <2>2 DEF Climbing
  <2> QED
    BY <2>6, <2>7
<1> QED
  BY <1>2, <1>3

(* Every step keeps the flow. *)
LEMMA StepFlow ==
    ChainTypes /\ Flowing /\ Climbing /\ [Next]_vars => Flowing' /\ Climbing'
<1> SUFFICES ASSUME ChainTypes, Flowing, Climbing, [Next]_vars PROVE Flowing' /\ Climbing'
  OBVIOUS
<1>0. /\ program' = program /\ Links' = Links /\ Source' = Source /\ Procs' = Procs
      /\ Feed' = Feed /\ program \in {"cv_4", "pr_4"}
  BY Kinds, Onwards DEF Links
<1>1. CASE UNCHANGED <<content, hand, memory, printed, lost>>
  <2>1. /\ InPipe' = InPipe /\ InHand' = InHand /\ Through' = Through /\ Sent' = Sent
        /\ Dropped' = Dropped
    BY <1>0, <1>1 DEF InPipe, InHand, Through, Sent, Dropped
  <2>2. Climbing'
    BY <1>0, <1>1 DEF Climbing
  <2> QED
    BY <2>1, <2>2, FlowStill
<1>2. ASSUME NEW p \in Procs, Generate(p) PROVE Flowing' /\ Climbing'
  <2>1. Flowing' /\ content' = content /\ printed' = printed
    BY <1>2, FlowGenerate
  <2>2. program = "cv_4" => memory'[3] = memory[3]
    BY <1>0, <1>2, FlowGenerate, LinksShape
  <2>3. Climbing'
    BY <1>0, <2>1, <2>2 DEF Climbing
  <2> QED
    BY <2>1, <2>3
<1> QED
  BY <1>1, <1>2, FlowRead, FlowEndOfInput, FlowWrite, Work

-----------------------------------------------------------------------------
(* cv_4: the running sums behind child 3 *)

(* m is the sum of the first l numbers that came through. *)
IsSum(m, M, l) == Len(m) = l /\ l <= Len(M) /\ \A j \in 1..l : m[j] = M[j]
Real(s) == IF EndSent(s) THEN Len(s) - 1 ELSE Len(s)

(* The numbers M that came through, their sums as printed (P), in the last    *)
(* pipe (s) and in the hand of child 3 (h): one for each number, in order.    *)
Tally(M, P, s, h) ==
    /\ \A i \in 1..Len(P) : IsSum(P[i], M, i)
    /\ \A i \in 1..Len(s) : s[i] = END \/ IsSum(s[i], M, Len(P) + i)
    /\ \A i \in 1..Len(h) : h[i] = END \/ IsSum(h[i], M, Len(P) + Len(s) + i)
    /\ Len(M) = Len(P) + Real(s) + Real(h)

(* How many messages are not "END". *)
LEMMA RealFacts ==
    /\ Real(<<>>) = 0 /\ Real(<<END>>) = 0
    /\ \A m \in Messages : m # END => Real(<<m>>) = 1
    /\ \A s \in Seq(Messages) : Len(s) \in Nat /\ (NoEnd(s) => Real(s) = Len(s))
<1>1. Real(<<>>) = 0
  BY EmptySeq DEF Real, EndSent
<1>2. END \in Messages
  BY EmptySeq DEF END, Messages
<1>3. Len(<<END>>) = 1 /\ <<END>>[1] = END /\ <<END>> # <<>>
  BY <1>2, One
<1>4. Real(<<END>>) = 0
  <2> HIDE DEF END
  <2> QED
    BY <1>3 DEF Real, EndSent
<1>5. ASSUME NEW m \in Messages, m # END PROVE Real(<<m>>) = 1
  <2>1. Len(<<m>>) = 1 /\ <<m>>[1] = m /\ <<m>> # <<>>
    BY One
  <2> HIDE DEF END
  <2> QED
    BY <1>5, <2>1 DEF Real, EndSent
<1>6. ASSUME NEW s \in Seq(Messages), NoEnd(s) PROVE Real(s) = Len(s)
  <2>1. CASE s = <<>>
    BY <2>1, <1>1, EmptySeq
  <2>2. CASE s # <<>>
    <3>1. Len(s) \in 1..Len(s)
      BY <2>2, NotEmpty
    <3>2. s[Len(s)] # END
      BY <1>6, <3>1 DEF NoEnd
    <3> QED
      BY <3>2 DEF Real, EndSent
  <2> QED
    BY <2>1, <2>2
<1> QED
  BY <1>1, <1>4, <1>5, <1>6, LenProperties

(* Later numbers leave the sum of the first l alone. *)
LEMMA SumStays ==
    ASSUME NEW M \in Seq(Nat), NEW k \in Nat, NEW m, NEW l \in Nat, IsSum(m, M, l)
    PROVE  IsSum(m, Append(M, k), l)
<1>1. /\ Len(Append(M, k)) = Len(M) + 1 /\ Len(M) \in Nat
      /\ \A i \in 1..Len(M) : Append(M, k)[i] = M[i]
  BY Appended
<1>2. l <= Len(M) /\ l <= Len(M) + 1 /\ \A j \in 1..l : j \in 1..Len(M)
  BY <1>1 DEF IsSum
<1> QED
  BY <1>1, <1>2 DEF IsSum

(* One more number, and its sum in the hand of child 3. *)
LEMMA TallyMakes ==
    ASSUME NEW M \in Seq(Nat), NEW P \in Seq(Messages), NEW s \in Seq(Messages), NEW k \in Nat,
           Tally(M, P, s, <<>>), NoEnd(s)
    PROVE  Tally(Append(M, k), P, s, <<M \o <<k>>>>)
<1> DEFINE N == Append(M, k)
           m == M \o <<k>>
<1>1. /\ Len(P) \in Nat /\ Len(s) \in Nat /\ Real(s) = Len(s) /\ Real(<<>>) = 0
  BY RealFacts, LenProperties
<1>2. /\ N \in Seq(Nat) /\ Len(N) = Len(M) + 1 /\ Len(M) \in Nat /\ N[Len(M) + 1] = k
      /\ \A i \in 1..Len(M) : N[i] = M[i]
      /\ \A i \in 1..(Len(M) + 1) : i \in 1..Len(M) \/ i = Len(M) + 1
  BY Appended
<1>3. Len(M) = Len(P) + Len(s)
  BY <1>1, <1>2 DEF Tally
<1>4. m = N
  <2>1. <<k>> \in Seq(Nat) /\ Len(<<k>>) = 1 /\ <<k>>[1] = k
    BY One
  <2> HIDE DEF N
  <2> QED
    BY AppendIsConcat DEF N
<1>5. N \in Messages /\ N # END
  <2>1. Len(N) # 0
    BY <1>2
  <2> HIDE DEF N
  <2> QED
    BY <1>2, <2>1, EmptySeq DEF Messages, END
<1>6. Len(<<N>>) = 1 /\ <<N>>[1] = N /\ Real(<<N>>) = 1
  BY <1>5, One, RealFacts
<1> HIDE DEF END, m
<1>7. \A i \in 1..Len(P) : IsSum(P[i], N, i)
  BY <1>1, SumStays DEF Tally
<1>8. \A i \in 1..Len(s) : s[i] = END \/ IsSum(s[i], N, Len(P) + i)
  BY <1>1, SumStays DEF Tally
<1> HIDE DEF N
<1>9. IsSum(N, N, Len(P) + Len(s) + 1)
  BY <1>2, <1>3 DEF IsSum
<1>10. \A i \in 1..Len(<<N>>) : <<N>>[i] = END \/ IsSum(<<N>>[i], N, Len(P) + Len(s) + i)
  <2>1. \A i \in 1..1 : i = 1
    OBVIOUS
  <2> QED
    BY <1>6, <1>9, <2>1
<1>11. Len(N) = Len(P) + Real(s) + Real(<<N>>)
  BY <1>1, <1>2, <1>3, <1>6
<1>12. Tally(N, P, s, <<N>>)
  BY <1>7, <1>8, <1>10, <1>11 DEF Tally
<1> QED
  BY <1>4, <1>12 DEF N, m

(* "END" is no sum. *)
LEMMA TallyFinds ==
    ASSUME NEW M, NEW P, NEW s, Tally(M, P, s, <<>>)
    PROVE  Tally(M, P, s, <<END>>)
<1>1. END \in Messages
  BY EmptySeq DEF END, Messages
<1>2. Len(<<END>>) = 1 /\ <<END>>[1] = END /\ Real(<<END>>) = 0 /\ Real(<<>>) = 0
  BY <1>1, One, RealFacts
<1>3. \A i \in 1..1 : i = 1
  OBVIOUS
<1> HIDE DEF END
<1>4. \A i \in 1..Len(<<END>>) :
         <<END>>[i] = END \/ IsSum(<<END>>[i], M, Len(P) + Len(s) + i)
  BY <1>2, <1>3
<1> QED
  BY <1>2, <1>4 DEF Tally

(* The sum is written. *)
LEMMA TallyPuts ==
    ASSUME NEW M \in Seq(Nat), NEW P \in Seq(Messages), NEW s \in Seq(Messages),
           NEW e \in Messages, Tally(M, P, s, <<e>>), NoEnd(s)
    PROVE  Tally(M, P, Append(s, e), <<>>)
<1> DEFINE a == Append(s, e)
           n == Len(s)
<1>1. /\ Len(P) \in Nat /\ Real(s) = n /\ Real(<<>>) = 0 /\ Len(<<>>) = 0
      /\ Real(<<e>>) = IF e = END THEN 0 ELSE 1
  <2> HIDE DEF END
  <2>1. e # END => Real(<<e>>) = 1
    BY RealFacts
  <2>2. e = END => Real(<<e>>) = 0
    BY RealFacts
  <2>3. Real(s) = n
    BY RealFacts
  <2> QED
    BY <2>1, <2>2, <2>3, RealFacts, LenProperties, EmptySeq
<1>2. /\ a \in Seq(Messages) /\ Len(a) = n + 1 /\ n \in Nat /\ a[n + 1] = e
      /\ \A i \in 1..n : a[i] = s[i]
      /\ \A i \in 1..(n + 1) : i \in 1..n \/ i = n + 1
  BY Appended
<1>3. <<e>>[1] = e /\ Len(<<e>>) = 1 /\ a # <<>>
  BY <1>2, One, EmptySeq
<1> HIDE DEF END, a, n
<1>4. Real(a) = n + Real(<<e>>)
  BY <1>1, <1>2, <1>3 DEF Real, EndSent
<1>5. Len(M) = Len(P) + Real(a) + Real(<<>>)
  <2>1. Len(M) = Len(P) + Real(s) + Real(<<e>>)
    BY DEF Tally
  <2> QED
    BY <1>1, <1>2, <1>4, <2>1
<1>6. e = END \/ IsSum(e, M, Len(P) + n + 1)
  <2>1. 1 \in 1..Len(<<e>>)
    BY <1>3
  <2>2. <<e>>[1] = END \/ IsSum(<<e>>[1], M, Len(P) + Len(s) + 1)
    BY <2>1 DEF Tally
  <2> QED
    BY <1>3, <2>2 DEF n
<1>7. \A i \in 1..n : s[i] = END \/ IsSum(s[i], M, Len(P) + i)
  BY DEF Tally, n
<1>8. Len(P) + n + 1 = Len(P) + (n + 1)
  BY <1>1, <1>2
<1>9. \A i \in 1..Len(a) : a[i] = END \/ IsSum(a[i], M, Len(P) + i)
  BY <1>2, <1>6, <1>7, <1>8
<1>10. Tally(M, P, a, <<>>)
  BY <1>1, <1>5, <1>9 DEF Tally
<1> QED
  BY <1>10 DEF a

(* The oldest sum is printed. *)
LEMMA TallyGives ==
    ASSUME NEW M \in Seq(Nat), NEW P \in Seq(Messages), NEW s \in Seq(Messages),
           NEW h \in Seq(Messages), s # <<>>, s[1] # END, Tally(M, P, s, h)
    PROVE  Tally(M, Append(P, s[1]), SubSeq(s, 1 + 1, Len(s)), h)
<1> DEFINE u == SubSeq(s, 1 + 1, Len(s))
           n == Len(s)
           c == Len(P)
           Q == Append(P, s[1])
<1>1. n \in Nat /\ n >= 1 /\ 1 \in 1..n /\ s[1] \in Messages /\ c \in Nat /\ 1 \in 0..n
  BY NotEmpty, LenProperties
<1>2. /\ u \in Seq(Messages) /\ Len(u) = n - 1
      /\ \A k \in 1..(n - 1) : u[k] = s[1 + k] /\ 1 + k \in 1..n
  BY <1>1, Behind
<1>3. /\ Len(Q) = c + 1 /\ Q[c + 1] = s[1] /\ \A i \in 1..c : Q[i] = P[i]
      /\ \A i \in 1..(c + 1) : i \in 1..c \/ i = c + 1
  BY <1>1, Appended
<1>4. /\ \A i \in 1..c : IsSum(P[i], M, i)
      /\ \A i \in 1..n : s[i] = END \/ IsSum(s[i], M, c + i)
      /\ \A i \in 1..Len(h) : h[i] = END \/ IsSum(h[i], M, c + n + i)
      /\ Len(M) = c + Real(s) + Real(h)
  BY DEF Tally
<1>41. u # <<>> <=> n # 1
  <2>1. u = <<>> <=> Len(u) = 0
    BY <1>2, EmptySeq
  <2> QED
    BY <1>1, <1>2, <2>1
<1>42. s # <<>> /\ s[1] # END
  OBVIOUS
<1> HIDE DEF END, u, n, c, Q
<1>5. \A i \in 1..Len(Q) : IsSum(Q[i], M, i)
  BY <1>1, <1>3, <1>4, <1>42
<1>6. \A i \in 1..Len(u) : u[i] = END \/ IsSum(u[i], M, (c + 1) + i)
  <2>1. \A i \in 1..(n - 1) : c + (1 + i) = (c + 1) + i
    BY <1>1
  <2> QED
    BY <1>2, <1>4, <2>1
<1>7. \A i \in 1..Len(h) : h[i] = END \/ IsSum(h[i], M, (c + 1) + (n - 1) + i)
  <2>1. \A i \in 1..Len(h) : (c + 1) + (n - 1) + i = c + n + i
    BY <1>1
  <2> QED
    BY <1>4, <2>1
<1>8. Real(u) = Real(s) - 1 /\ Real(s) \in Int
  <2>1. EndSent(s) <=> EndSent(u)
    <3>1. CASE n = 1
      BY <1>41, <1>42, <3>1 DEF EndSent, n
    <3>2. CASE n # 1
      <4>1. n - 1 \in 1..(n - 1) /\ 1 + (n - 1) = n
        BY <1>1, <3>2
      <4>2. u[Len(u)] = s[n]
        BY <1>2, <4>1
      <4> QED
        BY <1>41, <1>42, <3>2, <4>2 DEF EndSent, n
    <3> QED
      BY <3>1, <3>2
  <2>2. Len(s) = n
    BY DEF n
  <2> QED
    BY <1>1, <1>2, <2>1, <2>2 DEF Real
<1>9. Real(h) \in Int
  BY LenProperties DEF Real
<1>10. Len(M) = (c + 1) + Real(u) + Real(h)
  BY <1>1, <1>4, <1>8, <1>9
<1>11. Tally(M, Q, u, h)
  BY <1>2, <1>3, <1>5, <1>6, <1>7, <1>10 DEF Tally
<1> QED
  BY <1>11 DEF u, Q, n

(* The messages of the first three links are single numbers. *)
Single(s) == \A i \in 1..Len(s) : Len(s[i]) <= 1
Singles == \A p \in Links : Single(content[Feed[p]]) /\ Single(hand[p])
Summing ==
    program = "cv_4" => Singles /\ Tally(memory[3], printed, content[Feed[3]], hand[3])

(* Messages of at most one number. *)
LEMMA SingleFacts ==
    /\ Single(<<>>) /\ Single(<<END>>)
    /\ \A m \in Messages : Len(m) <= 1 => Single(<<m>>)
    /\ \A m \in Messages : Len(m) <= 1 /\ m # END => m = <<m[1]>>
<1>1. Single(<<>>)
  BY EmptySeq DEF Single
<1>2. ASSUME NEW m \in Messages, Len(m) <= 1 PROVE Single(<<m>>)
  <2>1. Len(<<m>>) = 1 /\ <<m>>[1] = m /\ \A i \in 1..1 : i = 1
    BY One
  <2> QED
    BY <1>2, <2>1 DEF Single
<1>3. END \in Messages /\ Len(END) = 0
  BY EmptySeq DEF END, Messages
<1>4. ASSUME NEW m \in Messages, Len(m) <= 1, m # END PROVE m = <<m[1]>>
  <2>1. m \in Seq(Nat) /\ Len(m) = 1
    <3>1. m \in Seq(Nat) /\ m # <<>>
      BY <1>4 DEF Messages, END
    <3>2. Len(m) \in Nat /\ Len(m) >= 1
      BY <3>1, NotEmpty
    <3>3. \A n \in Nat : n >= 1 /\ n <= 1 => n = 1
      OBVIOUS
    <3>4. Len(m) = 1
      BY <1>4, <3>2, <3>3
    <3> QED
      BY <3>1, <3>4
  <2> QED
    BY <2>1
<1> QED
  BY <1>1, <1>2, <1>3, <1>4

(* They stay so when one is put in or taken out. *)
LEMMA SingleSteps ==
    ASSUME NEW s \in Seq(Messages), Single(s)
    PROVE  /\ \A e \in Messages : Len(e) <= 1 => Single(Append(s, e))
           /\ \A t \in 1..Len(s) : Single(SubSeq(s, t + 1, Len(s)))
           /\ s # <<>> => Len(s[1]) <= 1
<1>1. ASSUME NEW e \in Messages, Len(e) <= 1 PROVE Single(Append(s, e))
  <2> DEFINE a == Append(s, e)
  <2>1. /\ Len(a) = Len(s) + 1 /\ Len(s) \in Nat /\ a[Len(s) + 1] = e
        /\ \A i \in 1..Len(s) : a[i] = s[i]
        /\ \A i \in 1..(Len(s) + 1) : i \in 1..Len(s) \/ i = Len(s) + 1
    BY Appended
  <2> HIDE DEF a
  <2>2. Single(a)
    BY <1>1, <2>1 DEF Single
  <2> QED
    BY <2>2 DEF a
<1>2. ASSUME NEW t \in 1..Len(s) PROVE Single(SubSeq(s, t + 1, Len(s)))
  <2> DEFINE u == SubSeq(s, t + 1, Len(s))
  <2>1. t \in 0..Len(s)
    OBVIOUS
  <2>2. Len(u) = Len(s) - t /\ \A k \in 1..(Len(s) - t) : u[k] = s[t + k] /\ t + k \in 1..Len(s)
    BY <2>1, Behind
  <2> HIDE DEF u
  <2>3. Single(u)
    BY <2>2 DEF Single
  <2> QED
    BY <2>3 DEF u
<1>3. s # <<>> => Len(s[1]) <= 1
  BY NotEmpty DEF Single
<1> QED
  BY <1>1, <1>2, <1>3

(* Nothing is summed at the start. *)
LEMMA InitSumming == Init => Summing
<1> SUFFICES ASSUME Init, program = "cv_4" PROVE Summing
  BY DEF Summing
<1>0. ChainTypes /\ program \in {"cv_4", "pr_4"} /\ 3 \in Senders /\ 3 \in Procs
  BY InitTypes, Kinds, LinksShape
<1>1. \A p \in Senders : p \in Procs /\ Feed[p] \in Pipes
  BY <1>0, Link
<1>2. \A p \in Senders : content[Feed[p]] = <<>> /\ hand[p] = <<>>
  BY <1>1 DEF Init
<1>3. Singles
  BY <1>0, <1>2, LinksShape, SingleFacts DEF Singles
<1>4. memory[3] = <<>> /\ printed = <<>> /\ content[Feed[3]] = <<>> /\ hand[3] = <<>>
  BY <1>0, <1>2 DEF Init
<1>5. Tally(<<>>, <<>>, <<>>, <<>>)
  <2>1. Len(<<>>) = 0 /\ 1..0 = {} /\ Real(<<>>) = 0
    BY EmptySeq, RealFacts
  <2> QED
    BY <2>1 DEF Tally
<1> QED
  BY <1>3, <1>4, <1>5 DEF Summing

(* Every step keeps single numbers in the links before the sums. *)
LEMMA StepSingles ==
    ASSUME ChainTypes, program = "cv_4", Singles, [Next]_vars
    PROVE  Singles'
<1> SUFFICES ASSUME NEW r \in Links
             PROVE  Single(content'[Feed[r]]) /\ Single(hand'[r])
  <2>1. Links' = Links /\ Feed' = Feed
    BY Onwards DEF Links
  <2> QED
    BY <2>1 DEF Singles
<1>0. /\ Single(content[Feed[r]]) /\ Single(hand[r]) /\ program \in {"cv_4", "pr_4"}
      /\ content \in [Pipes -> Seq(Messages)] /\ hand \in [Procs -> Seq(Messages)]
      /\ memory \in [Procs -> Seq(Nat)] /\ r \in Procs /\ r \in Senders /\ Feed[r] \in Pipes
      /\ content[Feed[r]] \in Seq(Messages)
      /\ \A q \in Senders : q # r => Feed[q] # Feed[r]
  BY Kinds, LinksShape, Shape DEF Singles, ChainTypes, DataTypes
<1>1. CASE UNCHANGED <<content, hand, memory, printed, lost>>
  BY <1>0, <1>1
<1>2. ASSUME NEW p \in Procs, Generate(p) PROVE Single(content'[Feed[r]]) /\ Single(hand'[r])
  <2> DEFINE k == Len(memory[p]) + 1
             m == <<k>>
  <2>1. hand' = [hand EXCEPT ![p] = <<m>>] /\ content' = content
    BY <1>2 DEF Generate, pipes
  <2>2. k \in Nat
    BY <1>0, LenProperties
  <2>3. m \in Messages /\ Len(m) <= 1
    <3> HIDE DEF k
    <3>1. m \in Seq(Nat) /\ Len(m) = 1
      BY <2>2, One
    <3> QED
      BY <3>1 DEF Messages
  <2> HIDE DEF m
  <2>4. Single(<<m>>)
    BY <2>3, SingleFacts
  <2> QED
    BY <1>0, <2>1, <2>4
<1>3. ASSUME NEW p \in Procs, Read(p) PROVE Single(content'[Feed[r]]) /\ Single(hand'[r])
  <2> DEFINE q == content[In(p)]
             t == Taken(p)
             u == SubSeq(q, t + 1, Len(q))
             h == Result(p, q[1])
  <2>1. p \in Children
    BY <1>3 DEF Read
  <2>2. /\ q \in Seq(Messages) /\ t \in 1..Len(q) /\ q # <<>> /\ q[1] \in Messages
        /\ p - 1 \in Senders /\ In(p) = Feed[p - 1] /\ q[1] # END
        /\ hand' = [hand EXCEPT ![p] = h] /\ content' = [content EXCEPT ![In(p)] = u]
    BY <1>3, <2>1, ReadFacts
  <2>3. Single(content'[Feed[r]])
    <3>1. CASE p - 1 = r
      <4>1. q = content[Feed[r]] /\ content'[Feed[r]] = u
        BY <1>0, <2>2, <3>1
      <4> HIDE DEF u
      <4>2. Single(q)
        BY <1>0, <4>1
      <4>3. Single(u)
        BY <2>2, <4>2, SingleSteps DEF u
      <4> QED
        BY <4>1, <4>3
    <3>2. CASE p - 1 # r
      BY <1>0, <2>2, <3>2
    <3> QED
      BY <3>1, <3>2
  <2>4. CASE p # r
    BY <1>0, <2>2, <2>3, <2>4
  <2>5. CASE p = r
    <3>1. p - 1 \in Links /\ p \in {1, 2} /\ p # LastChild
      BY <2>1, <2>2, <2>5, LinksShape DEF Links
    <3>2. Single(q)
      BY <2>2, <3>1 DEF Singles
    <3>3. Len(q[1]) <= 1
      BY <2>2, <3>2, SingleSteps
    <3>4. h = <<>> \/ h = <<q[1]>>
      BY <3>1 DEF Result
    <3> HIDE DEF q, h
    <3>5. Single(h)
      BY <2>2, <3>3, <3>4, SingleFacts
    <3> QED
      BY <1>0, <2>2, <2>3, <2>5, <3>5
  <2> QED
    BY <2>4, <2>5
<1>4. ASSUME NEW p \in Procs, EndOfInput(p) PROVE Single(content'[Feed[r]]) /\ Single(hand'[r])
  <2>1. /\ content' = content
        /\ hand' = IF program = "cv_4" /\ p # LastChild
                   THEN [hand EXCEPT ![p] = <<END>>] ELSE hand
    BY <1>4 DEF EndOfInput, pipes
  <2> HIDE DEF END
  <2> QED
    BY <1>0, <2>1, SingleFacts
<1>5. ASSUME NEW p \in Procs, Write(p) PROVE Single(content'[Feed[r]]) /\ Single(hand'[r])
  <2> DEFINE e == Head(hand[p])
  <2>1. /\ hand[p] # <<>> /\ content' = [content EXCEPT ![Out(p)] = Append(@, e)]
        /\ hand' = [hand EXCEPT ![p] = <<>>]
    BY <1>5 DEF Write
  <2>2. p \in Senders
    BY <2>1 DEF ChainTypes, DataTypes
  <2>3. Out(p) = Feed[p]
    BY <2>2, Link
  <2>4. Single(hand'[r])
    BY <1>0, <2>1, SingleFacts
  <2>5. CASE p # r
    BY <1>0, <2>1, <2>2, <2>3, <2>4, <2>5
  <2>6. CASE p = r
    <3>1. content'[Feed[r]] = Append(content[Feed[r]], e)
      BY <1>0, <2>1, <2>3, <2>6
    <3>2. e \in Messages /\ e = hand[r][1] /\ Len(e) <= 1
      BY <1>0, <2>1, <2>6, NotEmpty, SingleSteps
    <3> HIDE DEF e
    <3>3. Single(Append(content[Feed[r]], e))
      BY <1>0, <3>2, SingleSteps
    <3> QED
      BY <2>4, <3>1, <3>3
  <2> QED
    BY <2>5, <2>6
<1> QED
  BY <1>1, <1>2, <1>3, <1>4, <1>5, Work

(* Every step keeps one sum for each number that came through. *)
LEMMA StepSumming ==
    ChainTypes /\ EndLast /\ Summing /\ [Next]_vars => Summing'
<1> SUFFICES ASSUME ChainTypes, EndLast, Summing, [Next]_vars, program = "cv_4"
             PROVE  Singles' /\ Tally(memory'[3], printed', content'[Feed[3]], hand'[3])
  BY Onwards DEF Summing
<1> DEFINE M == memory[3]
           P == printed
           s == content[Feed[3]]
           h == hand[3]
<1>0. /\ 3 \in Senders /\ 3 \in Procs /\ 2 \in Links /\ 2 \in Senders /\ LastChild = 4
      /\ program \in {"cv_4", "pr_4"} /\ Source = 0 /\ Feed[3] \in Pipes
      /\ M \in Seq(Nat) /\ P \in Seq(Messages) /\ s \in Seq(Messages) /\ h \in Seq(Messages)
      /\ \A q \in Senders : q # 3 => Feed[q] # Feed[3]
      /\ content \in [Pipes -> Seq(Messages)] /\ hand \in [Procs -> Seq(Messages)]
      /\ memory \in [Procs -> Seq(Nat)]
  <2>1. program \in {"cv_4", "pr_4"}
    BY Kinds
  <2>2. /\ Senders \ Links = {3} /\ Source = 0 /\ LastChild = 4 /\ 3 \in Procs
        /\ Source + 2 \in Links /\ Links \subseteq Senders
    BY <2>1, LinksShape
  <2>3. 3 \in Senders /\ 2 \in Links /\ 2 \in Senders
    BY <2>2
  <2>4. /\ content \in [Pipes -> Seq(Messages)] /\ hand \in [Procs -> Seq(Messages)]
        /\ memory \in [Procs -> Seq(Nat)] /\ printed \in Seq(Messages)
    BY DEF ChainTypes, DataTypes
  <2>5. Feed[3] \in Pipes /\ \A q \in Senders : q # 3 => Feed[q] # Feed[3]
    BY <2>1, <2>3, Shape
  <2> QED
    BY <2>1, <2>2, <2>3, <2>4, <2>5
<1>1. Tally(M, P, s, h) /\ Singles /\ EndRight(program, s, h, at[3])
  BY <1>0 DEF Summing, EndLast
<1>2. Singles'
  BY <1>1, StepSingles
<1>3. CASE memory'[3] = M /\ printed' = P /\ content'[Feed[3]] = s /\ hand'[3] = h
  BY <1>1, <1>2, <1>3
<1>4. CASE UNCHANGED <<content, hand, memory, printed, lost>>
  BY <1>3, <1>4
<1>5. ASSUME NEW p \in Procs, Generate(p)
      PROVE  memory'[3] = M /\ printed' = P /\ content'[Feed[3]] = s /\ hand'[3] = h
  <2>1. p = 0
    BY <1>0, <1>5 DEF Generate
  <2> QED
    BY <1>0, <1>5, <2>1 DEF Generate, pipes
<1>6. ASSUME NEW p \in Procs, Read(p)
      PROVE  Tally(memory'[3], printed', content'[Feed[3]], hand'[3])
  <2> DEFINE q == content[In(p)]
             t == Taken(p)
             u == SubSeq(q, t + 1, Len(q))
             m == q[1]
  <2>1. p \in Children
    BY <1>6 DEF Read
  <2>2. /\ q \in Seq(Messages) /\ q # <<>> /\ m \in Messages /\ m # END
        /\ p - 1 \in Senders /\ In(p) = Feed[p - 1] /\ p # Source /\ m[1] \in Nat
        /\ hand[p] = <<>> /\ at[p] = "run"
        /\ hand' = [hand EXCEPT ![p] = Result(p, m)]
        /\ memory' = [memory EXCEPT ![p] = Remembered(p, m)]
        /\ printed' = IF p = LastChild THEN Append(printed, m) ELSE printed
        /\ content' = [content EXCEPT ![In(p)] = u]
    BY <1>6, <2>1, ReadFacts
  <2>3. t = 1
    BY <2>1, <2>2, TakenSome
  <2>4. CASE p = 3
    <3>1. In(p) = Feed[2] /\ Feed[2] # Feed[3] /\ In(p) # Feed[3]
      BY <1>0, <2>2, <2>4
    <3>2. Single(q)
      BY <1>0, <1>1, <3>1 DEF Singles
    <3>3. m = <<m[1]>>
      BY <2>2, <3>2, SingleSteps, SingleFacts
    <3>4. Remembered(p, m) = Append(M, m[1]) /\ Result(p, m) = <<M \o m>>
      BY <1>0, <2>4 DEF Remembered, Result
    <3>5. /\ memory'[3] = Append(M, m[1]) /\ hand'[3] = <<M \o m>>
          /\ printed' = P /\ content'[Feed[3]] = s
      <4>1. memory'[3] = Append(M, m[1])
        BY <1>0, <2>2, <2>4, <3>4
      <4>2. hand'[3] = <<M \o m>>
        BY <1>0, <2>2, <2>4, <3>4
      <4>3. printed' = P /\ content'[Feed[3]] = s
        BY <1>0, <2>2, <2>4, <3>1
      <4> QED
        BY <4>1, <4>2, <4>3
    <3>6. NoEnd(s) /\ h = <<>>
      BY <1>1, <2>2, <2>4 DEF EndRight, Late
    <3> HIDE DEF M, P, s, h, m
    <3> DEFINE k == m[1]
    <3>7. k \in Nat /\ m = <<k>>
      BY <2>2, <3>3
    <3> HIDE DEF k
    <3>8. Tally(Append(M, k), P, s, <<M \o <<k>>>>)
      BY <1>0, <1>1, <3>6, <3>7, TallyMakes
    <3> QED
      BY <3>5, <3>7, <3>8 DEF k
  <2>5. CASE p = 4
    <3>1. In(p) = Feed[3] /\ q = s
      BY <2>2, <2>5
    <3>2. /\ memory'[3] = M /\ hand'[3] = h /\ printed' = Append(P, m)
          /\ content'[Feed[3]] = SubSeq(s, 1 + 1, Len(s))
      BY SMTT(30), <1>0, <2>2, <2>3, <2>5, <3>1
    <3>3. m = s[1] /\ s # <<>> /\ s[1] # END
      BY <2>2, <3>1
    <3> HIDE DEF M, P, s, h, m
    <3> QED
      BY <1>0, <1>1, <3>2, <3>3, TallyGives
  <2>6. CASE p # 3 /\ p # 4
    <3>1. In(p) # Feed[3]
      <4>1. p - 1 # 3
        BY <2>1, <2>6, Shape, <1>0
      <4> QED
        BY <1>0, <2>2, <4>1
    <3>2. memory'[3] = M /\ printed' = P /\ content'[Feed[3]] = s /\ hand'[3] = h
      BY <1>0, <2>2, <2>6, <3>1
    <3> QED
      BY <1>3, <3>2
  <2> QED
    BY <2>4, <2>5, <2>6
<1>7. ASSUME NEW p \in Procs, EndOfInput(p)
      PROVE  Tally(memory'[3], printed', content'[Feed[3]], hand'[3])
  <2>1. /\ content' = content /\ memory' = memory /\ printed' = printed /\ hand[p] = <<>>
        /\ hand' = IF program = "cv_4" /\ p # LastChild
                   THEN [hand EXCEPT ![p] = <<END>>] ELSE hand
    BY <1>7 DEF EndOfInput, pipes
  <2>2. CASE p = 3
    <3>1. hand'[3] = <<END>> /\ h = <<>>
      BY <1>0, <2>1, <2>2
    <3> HIDE DEF M, P, s, h, END
    <3>2. Tally(M, P, s, <<END>>)
      BY <1>1, <3>1, TallyFinds
    <3> QED
      BY <2>1, <3>1, <3>2 DEF M, P, s
  <2>3. CASE p # 3
    <3>1. hand'[3] = h
      BY <1>0, <2>1, <2>3
    <3> QED
      BY <1>1, <2>1, <3>1
  <2> QED
    BY <2>2, <2>3
<1>8. ASSUME NEW p \in Procs, Write(p)
      PROVE  Tally(memory'[3], printed', content'[Feed[3]], hand'[3])
  <2> DEFINE e == Head(hand[p])
  <2>1. /\ hand[p] # <<>> /\ content' = [content EXCEPT ![Out(p)] = Append(@, e)]
        /\ hand' = [hand EXCEPT ![p] = <<>>] /\ memory' = memory /\ printed' = printed
    BY <1>8 DEF Write
  <2>2. p \in Senders /\ Len(hand[p]) = 1
    BY <2>1 DEF ChainTypes, DataTypes
  <2>3. Out(p) = Feed[p]
    BY <2>2, Link
  <2>4. CASE p = 3
    <3>1. h = <<e>> /\ e \in Messages /\ h # <<>>
      BY <1>0, <2>2, <2>4, OneMessage
    <3>2. content'[Feed[3]] = Append(s, e) /\ hand'[3] = <<>>
      BY <1>0, <2>1, <2>3, <2>4
    <3>3. NoEnd(s)
      BY <1>1, <3>1 DEF EndRight
    <3> HIDE DEF M, P, s, h, e
    <3>4. Tally(M, P, Append(s, e), <<>>)
      BY <1>0, <1>1, <3>1, <3>3, TallyPuts
    <3> QED
      BY <2>1, <3>2, <3>4 DEF M, P
  <2>5. CASE p # 3
    <3>1. content'[Feed[3]] = s /\ hand'[3] = h
      BY <1>0, <2>1, <2>2, <2>3, <2>5
    <3> QED
      BY <1>1, <2>1, <3>1
  <2> QED
    BY <2>4, <2>5
<1> QED
  BY <1>2, <1>3, <1>4, <1>5, <1>6, <1>7, <1>8, Work

(* When the last child is through and nothing failed, nothing is on its way.  *)
LEMMA AllSent ==
    ASSUME ChainTypes, Alive, Flowing, failures = 0, at[LastChild] = "exited"
    PROVE  /\ \A p \in Links : InPipe[p] = {} /\ InHand[p] = {}
           /\ Sent = Items /\ 1..Items \subseteq Dropped \cup Through
           /\ \A p \in Senders : Done(program, content[Feed[p]], hand[p], at[p])
<1>0. program \in {"cv_4", "pr_4"}
  BY Kinds
<1>1. \A p \in Senders : /\ at[p + 1] \in {"end", "exited"} =>
                              Done(program, content[Feed[p]], hand[p], at[p])
  BY DEF Alive
<1>2. \A p \in Senders : Done(program, content[Feed[p]], hand[p], at[p])
  <2>1. CASE program = "cv_4"
    <3>1. Senders = 0..3 /\ LastChild = 4
      BY <2>1 DEF Senders, LastChild, Source
    <3>2. at[4] \in {"end", "exited"}
      BY <3>1
    <3>3. Done(program, content[Feed[3]], hand[3], at[3]) /\ at[3] \in {"end", "exited"}
      BY <1>1, <3>1, <3>2 DEF Done
    <3>4. Done(program, content[Feed[2]], hand[2], at[2]) /\ at[2] \in {"end", "exited"}
      BY <1>1, <3>1, <3>3 DEF Done
    <3>5. Done(program, content[Feed[1]], hand[1], at[1]) /\ at[1] \in {"end", "exited"}
      BY <1>1, <3>1, <3>4 DEF Done
    <3>6. Done(program, content[Feed[0]], hand[0], at[0])
      BY <1>1, <3>1, <3>5
    <3>7. \A p \in 0..3 : p = 0 \/ p = 1 \/ p = 2 \/ p = 3
      OBVIOUS
    <3> QED
      BY <3>1, <3>3, <3>4, <3>5, <3>6, <3>7
  <2>2. CASE program = "pr_4"
    <3>1. Senders = -1..1 /\ LastChild = 2
      BY <2>2 DEF Senders, LastChild, Source, Main
    <3>2. at[2] \in {"end", "exited"}
      BY <3>1
    <3>3. Done(program, content[Feed[1]], hand[1], at[1]) /\ at[1] \in {"end", "exited"}
      BY <1>1, <3>1, <3>2 DEF Done
    <3>4. Done(program, content[Feed[0]], hand[0], at[0]) /\ at[0] \in {"end", "exited"}
      BY <1>1, <3>1, <3>3 DEF Done
    <3>5. Done(program, content[Feed[-1]], hand[-1], at[-1])
      BY <1>1, <3>1, <3>4
    <3>6. \A p \in -1..1 : p = -1 \/ p = 0 \/ p = 1
      OBVIOUS
    <3> QED
      BY <3>1, <3>3, <3>4, <3>5, <3>6
  <2> QED
    BY <1>0, <2>1, <2>2
<1>3. \A p \in Links : InPipe[p] = {} /\ InHand[p] = {}
  <2> SUFFICES ASSUME NEW p \in Links PROVE InPipe[p] = {} /\ InHand[p] = {}
    OBVIOUS
  <2>1. hand[p] = <<>> /\ content[Feed[p]] \in {<<>>, <<END>>}
    BY <1>0, <1>2, LinksShape DEF Done
  <2> HIDE DEF END
  <2> QED
    BY <2>1, KeysEmpty DEF InPipe, InHand
<1>4. Sent = Items
  <2>1. at[Source] \in {"end", "exited"}
    BY <1>0, <1>2, Shape DEF Done
  <2> QED
    BY <2>1 DEF Alive, Sent
<1>5. 1..Items \subseteq Dropped \cup Through
  BY <1>3, <1>4 DEF Flowing, Covered
<1> QED
  BY <1>2, <1>3, <1>4, <1>5

(* SumsRight from the invariant: what is printed are the running sums, in    *)
(* order, and at the end all of them.                                        *)
LEMMA SumsAreRight ==
    ChainTypes /\ EndLast /\ Alive /\ Flowing /\ Climbing /\ Summing => SumsRight
<1> SUFFICES ASSUME ChainTypes, EndLast, Alive, Flowing, Climbing, Summing, program = "cv_4"
             PROVE  SumsRight
  BY DEF SumsRight
<1> DEFINE M == memory[3]
           n == Len(M)
<1>0. /\ 3 \in Procs /\ Senders \ Links = {3} /\ LastChild = 4 /\ 4 \in Procs
      /\ memory \in [Procs -> Seq(Nat)] /\ printed \in Seq(Messages)
  <2>1. program \in {"cv_4", "pr_4"}
    BY Kinds
  <2> QED
    BY <2>1, Shape, LinksShape DEF ChainTypes, DataTypes
<1>1. M \in Seq(Nat) /\ n \in Nat /\ Len(printed) \in Nat
  BY <1>0, LenProperties
<1>2. Tally(M, printed, content[Feed[3]], hand[3])
  BY DEF Summing
<1>3. Through = Elements(M) /\ Rising(M) /\ Through \subseteq Kept
  BY DEF Through, Climbing, Flowing, Picked
<1>4. /\ \A k \in 1..Sent :
            k \in Kept => k \in Through \/ \E p \in Links : k \in InPipe[p] \cup InHand[p]
      /\ \A p \in Links : Below(Through, InPipe[p] \cup InHand[p])
      /\ Through \subseteq 1..Sent /\ Sent \in Nat
  BY FlowTypes DEF Flowing, Covered, InOrder, Dropped
<1>5. Kept \subseteq 1..Items
  BY StageChainAssumption
<1> HIDE DEF M
<1>6. \A i \in 1..n : M[i] \in Nat /\ M[i] \in Through
  BY <1>1, <1>3, ElementOfSeq DEF Elements
<1>7. ASSUME NEW i \in 1..n, NEW k \in Kept, k <= M[i]
      PROVE  \E l \in 1..i : M[l] = k
  <2>1. k \in 1..Sent
    BY <1>4, <1>5, <1>6, <1>7
  <2>2. k \in Through
    <3>1. SUFFICES ASSUME NEW p \in Links, k \in InPipe[p] \cup InHand[p] PROVE FALSE
      BY <1>4, <2>1
    <3>2. M[i] < k
      BY <1>4, <1>6, <3>1 DEF Below
    <3> QED
      BY <1>6, <1>7, <2>1, <3>2
  <2>3. PICK l \in 1..n : M[l] = k
    BY <1>3, <2>2 DEF Elements
  <2>4. ~(i < l)
    <3>1. i < l => M[i] < M[l]
      BY <1>3 DEF Rising
    <3> QED
      BY <1>6, <1>7, <2>1, <2>3, <3>1
  <2> QED
    BY <1>1, <2>3, <2>4
<1>8. ASSUME NEW i \in 1..Len(printed)
      PROVE  Len(printed[i]) = i /\ RunningSum(printed[i]) /\ printed[i][i] = M[i] /\ i \in 1..n
  <2> DEFINE s == printed[i]
  <2>1. IsSum(s, M, i)
    BY <1>2 DEF Tally
  <2>2. Len(s) = i /\ i <= n /\ (\A j \in 1..i : s[j] = M[j]) /\ i \in 1..n /\ i \in 1..i
        /\ \A j \in 1..i : j \in 1..n
    BY <1>1, <2>1 DEF IsSum
  <2> HIDE DEF s
  <2>3. \A j, l \in 1..i : j < l => s[j] < s[l]
    BY <1>3, <2>2 DEF Rising
  <2>4. ASSUME NEW j \in 1..i PROVE s[j] \in Kept /\ s[j] <= s[i]
    <3>1. s[j] \in Kept /\ s[j] \in Nat /\ s[i] \in Nat
      BY <1>3, <1>6, <2>2
    <3>2. CASE j = i
      BY <3>1, <3>2
    <3>3. CASE j < i
      BY <2>2, <2>3, <3>1, <3>3
    <3> QED
      BY <1>1, <3>1, <3>2, <3>3
  <2>5. ASSUME NEW k \in Kept, k <= s[i] PROVE \E l \in 1..i : s[l] = k
    <3>1. k <= M[i]
      BY <2>2, <2>5
    <3>2. PICK l \in 1..i : M[l] = k
      BY <1>7, <2>2, <3>1
    <3> QED
      BY <2>2, <3>2
  <2>6. {s[j] : j \in 1..i} = {k \in Kept : k <= s[i]}
    BY <2>4, <2>5
  <2>7. RunningSum(s)
    BY <2>2, <2>3, <2>6 DEF RunningSum
  <2> QED
    BY <2>2, <2>7 DEF s
<1>9. ASSUME failures = 0, at[LastChild] = "exited"
      PROVE  {printed[i][i] : i \in 1..Len(printed)} = Kept
  <2>1. /\ Done(program, content[Feed[3]], hand[3], at[3])
        /\ 1..Items \subseteq Dropped \cup Through
    BY <1>0, <1>9, AllSent
  <2>2. content[Feed[3]] = <<END>> /\ hand[3] = <<>>
    BY <2>1 DEF Done
  <2>3. Real(<<END>>) = 0 /\ Real(<<>>) = 0
    BY RealFacts
  <2>4. n = Len(printed)
    <3> HIDE DEF END
    <3>1. n = Len(printed) + Real(<<END>>) + Real(<<>>)
      BY <1>2, <2>2 DEF Tally
    <3> QED
      BY <1>1, <2>3, <3>1
  <2>5. Through = Kept
    BY <1>3, <1>5, <2>1 DEF Dropped
  <2>6. {printed[i][i] : i \in 1..Len(printed)} = {M[i] : i \in 1..Len(printed)}
    BY <1>8
  <2> QED
    BY <1>3, <2>4, <2>5, <2>6 DEF Elements
<1>10. failures = 0 => \A p \in Procs : at[p] # "killed"
  BY DEF Alive
<1> QED
  BY <1>8, <1>9, <1>10 DEF SumsRight

-----------------------------------------------------------------------------
(* pr_4: the numbers of the names *)

(* The lines r+1 up to g wait in the first pipe and in the hand of the parent. *)
Queue(g, s, h, r) ==
    /\ r \in Nat /\ g = r + Len(s) + Len(h)
    /\ \A i \in 1..Len(s) : s[i] = <<r + i>>
    /\ \A i \in 1..Len(h) : h[i] = <<g>>

(* Each name is one of the first r lines, and its number counts those before  *)
(* and with it that were not swallowed (L).                                   *)
IsNumbered(m, L, r) == m[1] \in 1..r /\ m = <<m[1], Cardinality(1..m[1] \ L)>>
Numbered(s, L, r) == \A i \in 1..Len(s) : IsNumbered(s[i], L, r)

Reached == Sent - Len(content[Feed[Main]]) - Len(hand[Main])
Naming ==
    program = "pr_4" =>
        /\ Queue(Sent, content[Feed[Main]], hand[Main], Reached)
        /\ lost[0] \subseteq 1..Reached
        /\ Len(memory[0]) = Cardinality(1..Reached \ lost[0])
        /\ Numbered(printed, lost[0], Reached)
        /\ \A p \in {0, 1} : /\ Numbered(content[Feed[p]], lost[0], Reached)
                             /\ Numbered(hand[p], lost[0], Reached)

(* The parent reads the next line of the file. *)
LEMMA QueueMakes ==
    ASSUME NEW g, NEW s \in Seq(Messages), NEW r, Queue(g, s, <<>>, r)
    PROVE  Queue(g + 1, s, <<<<g + 1>>>>, r)
<1> DEFINE m == <<g + 1>>
<1>1. Len(<<>>) = 0 /\ Len(s) \in Nat
  BY EmptySeq, LenProperties
<1>2. r \in Nat /\ g = r + Len(s)
  BY <1>1 DEF Queue
<1> HIDE DEF m
<1>3. Len(<<m>>) = 1 /\ <<m>>[1] = m /\ \A i \in 1..1 : i = 1
  BY One
<1>4. \A i \in 1..Len(<<m>>) : <<m>>[i] = m
  BY <1>3
<1>5. Queue(g + 1, s, <<m>>, r)
  BY <1>1, <1>2, <1>3, <1>4 DEF Queue, m
<1> QED
  BY <1>5 DEF m

(* It writes the line to the first pipe. *)
LEMMA QueuePuts ==
    ASSUME NEW g, NEW s \in Seq(Messages), NEW e \in Messages, NEW r, Queue(g, s, <<e>>, r)
    PROVE  Queue(g, Append(s, e), <<>>, r)
<1> DEFINE a == Append(s, e)
           n == Len(s)
<1>1. /\ Len(a) = n + 1 /\ n \in Nat /\ a[n + 1] = e /\ \A i \in 1..n : a[i] = s[i]
      /\ \A i \in 1..(n + 1) : i \in 1..n \/ i = n + 1
  BY Appended
<1>2. Len(<<e>>) = 1 /\ <<e>>[1] = e /\ 1 \in 1..1 /\ Len(<<>>) = 0 /\ 1..0 = {}
  BY One, EmptySeq
<1>3. r \in Nat /\ g = r + (n + 1) /\ e = <<g>> /\ \A i \in 1..n : s[i] = <<r + i>>
  BY <1>1, <1>2 DEF Queue
<1> HIDE DEF a, n
<1>4. \A i \in 1..Len(a) : a[i] = <<r + i>>
  BY <1>1, <1>3
<1>5. g = r + Len(a) + Len(<<>>)
  BY <1>1, <1>2, <1>3
<1>6. Queue(g, a, <<>>, r)
  BY <1>2, <1>3, <1>4, <1>5 DEF Queue
<1> QED
  BY <1>6 DEF a

(* The first line that waits is used, the others are swallowed. *)
LEMMA QueueEmptied ==
    ASSUME NEW g, NEW s \in Seq(Messages), s # <<>>, NEW h \in Seq(Messages), NEW r,
           Queue(g, s, h, r)
    PROVE  LET t == Len(s)
               D == {s[i][1] : i \in {j \in 2..t : s[j] # END}}
           IN /\ t \in Nat /\ t >= 1 /\ s[1] = <<r + 1>> /\ D = (r + 2)..(r + t)
              /\ SubSeq(s, t + 1, t) = <<>> /\ Queue(g, <<>>, h, r + t)
<1> DEFINE t == Len(s)
           D == {s[i][1] : i \in {j \in 2..t : s[j] # END}}
<1>1. t \in Nat /\ t >= 1 /\ 1 \in 1..t /\ r \in Nat /\ Len(h) \in Nat
  BY NotEmpty, LenProperties DEF Queue
<1>2. \A i \in 1..t : s[i] = <<r + i>>
  BY DEF Queue
<1>3. \A k \in Nat : <<k>> # END /\ <<k>>[1] = k
  BY One DEF END
<1>4. D = (r + 2)..(r + t)
  <2> HIDE DEF END, t
  <2>1. \A i \in 2..t : s[i] = <<r + i>> /\ r + i \in Nat /\ r + i \in (r + 2)..(r + t)
    BY <1>1, <1>2
  <2>2. \A i \in 2..t : s[i] # END /\ s[i][1] = r + i
    BY <1>3, <2>1
  <2>3. \A x : x \in D <=> \E i \in 2..t : s[i] # END /\ x = s[i][1]
    OBVIOUS
  <2>4. ASSUME NEW x \in (r + 2)..(r + t) PROVE x - r \in 2..t /\ x = r + (x - r)
    BY <1>1
  <2> HIDE DEF D
  <2>5. \A x : x \in D <=> \E i \in 2..t : x = r + i
    BY <2>2, <2>3
  <2>6. D \subseteq (r + 2)..(r + t)
    BY <2>1, <2>5
  <2>7. (r + 2)..(r + t) \subseteq D
    BY <2>4, <2>5
  <2> QED
    BY <2>6, <2>7
<1>5. SubSeq(s, t + 1, t) = <<>>
  <2> DEFINE u == SubSeq(s, t + 1, Len(s))
  <2>1. t \in 0..Len(s)
    BY <1>1
  <2> HIDE DEF t
  <2>2. u \in Seq(Messages) /\ Len(u) = Len(s) - t
    BY <2>1, Behind
  <2>3. Len(u) = 0
    BY <1>1, <2>2 DEF t
  <2> HIDE DEF u
  <2>4. u = <<>>
    BY <2>2, <2>3, EmptySeq
  <2> QED
    BY <2>4 DEF u, t
<1>6. Queue(g, <<>>, h, r + t)
  <2>1. Len(<<>>) = 0 /\ 1..0 = {}
    BY EmptySeq
  <2>2. r + t \in Nat /\ g = r + t + Len(<<>>) + Len(h)
    BY <1>1, <2>1 DEF Queue
  <2> HIDE DEF t
  <2> QED
    BY <2>1, <2>2 DEF Queue
<1>7. s[1] = <<r + 1>>
  BY <1>1, <1>2
<1> QED
  BY <1>1, <1>4, <1>5, <1>6, <1>7

(* The count goes up by the one line that was used. *)
LEMMA CountUp ==
    ASSUME NEW r \in Nat, NEW t \in Nat, t >= 1, NEW L \in SUBSET (1..r)
    PROVE  LET Z == L \cup ((r + 2)..(r + t)) IN
           /\ Cardinality(1..(r + t) \ Z) = Cardinality(1..r \ L) + 1
           /\ Cardinality(1..(r + 1) \ Z) = Cardinality(1..r \ L) + 1
           /\ Z \subseteq 1..(r + t)
           /\ \A k \in 1..r : 1..k \ Z = 1..k \ L
           /\ Cardinality(1..r \ L) \in Nat
<1> DEFINE Z == L \cup ((r + 2)..(r + t))
           A == 1..r \ L
<1>1. /\ 1..(r + t) \ Z = A \cup {r + 1} /\ 1..(r + 1) \ Z = A \cup {r + 1}
      /\ Z \subseteq 1..(r + t) /\ \A k \in 1..r : 1..k \ Z = 1..k \ L
      /\ r + 1 \notin A
  OBVIOUS
<1>2. IsFiniteSet(A)
  <2>1. IsFiniteSet(1..r)
    BY FS_Interval
  <2> QED
    BY <2>1, FS_Subset
<1> HIDE DEF A, Z
<1>3. Cardinality(A \cup {r + 1}) = Cardinality(A) + 1 /\ Cardinality(A) \in Nat
  BY <1>1, <1>2, FS_AddElement, FS_CardinalityType
<1> QED
  BY <1>1, <1>3 DEF A, Z

(* Numbered names stay so when one is put in or taken out. *)
LEMMA NumberedSteps ==
    ASSUME NEW s \in Seq(Messages), NEW L, NEW r \in Nat, Numbered(s, L, r)
    PROVE  /\ \A m \in Messages : IsNumbered(m, L, r) => Numbered(Append(s, m), L, r)
           /\ \A t \in 1..Len(s) : Numbered(SubSeq(s, t + 1, Len(s)), L, r)
           /\ s # <<>> => IsNumbered(s[1], L, r)
<1>1. ASSUME NEW e \in Messages, IsNumbered(e, L, r) PROVE Numbered(Append(s, e), L, r)
  <2> DEFINE a == Append(s, e)
  <2>1. /\ Len(a) = Len(s) + 1 /\ Len(s) \in Nat /\ a[Len(s) + 1] = e
        /\ \A i \in 1..Len(s) : a[i] = s[i]
        /\ \A i \in 1..(Len(s) + 1) : i \in 1..Len(s) \/ i = Len(s) + 1
    BY Appended
  <2> HIDE DEF a
  <2>2. Numbered(a, L, r)
    BY <1>1, <2>1 DEF Numbered
  <2> QED
    BY <2>2 DEF a
<1>2. ASSUME NEW t \in 1..Len(s) PROVE Numbered(SubSeq(s, t + 1, Len(s)), L, r)
  <2> DEFINE u == SubSeq(s, t + 1, Len(s))
  <2>1. t \in 0..Len(s)
    OBVIOUS
  <2>2. Len(u) = Len(s) - t /\ \A k \in 1..(Len(s) - t) : u[k] = s[t + k] /\ t + k \in 1..Len(s)
    BY <2>1, Behind
  <2> HIDE DEF u
  <2>3. Numbered(u, L, r)
    BY <2>2 DEF Numbered
  <2> QED
    BY <2>3 DEF u
<1>3. s # <<>> => IsNumbered(s[1], L, r)
  BY NotEmpty DEF Numbered
<1> QED
  BY <1>1, <1>2, <1>3

(* The same for one message alone. *)
LEMMA NumberedOne ==
    ASSUME NEW L, NEW r
    PROVE  /\ Numbered(<<>>, L, r)
           /\ \A m \in Messages : IsNumbered(m, L, r) => Numbered(<<m>>, L, r)
<1>1. Numbered(<<>>, L, r)
  BY EmptySeq DEF Numbered
<1>2. ASSUME NEW m \in Messages, IsNumbered(m, L, r) PROVE Numbered(<<m>>, L, r)
  <2>1. Len(<<m>>) = 1 /\ <<m>>[1] = m /\ \A i \in 1..1 : i = 1
    BY One
  <2> QED
    BY <1>2, <2>1 DEF Numbered
<1> QED
  BY <1>1, <1>2

(* What is lost later does not touch the numbers given before. *)
LEMMA NumberedStays ==
    ASSUME NEW s, NEW L, NEW Z, NEW r \in Nat, NEW t \in Nat, Numbered(s, L, r),
           \A k \in 1..r : 1..k \ Z = 1..k \ L
    PROVE  Numbered(s, Z, r + t)
<1> SUFFICES ASSUME NEW i \in 1..Len(s) PROVE IsNumbered(s[i], Z, r + t)
  BY DEF Numbered
<1>1. s[i][1] \in 1..r /\ s[i] = <<s[i][1], Cardinality(1..s[i][1] \ L)>>
  BY DEF Numbered, IsNumbered
<1>2. 1..s[i][1] \ Z = 1..s[i][1] \ L /\ s[i][1] \in 1..(r + t)
  BY <1>1
<1> QED
  BY <1>1, <1>2 DEF IsNumbered

(* The three writers of pr_4 and their pipes. *)
LEMMA NamesShape ==
    ASSUME ChainTypes, program = "pr_4"
    PROVE  /\ Source = Main /\ LastChild = 2 /\ Main = -1 /\ Senders = {Main, 0, 1}
           /\ Main \in Procs /\ 0 \in Procs /\ 1 \in Procs /\ Main \in Senders
           /\ content \in [Pipes -> Seq(Messages)] /\ hand \in [Procs -> Seq(Messages)]
           /\ memory \in [Procs -> Seq(Nat)] /\ printed \in Seq(Messages)
           /\ lost \in [Procs -> SUBSET Nat]
           /\ \A p \in Senders : /\ p \in Procs /\ Feed[p] \in Pipes /\ hand[p] \in Seq(Messages)
                                 /\ content[Feed[p]] \in Seq(Messages)
                                 /\ \A q \in Senders : q # p => Feed[q] # Feed[p]
<1>1. /\ Source = Main /\ LastChild = 2 /\ Main = -1
  BY LinksShape DEF Main
<1>2. Senders = {Main, 0, 1}
  BY <1>1 DEF Senders
<1>3. /\ content \in [Pipes -> Seq(Messages)] /\ hand \in [Procs -> Seq(Messages)]
      /\ memory \in [Procs -> Seq(Nat)] /\ printed \in Seq(Messages)
      /\ lost \in [Procs -> SUBSET Nat]
  BY DEF ChainTypes, DataTypes
<1>4. \A p \in Senders : p \in Procs /\ Feed[p] \in Pipes
  BY Link
<1>5. \A p, q \in Senders : q # p => Feed[q] # Feed[p]
  BY Shape
<1> QED
  BY <1>1, <1>2, <1>3, <1>4, <1>5

(* No name is numbered at the start. *)
LEMMA InitNaming == Init => Naming
<1> SUFFICES ASSUME Init, program = "pr_4" PROVE Naming
  BY DEF Naming
<1>0. ChainTypes
  BY InitTypes
<1>1. \A p \in Senders : content[Feed[p]] = <<>> /\ hand[p] = <<>>
  BY <1>0, NamesShape DEF Init
<1>2. memory[0] = <<>> /\ memory[Source] = <<>> /\ printed = <<>> /\ lost[0] = {}
  BY <1>0, NamesShape DEF Init
<1>3. Len(<<>>) = 0 /\ 1..0 = {}
  BY EmptySeq
<1>4. Sent = 0 /\ Reached = 0
  <2>1. Main \in Senders
    BY <1>0, NamesShape
  <2>2. Len(content[Feed[Main]]) = 0 /\ Len(hand[Main]) = 0
    BY <1>1, <1>3, <2>1
  <2>3. Sent = 0
    BY <1>2, <1>3 DEF Sent
  <2> QED
    BY <2>2, <2>3 DEF Reached
<1>5. Queue(0, <<>>, <<>>, 0)
  BY <1>3 DEF Queue
<1>6. Cardinality(1..0 \ {}) = 0
  BY <1>3, FS_EmptySet
<1>7. Numbered(<<>>, {}, 0)
  BY NumberedOne
<1> QED
  BY <1>0, <1>1, <1>2, <1>3, <1>4, <1>5, <1>6, <1>7, NamesShape DEF Naming

(* The parts of Naming that a step has to keep. *)
LEMMA NamingFrom ==
    ASSUME ChainTypes, program = "pr_4", [Next]_vars, NEW r \in Nat,
           Queue(Sent', content'[Feed[Main]], hand'[Main], r),
           lost'[0] \subseteq 1..r, Len(memory'[0]) = Cardinality(1..r \ lost'[0]),
           Numbered(printed', lost'[0], r),
           \A p \in {0, 1} : /\ Numbered(content'[Feed[p]], lost'[0], r)
                             /\ Numbered(hand'[p], lost'[0], r)
    PROVE  Naming'
<1>1. ChainTypes' /\ program' = program /\ Feed' = Feed
  BY StepTypes, Onwards
<1>2. content'[Feed[Main]] \in Seq(Messages) /\ hand'[Main] \in Seq(Messages)
  <2>1. Main \in Senders /\ Main \in Procs /\ Feed[Main] \in Pipes
    BY NamesShape
  <2> QED
    BY <2>1, StepData, Onwards DEF DataTypes
<1>3. Len(content'[Feed[Main]]) \in Nat /\ Len(hand'[Main]) \in Nat
  BY <1>2, LenProperties
<1>4. Reached' = Sent' - Len(content'[Feed[Main]]) - Len(hand'[Main])
  BY <1>1 DEF Reached, Main
<1>5. Sent' = r + Len(content'[Feed[Main]]) + Len(hand'[Main])
  BY DEF Queue
<1>6. Reached' = r
  <2>1. \A a, b \in Nat : (r + a + b) - a - b = r
    OBVIOUS
  <2> QED
    BY <1>3, <1>4, <1>5, <2>1
<1>7. Main' = Main
  BY DEF Main
<1> QED
  BY <1>1, <1>6, <1>7 DEF Naming

(* A step that moves no name changes no number. *)
LEMMA NamingStill ==
    ASSUME ChainTypes, program = "pr_4", Naming, [Next]_vars, Sent' = Sent, lost'[0] = lost[0],
           memory'[0] = memory[0], printed' = printed,
           \A p \in Senders : content'[Feed[p]] = content[Feed[p]] /\ hand'[p] = hand[p]
    PROVE  Naming'
<1>1. Senders = {Main, 0, 1} /\ Reached \in Nat
  BY NamesShape DEF Naming, Queue
<1> QED
  BY <1>1, NamingFrom DEF Naming

(* A line that is read waits behind the others. *)
LEMMA NamingGenerate ==
    ASSUME ChainTypes, program = "pr_4", Naming, [Next]_vars, NEW p \in Procs, Generate(p)
    PROVE  Naming'
<1> DEFINE k == Len(memory[p]) + 1
           m == <<k>>
           s == content[Feed[Main]]
           r == Reached
<1>0. /\ p = Main /\ Source = Main /\ Senders = {Main, 0, 1} /\ Main = -1 /\ Main \in Procs
      /\ 0 \in Procs /\ memory[Main] \in Seq(Nat) /\ s \in Seq(Messages) /\ r \in Nat
      /\ hand \in [Procs -> Seq(Messages)] /\ memory \in [Procs -> Seq(Nat)]
      /\ 1 \in Procs
  BY NamesShape DEF Generate, Naming, Queue
<1>1. /\ memory' = [memory EXCEPT ![p] = Append(@, k)] /\ hand[p] = <<>>
      /\ hand' = [hand EXCEPT ![p] = <<m>>] /\ UNCHANGED <<content, printed, lost>>
  BY DEF Generate, pipes
<1>2. k \in Nat /\ Len(Append(memory[Main], k)) = k
  <2>1. k \in Nat
    BY <1>0, LenProperties
  <2> HIDE DEF k
  <2>2. Len(Append(memory[Main], k)) = Len(memory[Main]) + 1
    BY <1>0, <2>1, Appended
  <2> QED
    BY <1>0, <2>1, <2>2 DEF k
<1>3. Sent' = k /\ k = Sent + 1
  <2>1. Source' = Source
    BY Onwards
  <2>2. memory'[Main] = Append(memory[Main], k)
    BY <1>0, <1>1
  <2> QED
    BY <1>0, <1>2, <2>1, <2>2 DEF Sent
<1>4. /\ hand'[Main] = <<m>> /\ hand'[0] = hand[0] /\ hand'[1] = hand[1]
      /\ memory'[0] = memory[0] /\ content' = content /\ lost' = lost /\ printed' = printed
  <2> HIDE DEF k, m
  <2>1. hand'[Main] = <<m>> /\ hand'[0] = hand[0] /\ hand'[1] = hand[1]
    BY <1>0, <1>1
  <2>2. memory'[0] = memory[0]
    BY <1>0, <1>1
  <2> QED
    BY <1>1, <2>1, <2>2
<1>5. Queue(Sent, s, <<>>, r)
  BY <1>0, <1>1 DEF Naming
<1> HIDE DEF s, r, k
<1>6. Queue(Sent', s, <<m>>, r)
  BY <1>0, <1>3, <1>5, QueueMakes
<1> HIDE DEF m
<1> QED
  BY <1>0, <1>4, <1>6, NamingFrom DEF Naming, s, r

(* A name that is passed on keeps its number. *)
LEMMA NamingWrite ==
    ASSUME ChainTypes, program = "pr_4", Naming, [Next]_vars, NEW p \in Procs, Write(p)
    PROVE  Naming'
<1> DEFINE e == Head(hand[p])
           r == Reached
           L == lost[0]
<1>0. /\ Senders = {Main, 0, 1} /\ Main = -1 /\ r \in Nat /\ Source = Main
      /\ hand \in [Procs -> Seq(Messages)] /\ content \in [Pipes -> Seq(Messages)]
      /\ \A q \in Senders : /\ q \in Procs /\ Feed[q] \in Pipes /\ hand[q] \in Seq(Messages)
                            /\ content[Feed[q]] \in Seq(Messages)
                            /\ \A x \in Senders : x # q => Feed[x] # Feed[q]
  BY NamesShape DEF Naming, Queue
<1>1. /\ hand[p] # <<>> /\ content' = [content EXCEPT ![Out(p)] = Append(@, e)]
      /\ hand' = [hand EXCEPT ![p] = <<>>] /\ UNCHANGED <<memory, printed, lost>>
  BY DEF Write
<1>2. p \in Senders /\ Len(hand[p]) = 1 /\ Out(p) = Feed[p]
  <2>1. p \in Senders /\ Len(hand[p]) = 1
    BY <1>1 DEF ChainTypes, DataTypes
  <2> QED
    BY <2>1, Link
<1>3. hand[p] = <<e>> /\ e \in Messages
  BY <1>0, <1>2, OneMessage
<1>4. Sent' = Sent
  BY <1>1, Onwards DEF Sent
<1>5. /\ content'[Feed[p]] = Append(content[Feed[p]], e) /\ hand'[p] = <<>>
      /\ \A q \in Senders : q # p => content'[Feed[q]] = content[Feed[q]] /\ hand'[q] = hand[q]
  BY <1>0, <1>1, <1>2
<1> HIDE DEF e
<1>6. CASE p = Main
  <2>1. Queue(Sent, Append(content[Feed[Main]], e), <<>>, r)
    BY <1>0, <1>3, <1>6, QueuePuts DEF Naming
  <2>2. Queue(Sent', content'[Feed[Main]], hand'[Main], r)
    BY <1>4, <1>5, <1>6, <2>1
  <2>3. \A q \in {0, 1} : content'[Feed[q]] = content[Feed[q]] /\ hand'[q] = hand[q]
    BY <1>0, <1>5, <1>6
  <2>4. /\ L \subseteq 1..r /\ Len(memory[0]) = Cardinality(1..r \ L)
        /\ Numbered(printed, L, r)
        /\ \A q \in {0, 1} : Numbered(content[Feed[q]], L, r) /\ Numbered(hand[q], L, r)
    BY DEF Naming
  <2>5. lost' = lost /\ memory' = memory /\ printed' = printed
    BY <1>1
  <2>6. r \in Nat
    BY <1>0
  <2> HIDE DEF r
  <2> QED
    BY <2>2, <2>3, <2>4, <2>5, <2>6, NamingFrom
<1>7. CASE p \in {0, 1}
  <2>1. IsNumbered(e, L, r)
    <3>1. Numbered(hand[p], L, r)
      BY <1>7 DEF Naming
    <3>2. hand[p] # <<>> /\ e = hand[p][1]
      BY <1>0, <1>1, <1>2, NotEmpty DEF e
    <3> QED
      BY <1>0, <1>2, <3>1, <3>2, NumberedSteps
  <2>2. Numbered(Append(content[Feed[p]], e), L, r) /\ Numbered(<<>>, L, r)
    BY <1>0, <1>2, <1>3, <1>7, <2>1, NumberedSteps, NumberedOne DEF Naming
  <2>3. \A q \in {0, 1} : /\ Numbered(content'[Feed[q]], L, r)
                          /\ Numbered(hand'[q], L, r)
    <3>1. \A q \in {0, 1} : Numbered(content[Feed[q]], L, r) /\ Numbered(hand[q], L, r)
      BY DEF Naming
    <3>2. Numbered(content'[Feed[p]], L, r) /\ Numbered(hand'[p], L, r)
      BY <1>5, <2>2
    <3>3. \A q \in {0, 1} : q # p => content'[Feed[q]] = content[Feed[q]] /\ hand'[q] = hand[q]
      BY <1>0, <1>5
    <3> QED
      BY <3>1, <3>2, <3>3
  <2>4. content'[Feed[Main]] = content[Feed[Main]] /\ hand'[Main] = hand[Main]
    BY <1>0, <1>5, <1>7
  <2> QED
    BY <1>0, <1>1, <1>4, <2>3, <2>4, NamingFrom DEF Naming
<1> QED
  BY <1>0, <1>2, <1>6, <1>7

(* The first child numbers the first name of a read and swallows the         *)
(* others, the last one prints.                                              *)
LEMMA NamingRead ==
    ASSUME ChainTypes, program = "pr_4", Naming, [Next]_vars, NEW p \in Procs, Read(p)
    PROVE  Naming'
<1> DEFINE q == content[In(p)]
           t == Taken(p)
           u == SubSeq(q, t + 1, Len(q))
           m == q[1]
           D == {q[i][1] : i \in {j \in 2..t : q[j] # END}}
           r == Reached
           L == lost[0]
<1>0. /\ Senders = {Main, 0, 1} /\ Main = -1 /\ r \in Nat /\ Source = Main /\ LastChild = 2
      /\ Main \in Procs /\ 0 \in Procs /\ 1 \in Procs
      /\ hand \in [Procs -> Seq(Messages)] /\ content \in [Pipes -> Seq(Messages)]
      /\ memory \in [Procs -> Seq(Nat)] /\ printed \in Seq(Messages)
      /\ lost \in [Procs -> SUBSET Nat]
      /\ \A x \in Senders : /\ x \in Procs /\ Feed[x] \in Pipes /\ hand[x] \in Seq(Messages)
                            /\ content[Feed[x]] \in Seq(Messages)
                            /\ \A y \in Senders : y # x => Feed[y] # Feed[x]
  BY NamesShape DEF Naming, Queue
<1>1. p \in Children
  BY DEF Read
<1>2. /\ q \in Seq(Messages) /\ q # <<>> /\ m \in Messages /\ m # END /\ t \in 1..Len(q)
      /\ p - 1 \in Senders /\ In(p) = Feed[p - 1] /\ m[1] \in Nat
      /\ hand' = [hand EXCEPT ![p] = Result(p, m)]
      /\ memory' = [memory EXCEPT ![p] = Remembered(p, m)]
      /\ printed' = IF p = LastChild THEN Append(printed, m) ELSE printed
      /\ content' = [content EXCEPT ![In(p)] = u]
  BY <1>1, ReadFacts
<1>3. lost' = [lost EXCEPT ![p] = @ \cup D]
  BY <1>1, ReadFacts
<1>4. t = Len(q) /\ p \in {0, 1, 2}
  <2>1. p - 1 \in {Main, 0, 1}
    BY <1>0, <1>2
  <2>2. p \in Int
    BY Shape
  <2>3. t = Len(q)
    <3>1. p # Source
      BY DEF Read
    <3> QED
      BY <1>1, <1>2, <3>1, TakenSome
  <2> QED
    BY <1>0, <2>1, <2>2, <2>3
<1>5. Sent' = Sent
  <2>1. memory'[Source] = memory[Source]
    BY <1>0, <1>2, <1>4
  <2> QED
    BY <2>1, Onwards DEF Sent
<1>6. CASE p = 0
  <2> DEFINE s == content[Feed[Main]]
             h == hand[Main]
             v == Len(memory[0]) + 1
             Z == L \cup D
  <2>1. q = s /\ In(p) = Feed[Main] /\ t = Len(s)
    BY <1>0, <1>2, <1>4, <1>6
  <2>2. Queue(Sent, s, h, r) /\ L \subseteq 1..r /\ Len(memory[0]) = Cardinality(1..r \ L)
    BY DEF Naming
  <2>3. /\ t \in Nat /\ t >= 1 /\ m = <<r + 1>> /\ D = (r + 2)..(r + t)
        /\ u = <<>> /\ Queue(Sent, <<>>, h, r + t)
    <3> HIDE DEF r, s, h
    <3>1. LET n == Len(s)
              B == {s[i][1] : i \in {j \in 2..n : s[j] # END}}
          IN /\ n \in Nat /\ n >= 1 /\ s[1] = <<r + 1>> /\ B = (r + 2)..(r + n)
             /\ SubSeq(s, n + 1, n) = <<>> /\ Queue(Sent, <<>>, h, r + n)
      <4>1. s \in Seq(Messages) /\ s # <<>> /\ h \in Seq(Messages)
        BY <1>0, <1>2, <2>1 DEF s, h
      <4> QED
        BY <2>2, <4>1, QueueEmptied
    <3>2. q = s /\ t = Len(s)
      BY <2>1
    <3> QED
      BY <3>1, <3>2
  <2>4. /\ content'[Feed[Main]] = <<>> /\ hand'[Main] = h /\ printed' = printed
        /\ lost'[0] = Z /\ hand'[1] = hand[1] /\ hand'[0] = Result(0, m)
        /\ memory'[0] = Remembered(0, m)
        /\ \A x \in {0, 1} : content'[Feed[x]] = content[Feed[x]]
    <3> HIDE DEF u, m, D, q
    <3>1. content'[Feed[Main]] = <<>> /\ \A x \in {0, 1} : content'[Feed[x]] = content[Feed[x]]
      <4>1. content' = [content EXCEPT ![Feed[Main]] = u]
        BY <1>2, <2>1
      <4>2. \A x \in {0, 1} : Feed[x] # Feed[Main] /\ Feed[x] \in Pipes
        BY <1>0
      <4>3. Feed[Main] \in Pipes /\ u = <<>>
        BY <1>0, <2>3
      <4> QED
        BY <1>0, <4>1, <4>2, <4>3
    <3>2. hand'[Main] = h /\ hand'[1] = hand[1] /\ hand'[0] = Result(0, m)
      BY <1>0, <1>2, <1>6
    <3>3. lost'[0] = Z /\ memory'[0] = Remembered(0, m) /\ printed' = printed
      BY <1>0, <1>2, <1>3, <1>6
    <3> QED
      BY <3>1, <3>2, <3>3
  <2>5. /\ Cardinality(1..(r + t) \ Z) = v /\ Cardinality(1..(r + 1) \ Z) = v
        /\ Z \subseteq 1..(r + t) /\ \A k \in 1..r : 1..k \ Z = 1..k \ L
        /\ v \in Nat
    <3> HIDE DEF r, L, D, t
    <3>1. L \in SUBSET (1..r)
      BY <2>2
    <3>2. /\ r \in Nat /\ t \in Nat /\ t >= 1 /\ Len(memory[0]) = Cardinality(1..r \ L)
          /\ D = (r + 2)..(r + t)
      BY <1>0, <2>2, <2>3
    <3> DEFINE B == L \cup ((r + 2)..(r + t))
    <3>3. /\ Cardinality(1..(r + t) \ B) = Cardinality(1..r \ L) + 1
          /\ Cardinality(1..(r + 1) \ B) = Cardinality(1..r \ L) + 1
          /\ B \subseteq 1..(r + t)
          /\ \A k \in 1..r : 1..k \ B = 1..k \ L
          /\ Cardinality(1..r \ L) \in Nat
      BY <3>1, <3>2, CountUp
    <3>4. B = Z
      BY <3>2
    <3> HIDE DEF B, Z
    <3>5. v = Cardinality(1..r \ L) + 1 /\ v \in Nat
      BY <3>2, <3>3
    <3> QED
      BY <3>3, <3>4, <3>5
  <2>6. Result(0, m) = <<<<r + 1, v>>>> /\ Remembered(0, m) = Append(memory[0], r + 1)
    <3>1. ASSUME NEW a \in Nat, NEW c \in Nat PROVE Append(<<a>>, c) = <<a, c>> /\ <<a>>[1] = a
      <4> DEFINE x == <<a>>
                 y == Append(x, c)
                 z == <<a, c>>
      <4>1. x \in Seq(Nat) /\ Len(x) = 1 /\ x[1] = a
        OBVIOUS
      <4>2. z \in Seq(Nat) /\ Len(z) = 2 /\ z[1] = a /\ z[2] = c
        OBVIOUS
      <4> HIDE DEF x, z
      <4>3. /\ y \in Seq(Nat) /\ Len(y) = Len(x) + 1 /\ y[Len(x) + 1] = c
            /\ \A k \in 1..Len(x) : y[k] = x[k]
        <5>1. x \in Seq(Nat)
          BY <4>1
        <5> QED
          BY <5>1, Appended
      <4> HIDE DEF y
      <4>4. Len(y) = 2 /\ y[1] = a /\ y[2] = c
        BY <4>1, <4>3
      <4>5. \A k \in 1..Len(y) : y[k] = z[k]
        <5>1. \A k \in 1..2 : k = 1 \/ k = 2
          OBVIOUS
        <5> QED
          BY <4>2, <4>4, <5>1
      <4>6. y = z
        BY <4>2, <4>3, <4>4, <4>5, SeqEqual
      <4> QED
        BY <4>1, <4>6 DEF x, y, z
    <3>2. Result(0, m) = <<Append(m, v)>>
      <4>1. 0 # LastChild
        BY <1>0
      <4> HIDE DEF m
      <4>2. Result(0, m) = <<Append(m, Len(memory[0]) + 1)>>
        BY <4>1 DEF Result
      <4> QED
        BY <4>2
    <3>3. Remembered(0, m) = Append(memory[0], m[1])
      BY DEF Remembered
    <3>4. r + 1 \in Nat /\ v \in Nat
      BY <1>0, <2>5
    <3> HIDE DEF m, v, r
    <3>5. m = <<r + 1>>
      BY <2>3
    <3>6. Append(m, v) = <<r + 1, v>> /\ m[1] = r + 1
      BY <3>1, <3>4, <3>5
    <3> QED
      BY <3>2, <3>3, <3>6
  <2>7. Len(memory'[0]) = Cardinality(1..(r + t) \ Z)
    <3>1. memory[0] \in Seq(Nat) /\ r + 1 \in Nat
      BY <1>0
    <3> HIDE DEF r, Z, m
    <3>2. Len(Append(memory[0], r + 1)) = Len(memory[0]) + 1
      BY <3>1, Appended
    <3> QED
      BY <2>4, <2>5, <2>6, <3>2
  <2>8. Numbered(hand'[0], Z, r + t)
    <3> DEFINE x == <<r + 1, v>>
    <3>1. x \in Messages /\ x[1] = r + 1 /\ x[2] = v
      <4>1. r + 1 \in Nat
        BY <1>0
      <4> HIDE DEF r, v
      <4> QED
        BY <2>5, <4>1 DEF Messages
    <3>2. r + 1 \in 1..(r + t)
      BY <1>0, <2>3
    <3> HIDE DEF x
    <3>3. IsNumbered(x, Z, r + t)
      <4>1. x = <<r + 1, Cardinality(1..(r + 1) \ Z)>>
        BY <2>5 DEF x
      <4> HIDE DEF r, Z, t
      <4> QED
        BY <3>1, <3>2, <4>1 DEF IsNumbered
    <3>4. Numbered(<<x>>, Z, r + t)
      BY <3>1, <3>3, NumberedOne
    <3> QED
      BY <2>4, <2>6, <3>4 DEF x
  <2>9. /\ Numbered(printed, Z, r + t) /\ Numbered(hand[1], Z, r + t)
        /\ \A x \in {0, 1} : Numbered(content[Feed[x]], Z, r + t)
    <3>1. /\ Numbered(printed, L, r) /\ Numbered(hand[1], L, r)
          /\ \A x \in {0, 1} : Numbered(content[Feed[x]], L, r)
      BY DEF Naming
    <3> HIDE DEF r, L, Z, t
    <3> QED
      BY <1>0, <2>3, <2>5, <3>1, NumberedStays
  <2>10. r + t \in Nat
    <3>1. r \in Nat
      BY <1>0
    <3>2. t \in Nat
      BY <2>3
    <3> HIDE DEF r, t
    <3> QED
      BY <3>1, <3>2
  <2> HIDE DEF r, t, Z, L
  <2> QED
    BY <1>5, <2>3, <2>4, <2>5, <2>7, <2>8, <2>9, <2>10, NamingFrom
<1>7. CASE p \in {1, 2}
  <2>1. p - 1 \in {0, 1} /\ p - 1 # Main /\ p - 1 # p /\ p # Main
    BY <1>0, <1>7
  <2>2. Numbered(q, L, r)
    BY <1>2, <2>1 DEF Naming
  <2> HIDE DEF q, r, L
  <2>3. IsNumbered(m, L, r) /\ Numbered(u, L, r)
    BY <1>0, <1>2, <2>2, NumberedSteps
  <2> HIDE DEF u, m, t
  <2>4. /\ content'[Feed[p - 1]] = u /\ hand'[Main] = hand[Main] /\ hand'[0] = hand[0]
        /\ memory'[0] = memory[0] /\ lost'[0] = L
        /\ \A x \in Senders : x # p - 1 => content'[Feed[x]] = content[Feed[x]]
    <3>1. /\ content'[Feed[p - 1]] = u
          /\ \A x \in Senders : x # p - 1 => content'[Feed[x]] = content[Feed[x]]
      BY <1>0, <1>2
    <3>2. hand'[Main] = hand[Main] /\ hand'[0] = hand[0]
      <4>1. p # Main /\ p # 0
        BY <1>7, <2>1
      <4> QED
        BY <1>0, <1>2, <4>1
    <3>3. memory'[0] = memory[0]
      BY <1>0, <1>2, <1>7
    <3>4. lost'[0] = L
      BY <1>0, <1>3, <1>7 DEF L
    <3> QED
      BY <3>1, <3>2, <3>3, <3>4
  <2>5. Numbered(hand'[1], L, r)
    <3>1. CASE p = 1
      <4>1. Result(p, m) = <<m>>
        BY <1>0, <3>1 DEF Result
      <4>2. hand'[1] = <<m>>
        BY <1>0, <1>2, <3>1, <4>1
      <4> QED
        BY <1>2, <2>3, <4>2, NumberedOne
    <3>2. CASE p = 2
      <4>1. hand'[1] = hand[1]
        BY <1>0, <1>2, <3>2
      <4> QED
        BY <4>1 DEF Naming, r, L
    <3> QED
      BY <1>7, <3>1, <3>2
  <2>6. Numbered(printed', L, r)
    <3>1. Numbered(printed, L, r)
      BY DEF Naming, r, L
    <3> QED
      BY <1>0, <1>2, <2>3, <3>1, NumberedSteps
  <2>7. \A x \in {0, 1} : Numbered(content'[Feed[x]], L, r) /\ Numbered(hand'[x], L, r)
    <3>1. \A x \in {0, 1} : Numbered(content[Feed[x]], L, r) /\ Numbered(hand[x], L, r)
      BY DEF Naming, r, L
    <3>2. \A x \in {0, 1} : Numbered(content'[Feed[x]], L, r)
      BY <1>0, <2>1, <2>3, <2>4, <3>1
    <3> QED
      BY <2>4, <2>5, <3>1, <3>2
  <2>8. content'[Feed[Main]] = content[Feed[Main]]
    BY <1>0, <2>1, <2>4
  <2>9. /\ Queue(Sent, content[Feed[Main]], hand[Main], r) /\ L \subseteq 1..r
        /\ Len(memory[0]) = Cardinality(1..r \ L)
    BY DEF Naming, r, L
  <2> QED
    BY <1>0, <1>5, <2>4, <2>6, <2>7, <2>8, <2>9, NamingFrom
<1> QED
  BY <1>4, <1>6, <1>7

(* Every step keeps names and numbers together. *)
LEMMA StepNaming == ChainTypes /\ Naming /\ [Next]_vars => Naming'
<1> SUFFICES ASSUME ChainTypes, Naming, [Next]_vars, program = "pr_4" PROVE Naming'
  BY Onwards DEF Naming
<1>1. CASE UNCHANGED <<content, hand, memory, printed, lost>>
  <2>1. Sent' = Sent
    BY <1>1, Onwards DEF Sent
  <2> QED
    BY <1>1, <2>1, NamingStill
<1>2. ASSUME NEW p \in Procs, EndOfInput(p) PROVE Naming'
  <2>1. UNCHANGED <<content, hand, memory, printed, lost>>
    BY <1>2 DEF EndOfInput, pipes
  <2> QED
    BY <1>1, <2>1
<1> QED
  BY <1>1, <1>2, NamingGenerate, NamingRead, NamingWrite, Work

(* NamesRight from the invariant: the names printed are in the order of the  *)
(* file, numbered, and at the end all that were not swallowed.               *)
LEMMA NamesAreRight ==
    ChainTypes /\ Alive /\ Flowing /\ Climbing /\ Naming => NamesRight
<1> SUFFICES ASSUME ChainTypes, Alive, Flowing, Climbing, Naming, program = "pr_4"
             PROVE  NamesRight
  BY DEF NamesRight
<1> DEFINE L == lost[0]
           r == Reached
<1>1. printed \in Seq(Messages) /\ DOMAIN printed = 1..Len(printed)
  BY LenProperties DEF ChainTypes, DataTypes
<1>2. ASSUME NEW i \in 1..Len(printed)
      PROVE  /\ printed[i] # END
             /\ printed[i][2] = Cardinality(1..printed[i][1] \ L)
  <2> DEFINE m == printed[i]
  <2>1. m[1] \in 1..r /\ m = <<m[1], Cardinality(1..m[1] \ L)>>
    BY DEF Naming, Numbered, IsNumbered
  <2> DEFINE a == m[1]
             c == Cardinality(1..m[1] \ L)
  <2>2. m = <<a, c>>
    BY <2>1
  <2> HIDE DEF a, c
  <2>3. <<a, c>>[2] = c /\ <<a, c>> # <<>>
    OBVIOUS
  <2>4. m[2] = c /\ m # <<>>
    BY <2>2, <2>3
  <2> QED
    BY <2>4 DEF c, END
<1>3. Keys(printed) = {printed[i][1] : i \in 1..Len(printed)}
  <2> HIDE DEF END
  <2> QED
    BY <1>2 DEF Keys
<1>4. \A i, j \in 1..Len(printed) : i < j => printed[i][1] < printed[j][1]
  BY <1>2 DEF Climbing, Climbs
<1>5. ASSUME failures = 0, at[LastChild] = "exited"
      PROVE  Keys(printed) = (1..Items) \ UNION {lost[p] : p \in Procs}
  <2>1. Sent = Items /\ 1..Items \subseteq Dropped \cup Through
    BY <1>5, AllSent
  <2>2. Through \subseteq 1..Sent /\ \A k \in Dropped : k \notin Through
    BY DEF Flowing, InOrder, Apart
  <2>3. Through = Keys(printed) /\ Dropped = UNION {lost[p] : p \in Procs}
    BY DEF Through, Dropped
  <2> QED
    BY <2>1, <2>2, <2>3
<1> QED
  BY <1>1, <1>2, <1>3, <1>4, <1>5 DEF NamesRight

-----------------------------------------------------------------------------

(* All parts of the invariant. *)
ChainInv ==
    /\ ChainTypes /\ ChainEnds /\ ChainForked /\ EndLast /\ Alive
    /\ Flowing /\ Climbing /\ Summing /\ Naming

(* The invariant of both chains. *)
LEMMA ChainInductive == Spec => []ChainInv
<1>1. Init => ChainInv
  BY InitTypes, InitEnds, InitEndLast, InitAlive, InitFlow, InitSumming, InitNaming DEF ChainInv
<1>2. ChainInv /\ [Next]_vars => ChainInv'
  BY StepTypes, StepEnds, StepForked, StepEndLast, StepAlive, StepFlow, StepSumming, StepNaming
     DEF ChainInv
<1> QED
  BY <1>1, <1>2, PTL DEF Spec

(* SumsRight of cv_4: whatever fails and whoever is killed, the last child   *)
(* prints the running sums of the kept numbers in order, none skipped and    *)
(* none twice; when nothing fails nobody is killed by SIGPIPE, and it has    *)
(* printed all of them when it exits.                                        *)
THEOREM SumsKept == Spec => []SumsRight
<1>1. ChainInv => SumsRight
  BY SumsAreRight DEF ChainInv
<1> QED
  BY <1>1, ChainInductive, PTL

(* NamesRight of pr_4: names come out in the order of the file, each with    *)
(* the number of lines up to its own that no read of potomek1 swallowed;     *)
(* when nothing fails, a name is missing in the end only because some child  *)
(* read it together with the one before.                                     *)
THEOREM NamesKept == Spec => []NamesRight
<1>1. ChainInv => NamesRight
  BY NamesAreRight DEF ChainInv
<1> QED
  BY <1>1, ChainInductive, PTL
=============================================================================
