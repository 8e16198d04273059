-------------------------- MODULE SemBufferProofs --------------------------
(* Proofs about SemBuffer, for every number of clients, slots and lines, and *)
(* in the last part about ThreadBuffer, whose threads keep the same          *)
(* invariants.                                                               *)
EXTENDS ThreadBuffer, FiniteSetTheorems, SequenceTheorems, TLAPS

(* How many children are at one of the labels of L. *)
N(L) == Cardinality(In(L))
Ind(label, L) == IF label \in L THEN 1 ELSE 0

Space1 == {"pWaitMutex", "copyIn", "moveHead"}
Space2 == {"pPostMutex", "postFull"}
Item1 == {"cWaitMutex", "copyOut"}
Item2 == {"moveTail", "cPostMutex", "postEmpty"}
Taking == {"moveTail"}
Other == {"copyIn", "moveHead", "pPostMutex", "copyOut", "cPostMutex"}

PCType == pc \in [Handlers -> Labels]

(* The index arithmetic of the code is Wrap on the sums that occur.          *)
LEMMA WrapMod ==
    ASSUME NEW i \in 0..BUFFER_SIZE
    PROVE  i % BUFFER_SIZE = Wrap(i)
BY SemBufferAssumption, SMT DEF Wrap

(* There are finitely many children.                                         *)
LEMMA HandlersFinite == IsFiniteSet(Handlers)
BY SemBufferAssumption, FS_Union DEF Handlers

(* The number of children at given labels is a natural number.               *)
LEMMA InFinite ==
    ASSUME NEW L
    PROVE  IsFiniteSet(In(L)) /\ N(L) \in Nat
<1>1. In(L) \subseteq Handlers
  BY DEF In
<1> QED
  BY <1>1, HandlersFinite, FS_Subset, FS_CardinalityType DEF N

(* A child at a label of L makes N(L) at least 1.                            *)
LEMMA NPositive ==
    ASSUME NEW L, NEW h \in Handlers, pc[h] \in L
    PROVE  N(L) >= 1
<1>1. h \in In(L)
  BY DEF In
<1>2. N(L) # 0
  BY <1>1, InFinite, FS_EmptySet DEF N
<1> QED
  BY <1>2, InFinite

(* Two children at labels of L make N(L) at least 2. *)
LEMMA NPair ==
    ASSUME NEW L, NEW g \in Handlers, NEW h \in Handlers, g # h,
           pc[g] \in L, pc[h] \in L
    PROVE  N(L) >= 2
<1> DEFINE S == In(L) \ {g}
<1>1. g \in In(L) /\ h \in S
  BY DEF In
<1>2. IsFiniteSet(S) /\ Cardinality(S) = N(L) - 1
  BY <1>1, InFinite, FS_RemoveElement DEF N
<1>3. Cardinality(S) # 0
  BY <1>1, <1>2, FS_EmptySet
<1>4. Cardinality(S) \in Nat
  BY <1>2, FS_CardinalityType
<1> QED
  BY <1>2, <1>3, <1>4, InFinite

(* Children at disjoint sets of labels are counted apart.                    *)
LEMMA NUnion ==
    ASSUME NEW K, NEW L, K \cap L = {}
    PROVE  N(K \cup L) = N(K) + N(L)
<1>1. In(K \cup L) = In(K) \cup In(L) /\ In(K) \cap In(L) = {}
  BY DEF In
<1>2. Cardinality(In(K) \cup In(L)) =
        Cardinality(In(K)) + Cardinality(In(L)) - Cardinality({})
  BY <1>1, InFinite, FS_Union
<1>3. Cardinality({}) = 0
  BY FS_EmptySet
<1>4. N(K) \in Nat /\ N(L) \in Nat
  BY InFinite
<1>5. N(K \cup L) = N(K) + N(L) - 0
  BY <1>1, <1>2, <1>3 DEF N
<1> QED
  BY <1>4, <1>5

(* One child that goes from one label to another moves N(L) by at most one. *)
LEMMA NMove ==
    ASSUME PCType, NEW h \in Handlers, NEW label, NEW L,
           pc' = [pc EXCEPT ![h] = label]
    PROVE  N(L)' = N(L) + Ind(label, L) - Ind(pc[h], L)
<1>1. CASE (label \in L) <=> (pc[h] \in L)
  <2>1. In(L)' = In(L)
    BY <1>1 DEF In, PCType
  <2>2. N(L)' = N(L) /\ Ind(label, L) = Ind(pc[h], L)
    BY <2>1, <1>1 DEF N, Ind
  <2> QED
    BY <2>2, InFinite DEF Ind
<1>2. CASE label \in L /\ pc[h] \notin L
  <2>1. In(L)' = In(L) \cup {h} /\ h \notin In(L)
    BY <1>2 DEF In, PCType
  <2>2. N(L)' = N(L) + 1
    BY <2>1, InFinite, FS_AddElement DEF N
  <2> QED
    BY <2>2, <1>2, InFinite DEF Ind
<1>3. CASE label \notin L /\ pc[h] \in L
  <2>1. In(L)' = In(L) \ {h} /\ h \in In(L)
    BY <1>3 DEF In, PCType
  <2>2. N(L)' = N(L) - 1
    BY <2>1, InFinite, FS_RemoveElement DEF N
  <2> QED
    BY <2>2, <1>3, InFinite DEF Ind
<1> QED
  BY <1>1, <1>2, <1>3

-----------------------------------------------------------------------------
(* The inductive invariant.  Six counters stand for the children between     *)
(* a wait and its post; the parts below relate them to the semaphores, the   *)
(* indexes and the slots.                                                    *)
cP == N(Space1)
cF == N(Space2)
cG == N(Item1)
cD == N(Item2)
cT == N(Taking)
cO == N(Other)

Types ==
    /\ data \in [Slot -> Line \cup {NoLine}]
    /\ head \in Slot /\ tail \in Slot
    /\ mutex \in Nat /\ empty \in Nat /\ full \in Nat
    /\ PCType
    /\ line \in [Handlers -> Line \cup {NoLine}]
    /\ conn \in [Handlers -> {"open", "closed", "reset"}]
    /\ dead \subseteq Handlers
    /\ nread \in [Handlers -> 0..MaxLines]

(* The mutex is at 1, or exactly one child is inside. *)
MutexUnit == mutex + cO + cT = 1

SlotUnits == empty + full + cP + cF + cG + cD = BUFFER_SIZE

(* The slot of the oldest line. *)
First == Wrap(Oldest)

HeadAhead == head = Wrap(First + Count)

SlotsHoldLines ==
    \A i \in 0..(Count - 1) : data[Wrap(First + i)] \in Line

HandsHoldLines ==
    \A h \in Handlers :
        /\ pc[h] \in Carrying => line[h] \in Line
        /\ pc[h] = "moveHead" => data[head] = line[h]

Received ==
    /\ delivered \in [Handlers -> Seq(Line)]
    /\ lost \subseteq Line

IInv ==
    /\ Types /\ MutexUnit /\ SlotUnits /\ HeadAhead
    /\ SlotsHoldLines /\ HandsHoldLines /\ Received

(* Every counter is a natural number.                                        *)
LEMMA CountersNat ==
    /\ cP \in Nat /\ cF \in Nat /\ cG \in Nat
    /\ cD \in Nat /\ cT \in Nat /\ cO \in Nat
BY InFinite DEF cP, cF, cG, cD, cT, cO

(* NMove, for the six counters of the invariant.                             *)
LEMMA CountersMove ==
    ASSUME PCType, NEW h \in Handlers, NEW label,
           pc' = [pc EXCEPT ![h] = label]
    PROVE  /\ cP' = cP + Ind(label, Space1) - Ind(pc[h], Space1)
           /\ cF' = cF + Ind(label, Space2) - Ind(pc[h], Space2)
           /\ cG' = cG + Ind(label, Item1) - Ind(pc[h], Item1)
           /\ cD' = cD + Ind(label, Item2) - Ind(pc[h], Item2)
           /\ cT' = cT + Ind(label, Taking) - Ind(pc[h], Taking)
           /\ cO' = cO + Ind(label, Other) - Ind(pc[h], Other)
BY NMove DEF cP, cF, cG, cD, cT, cO

(* How a move from old to new changes the counters. *)
Change(old, new) ==
    /\ cP' = cP + Ind(new, Space1) - Ind(old, Space1)
    /\ cF' = cF + Ind(new, Space2) - Ind(old, Space2)
    /\ cG' = cG + Ind(new, Item1) - Ind(old, Item1)
    /\ cD' = cD + Ind(new, Item2) - Ind(old, Item2)
    /\ cT' = cT + Ind(new, Taking) - Ind(old, Taking)
    /\ cO' = cO + Ind(new, Other) - Ind(old, Other)

(* The same for a child that is at label old and goes to label new.          *)
LEMMA CountersGo ==
    ASSUME PCType, NEW h \in Handlers, NEW old, NEW new,
           pc[h] = old, Goto(h, new)
    PROVE  Change(old, new)
BY CountersMove DEF Goto, Change

(* Count and Oldest in terms of the counters, now and in the next state.     *)
LEMMA CountOldest ==
    /\ Count = full + cF + cG /\ Oldest = tail + cT
    /\ Count' = full' + cF' + cG' /\ Oldest' = tail' + cT'
BY DEF Count, Oldest, cF, cG, cT, N, Space2, Item1, Taking

Uncounted == {"absent", "prompt", "role", "readLine", "waitEmpty", "writeOK",
              "waitFull", "writeLine", "exited"}

SameCounters ==
    cP' = cP /\ cF' = cF /\ cG' = cG /\ cD' = cD /\ cT' = cT /\ cO' = cO

(* Moves between labels outside produce and consume change no counter. *)
LEMMA CountersQuiet ==
    ASSUME PCType, NEW h \in Handlers,
           \/ UNCHANGED pc
           \/ /\ pc[h] \in Uncounted
              /\ \E label \in Uncounted : Goto(h, label)
    PROVE  SameCounters
<1>1. CASE UNCHANGED pc
  <2> QED
    BY <1>1 DEF SameCounters, cP, cF, cG, cD, cT, cO, N, In
<1>2. CASE /\ pc[h] \in Uncounted
           /\ \E label \in Uncounted : Goto(h, label)
  <2>1. PICK label \in Uncounted : pc' = [pc EXCEPT ![h] = label]
    BY <1>2 DEF Goto
  <2>2. \A x \in Uncounted :
          /\ Ind(x, Space1) = 0 /\ Ind(x, Space2) = 0 /\ Ind(x, Item1) = 0
          /\ Ind(x, Item2) = 0 /\ Ind(x, Taking) = 0 /\ Ind(x, Other) = 0
    BY DEF Uncounted, Ind, Space1, Space2, Item1, Item2, Taking, Other
  <2>3. /\ cP' = cP + Ind(label, Space1) - Ind(pc[h], Space1)
        /\ cF' = cF + Ind(label, Space2) - Ind(pc[h], Space2)
        /\ cG' = cG + Ind(label, Item1) - Ind(pc[h], Item1)
        /\ cD' = cD + Ind(label, Item2) - Ind(pc[h], Item2)
        /\ cT' = cT + Ind(label, Taking) - Ind(pc[h], Taking)
        /\ cO' = cO + Ind(label, Other) - Ind(pc[h], Other)
    BY <2>1, CountersMove
  <2>4. /\ cP' = cP + 0 - 0 /\ cF' = cF + 0 - 0 /\ cG' = cG + 0 - 0
        /\ cD' = cD + 0 - 0 /\ cT' = cT + 0 - 0 /\ cO' = cO + 0 - 0
    BY <1>2, <2>2, <2>3, Zenon
  <2> QED
    BY <2>4, CountersNat DEF SameCounters
<1> QED
  BY <1>1, <1>2

(* The invariant holds when the server starts.                               *)
LEMMA InitIInv == Init => IInv
<1> SUFFICES ASSUME Init PROVE IInv
  OBVIOUS
<1>1. \A L : (\A h \in Handlers : pc[h] \notin L) => N(L) = 0
  <2> SUFFICES ASSUME NEW L, \A h \in Handlers : pc[h] \notin L PROVE N(L) = 0
    OBVIOUS
  <2>1. In(L) = {}
    BY DEF In
  <2> QED
    BY <2>1, FS_EmptySet DEF N
<1>2. cP = 0 /\ cF = 0 /\ cG = 0 /\ cD = 0 /\ cT = 0 /\ cO = 0
  BY <1>1 DEF Init, cP, cF, cG, cD, cT, cO, Space1, Space2, Item1, Item2,
               Taking, Other
<1>3. Types
  BY SemBufferAssumption DEF Init, Types, Slot, PCType, Labels, PInside, CInside
<1>4. MutexUnit /\ SlotUnits
  BY <1>2, SemBufferAssumption DEF Init, MutexUnit, SlotUnits
<1>5. HeadAhead /\ SlotsHoldLines
  BY <1>2, CountOldest, SemBufferAssumption
     DEF Init, HeadAhead, SlotsHoldLines, First, Wrap
<1>6. HandsHoldLines /\ Received
  BY DEF Init, HandsHoldLines, Received, Carrying
<1> QED
  BY <1>3, <1>4, <1>5, <1>6 DEF IInv

-----------------------------------------------------------------------------
(* What the invariant says of a child at each place of the critical section. *)

(* Count fits the buffer, First is a slot, the semaphores have their ranges. *)
LEMMA Bounds ==
    ASSUME Types, MutexUnit, SlotUnits
    PROVE  /\ Count \in 0..BUFFER_SIZE /\ mutex \in 0..1 /\ cT \in 0..1
           /\ empty \in 0..BUFFER_SIZE /\ full \in 0..BUFFER_SIZE
           /\ First \in Slot
<1>1. /\ Count \in 0..BUFFER_SIZE /\ mutex \in 0..1 /\ cT \in 0..1
      /\ empty \in 0..BUFFER_SIZE /\ full \in 0..BUFFER_SIZE
  BY CountersNat, CountOldest, SemBufferAssumption
     DEF Types, MutexUnit, SlotUnits
<1>2. First \in Slot
  BY <1>1, CountOldest, SemBufferAssumption DEF First, Wrap, Types, Slot
<1> QED
  BY <1>1, <1>2

(* A producer that was granted a slot finds one: the buffer is not full.     *)
LEMMA AtMoveHead ==
    ASSUME Types, MutexUnit, SlotUnits, NEW h \in Handlers,
           pc[h] \in {"copyIn", "moveHead"}
    PROVE  Count \in 0..(BUFFER_SIZE - 1)
<1>1. cP >= 1
  BY NPositive DEF cP, Space1
<1> QED
  BY <1>1, CountersNat, CountOldest, SemBufferAssumption
     DEF Types, SlotUnits

(* A consumer about to copy out finds a line, and tail is the oldest.        *)
LEMMA AtCopyOut ==
    ASSUME Types, MutexUnit, SlotUnits, NEW h \in Handlers, pc[h] = "copyOut"
    PROVE  Count >= 1 /\ cT = 0 /\ cG >= 1
<1>1. cG >= 1 /\ cO >= 1
  BY NPositive DEF cG, cO, Item1, Other
<1> QED
  BY <1>1, CountersNat, CountOldest, SemBufferAssumption
     DEF Types, MutexUnit

(* A consumer about to move tail is the only one to do so.                   *)
LEMMA AtMoveTail ==
    ASSUME Types, MutexUnit, NEW h \in Handlers, pc[h] = "moveTail"
    PROVE  cT = 1
<1>1. cT >= 1
  BY NPositive DEF cT, Taking
<1> QED
  BY <1>1, CountersNat DEF Types, MutexUnit

(* No two children are inside the critical section. *)
LEMMA Alone ==
    ASSUME Types, MutexUnit, NEW g \in Inside, NEW h \in Inside
    PROVE  g = h
<1> SUFFICES ASSUME g # h PROVE FALSE
  OBVIOUS
<1>1. /\ g \in Handlers /\ h \in Handlers
      /\ pc[g] \in Other \cup Taking /\ pc[h] \in Other \cup Taking
  BY DEF Inside, In, PInside, CInside, Other, Taking
<1>2. N(Other \cup Taking) >= 2
  BY <1>1, NPair
<1>3. N(Other \cup Taking) = cO + cT
  BY NUnion DEF cO, cT, Other, Taking
<1> QED
  BY <1>2, <1>3, CountersNat DEF Types, MutexUnit

(* A step that leaves Count, First, head and data alone. *)
LEMMA QueueSame ==
    ASSUME IInv, Count' = Count, First' = First, head' = head, data' = data
    PROVE  HeadAhead' /\ SlotsHoldLines'
BY DEF IInv, HeadAhead, SlotsHoldLines, Wrap

(* A step that leaves the buffer alone and moves no counter. *)
LEMMA QuietStep ==
    ASSUME IInv, NEW h \in Handlers, UNCHANGED <<shm, sems>>,
           \/ UNCHANGED pc
           \/ /\ pc[h] \in Uncounted
              /\ \E label \in Uncounted : Goto(h, label)
    PROVE  /\ MutexUnit' /\ SlotUnits' /\ HeadAhead' /\ SlotsHoldLines'
           /\ Count' = Count /\ First' = First
<1>1. SameCounters
  BY CountersQuiet DEF IInv, Types
<1>2. MutexUnit' /\ SlotUnits'
  BY <1>1 DEF SameCounters, IInv, MutexUnit, SlotUnits, sems
<1>3. Count' = Count /\ First' = First
  BY <1>1, CountOldest DEF SameCounters, First, Wrap, shm, sems
<1>4. HeadAhead' /\ SlotsHoldLines'
  BY <1>3, QueueSame DEF shm
<1> QED
  BY <1>2, <1>3, <1>4

-----------------------------------------------------------------------------
(* The steps outside produce and consume. *)

(* A write to the client keeps the types, whatever became of the client.     *)
LEMMA WriteTypes ==
    ASSUME Types, NEW h \in Handlers, NEW next \in Labels, Write(h, next)
    PROVE  /\ PCType'
           /\ conn' \in [Handlers -> {"open", "closed", "reset"}]
           /\ dead' \subseteq Handlers
           /\ UNCHANGED pc \/ Goto(h, next)
BY DEF Types, PCType, Write, Goto

(* Steps outside produce and consume keep the invariant and the queue.       *)
LEMMA QuietActions ==
    ASSUME IInv, NEW h \in Handlers,
           \/ Accept(h) \/ Prompt(h) \/ ReadRole(h) \/ ReadLine(h)
           \/ WriteOK(h) \/ WriteLine(h) \/ ClientClose(h) \/ Kill(h)
    PROVE  IInv' /\ Count' = Count /\ First' = First
<1> USE DEF IInv
<1>1. UNCHANGED <<shm, sems>>
  BY DEF Accept, Prompt, ReadRole, ReadLine, WriteOK, WriteLine, ClientClose,
         Kill
<1>2. \/ UNCHANGED pc
      \/ /\ pc[h] \in Uncounted
         /\ \E label \in Uncounted : Goto(h, label)
  BY DEF Accept, Prompt, ReadRole, ReadLine, WriteOK, WriteLine, ClientClose,
         Kill, Write, At, RoleStart, Uncounted
<1>3. /\ MutexUnit' /\ SlotUnits' /\ HeadAhead' /\ SlotsHoldLines'
      /\ Count' = Count /\ First' = First
  BY <1>1, <1>2, QuietStep
<1>4. PCType'
  BY <1>2 DEF Types, PCType, Goto, Uncounted, Labels
<1>5. CASE ReadLine(h)
  <2>1. line' \in [Handlers -> Line \cup {NoLine}]
        /\ nread' \in [Handlers -> 0..MaxLines]
    BY <1>5, SemBufferAssumption DEF ReadLine, Types, Line, net
  <2>2. Types'
    BY <1>1, <1>4, <1>5, <2>1 DEF Types, ReadLine, shm, sems
  <2>3. ASSUME NEW g \in Handlers
        PROVE  /\ pc'[g] \in Carrying => line'[g] \in Line
               /\ pc'[g] = "moveHead" => data'[head'] = line'[g]
    BY <1>1, <1>5, SemBufferAssumption
       DEF ReadLine, At, Goto, HandsHoldLines, Types, PCType, Carrying, Line,
           shm
  <2>4. Received'
    BY <1>5 DEF ReadLine, Received
  <2> QED
    BY <1>3, <2>2, <2>3, <2>4 DEF HandsHoldLines
<1>6. CASE ~ReadLine(h)
  <2>1. UNCHANGED line
    BY <1>6 DEF Accept, Prompt, ReadRole, WriteOK, WriteLine, ClientClose, Kill
  <2>2. HandsHoldLines'
    <3>1. \/ UNCHANGED pc
          \/ \E label \in {"prompt", "role", "readLine", "waitFull", "exited"} :
                Goto(h, label)
      BY <1>6 DEF Accept, Prompt, ReadRole, WriteOK, WriteLine, ClientClose,
                  Kill, Write, RoleStart
    <3> QED
      BY <1>1, <2>1, <3>1
         DEF HandsHoldLines, Types, PCType, Goto, Carrying, shm
  <2>3. Types'
    <3>1. /\ conn' \in [Handlers -> {"open", "closed", "reset"}]
          /\ dead' \subseteq Handlers
      BY <1>6, WriteTypes
         DEF Accept, Prompt, ReadRole, WriteOK, WriteLine, ClientClose, Kill,
             Types, net, Labels
    <3>2. UNCHANGED nread
      BY <1>6 DEF Accept, Prompt, ReadRole, WriteOK, WriteLine, ClientClose,
                  Kill, net
    <3> QED
      BY <1>1, <1>4, <2>1, <3>1, <3>2 DEF Types, shm, sems
  <2>4. Received'
    <3>1. CASE WriteLine(h)
      <4>1. line[h] \in Line
        BY <3>1 DEF WriteLine, At, HandsHoldLines, Carrying
      <4> QED
        BY <3>1, <4>1 DEF WriteLine, Received
    <3>2. CASE ~WriteLine(h)
      BY <1>6, <3>2 DEF Accept, Prompt, ReadRole, WriteOK, ClientClose, Kill,
                        net, Received
    <3> QED
      BY <3>1, <3>2
  <2> QED
    BY <1>3, <2>2, <2>3, <2>4
<1> QED
  BY <1>5, <1>6

-----------------------------------------------------------------------------
(* The semaphore operations: units move between the semaphores and the       *)
(* children, the queue stays as it is.                                       *)

(* Every semaphore operation keeps the invariant and the queue.              *)
LEMMA SemaphoreActions ==
    ASSUME IInv, NEW h \in Handlers,
           \/ WaitEmpty(h) \/ PWaitMutex(h) \/ PPostMutex(h) \/ PostFull(h)
           \/ WaitFull(h) \/ CWaitMutex(h) \/ CPostMutex(h) \/ PostEmpty(h)
    PROVE  IInv' /\ Count' = Count /\ First' = First
<1> USE DEF IInv
<1>1. UNCHANGED <<shm, line, net>>
  BY DEF WaitEmpty, PWaitMutex, PPostMutex, PostFull, WaitFull, CWaitMutex,
         CPostMutex, PostEmpty
<1>2. /\ mutex' \in Nat /\ empty' \in Nat /\ full' \in Nat
      /\ PCType'
      /\ MutexUnit' /\ SlotUnits' /\ Count' = Count /\ cT' = cT
  <2> USE CountersNat DEF Types
  <2>0. ASSUME NEW label \in Labels, Goto(h, label) PROVE PCType'
    BY <2>0 DEF PCType, Goto
  <2>1. CASE WaitEmpty(h)
    <3>1. pc[h] = "waitEmpty" /\ Goto(h, "pWaitMutex") /\ PCType'
      BY <2>0, <2>1 DEF WaitEmpty, At, Labels, PInside, CInside
    <3>2. /\ cP' = cP + 1 /\ cF' = cF /\ cG' = cG
          /\ cD' = cD /\ cT' = cT /\ cO' = cO
      BY <3>1, CountersGo
         DEF Change, Ind, Space1, Space2, Item1, Item2, Taking, Other
    <3> QED
      BY <2>1, <3>1, <3>2, CountOldest
         DEF WaitEmpty, MutexUnit, SlotUnits, sem_wait, sem_post
  <2>2. CASE PWaitMutex(h)
    <3>1. pc[h] = "pWaitMutex" /\ Goto(h, "copyIn") /\ PCType'
      BY <2>0, <2>2 DEF PWaitMutex, At, Labels, PInside, CInside
    <3>2. /\ cP' = cP /\ cF' = cF /\ cG' = cG
          /\ cD' = cD /\ cT' = cT /\ cO' = cO + 1
      BY <3>1, CountersGo
         DEF Change, Ind, Space1, Space2, Item1, Item2, Taking, Other
    <3> QED
      BY <2>2, <3>1, <3>2, CountOldest
         DEF PWaitMutex, MutexUnit, SlotUnits, sem_wait, sem_post
  <2>3. CASE PPostMutex(h)
    <3>1. pc[h] = "pPostMutex" /\ Goto(h, "postFull") /\ PCType'
      BY <2>0, <2>3 DEF PPostMutex, At, Labels, PInside, CInside
    <3>2. /\ cP' = cP /\ cF' = cF /\ cG' = cG
          /\ cD' = cD /\ cT' = cT /\ cO' = cO - 1
      BY <3>1, CountersGo
         DEF Change, Ind, Space1, Space2, Item1, Item2, Taking, Other
    <3> QED
      BY <2>3, <3>1, <3>2, CountOldest
         DEF PPostMutex, MutexUnit, SlotUnits, sem_wait, sem_post
  <2>4. CASE PostFull(h)
    <3>1. pc[h] = "postFull" /\ Goto(h, "writeOK") /\ PCType'
      BY <2>0, <2>4 DEF PostFull, At, Labels, PInside, CInside
    <3>2. /\ cP' = cP /\ cF' = cF - 1 /\ cG' = cG
          /\ cD' = cD /\ cT' = cT /\ cO' = cO
      BY <3>1, CountersGo
         DEF Change, Ind, Space1, Space2, Item1, Item2, Taking, Other
    <3> QED
      BY <2>4, <3>1, <3>2, CountOldest
         DEF PostFull, MutexUnit, SlotUnits, sem_wait, sem_post
  <2>5. CASE WaitFull(h)
    <3>1. pc[h] = "waitFull" /\ Goto(h, "cWaitMutex") /\ PCType'
      BY <2>0, <2>5 DEF WaitFull, At, Labels, PInside, CInside
    <3>2. /\ cP' = cP /\ cF' = cF /\ cG' = cG + 1
          /\ cD' = cD /\ cT' = cT /\ cO' = cO
      BY <3>1, CountersGo
         DEF Change, Ind, Space1, Space2, Item1, Item2, Taking, Other
    <3> QED
      BY <2>5, <3>1, <3>2, CountOldest
         DEF WaitFull, MutexUnit, SlotUnits, sem_wait, sem_post
  <2>6. CASE CWaitMutex(h)
    <3>1. pc[h] = "cWaitMutex" /\ Goto(h, "copyOut") /\ PCType'
      BY <2>0, <2>6 DEF CWaitMutex, At, Labels, PInside, CInside
    <3>2. /\ cP' = cP /\ cF' = cF /\ cG' = cG
          /\ cD' = cD /\ cT' = cT /\ cO' = cO + 1
      BY <3>1, CountersGo
         DEF Change, Ind, Space1, Space2, Item1, Item2, Taking, Other
    <3> QED
      BY <2>6, <3>1, <3>2, CountOldest
         DEF CWaitMutex, MutexUnit, SlotUnits, sem_wait, sem_post
  <2>7. CASE CPostMutex(h)
    <3>1. pc[h] = "cPostMutex" /\ Goto(h, "postEmpty") /\ PCType'
      BY <2>0, <2>7 DEF CPostMutex, At, Labels, PInside, CInside
    <3>2. /\ cP' = cP /\ cF' = cF /\ cG' = cG
          /\ cD' = cD /\ cT' = cT /\ cO' = cO - 1
      BY <3>1, CountersGo
         DEF Change, Ind, Space1, Space2, Item1, Item2, Taking, Other
    <3> QED
      BY <2>7, <3>1, <3>2, CountOldest
         DEF CPostMutex, MutexUnit, SlotUnits, sem_wait, sem_post
  <2>8. CASE PostEmpty(h)
    <3>1. pc[h] = "postEmpty" /\ Goto(h, "writeLine") /\ PCType'
      BY <2>0, <2>8 DEF PostEmpty, At, Labels, PInside, CInside
    <3>2. /\ cP' = cP /\ cF' = cF /\ cG' = cG
          /\ cD' = cD - 1 /\ cT' = cT /\ cO' = cO
      BY <3>1, CountersGo
         DEF Change, Ind, Space1, Space2, Item1, Item2, Taking, Other
    <3> QED
      BY <2>8, <3>1, <3>2, CountOldest
         DEF PostEmpty, MutexUnit, SlotUnits, sem_wait, sem_post
  <2> QED
    BY <2>1, <2>2, <2>3, <2>4, <2>5, <2>6, <2>7, <2>8
<1>3. First' = First
  BY <1>1, <1>2, CountOldest DEF First, Wrap, shm
<1>4. HeadAhead' /\ SlotsHoldLines'
  BY <1>1, <1>2, <1>3, QueueSame DEF shm
<1>5. Types' /\ Received'
  BY <1>1, <1>2 DEF Types, Received, shm, net
<1>6. HandsHoldLines'
  <2> SUFFICES ASSUME NEW g \in Handlers
               PROVE  /\ pc'[g] \in Carrying => line'[g] \in Line
                      /\ pc'[g] = "moveHead" => data'[head'] = line'[g]
    BY DEF HandsHoldLines
  <2>1. CASE g = h
    <3>1. \/ pc'[h] \in {"postFull", "writeOK", "cWaitMutex", "copyOut"}
          \/ /\ pc'[h] \in Carrying \ {"moveHead"}
             /\ pc[h] \in Carrying
      BY DEF WaitEmpty, PWaitMutex, PPostMutex, PostFull, WaitFull, CWaitMutex,
             CPostMutex, PostEmpty, At, Goto, Types, PCType, Carrying
    <3> QED
      BY <1>1, <2>1, <3>1 DEF HandsHoldLines, Carrying, shm
  <2>2. CASE g # h
    <3>1. pc'[g] = pc[g]
      BY <2>2 DEF WaitEmpty, PWaitMutex, PPostMutex, PostFull, WaitFull,
             CWaitMutex, CPostMutex, PostEmpty, Goto, Types, PCType
    <3> QED
      BY <1>1, <3>1 DEF HandsHoldLines, shm
  <2> QED
    BY <2>1, <2>2
<1> QED
  BY <1>2, <1>3, <1>4, <1>5, <1>6

-----------------------------------------------------------------------------
(* The four steps inside the critical section. *)

(* Where the other children stand does not change, and nobody else is at     *)
(* moveHead while h is inside.                                               *)
LEMMA HandsOfOthers ==
    ASSUME IInv, NEW h \in Inside, NEW label, Goto(h, label),
           \A g \in Handlers \ {h} : line'[g] = line[g],
           label \in Carrying => line'[h] \in Line,
           label = "moveHead" => data'[head'] = line'[h]
    PROVE  HandsHoldLines'
<1>1. h \in Handlers
  BY DEF Inside, In
<1>2. ASSUME NEW g \in Handlers, g # h
      PROVE  pc'[g] = pc[g] /\ pc[g] # "moveHead"
  BY <1>1, <1>2, Alone
     DEF IInv, Types, PCType, Goto, Inside, In, PInside, CInside
<1>3. pc'[h] = label
  BY <1>1 DEF IInv, Types, PCType, Goto
<1> QED
  BY <1>1, <1>2, <1>3 DEF HandsHoldLines, IInv

(* Distinct places of the queue are distinct slots. *)
LEMMA WrapInjective ==
    ASSUME NEW f \in Slot, NEW i \in 0..(BUFFER_SIZE - 1),
           NEW j \in 0..(BUFFER_SIZE - 1), i # j
    PROVE  Wrap(f + i) # Wrap(f + j) /\ Wrap(f + i) \in Slot
BY SemBufferAssumption DEF Wrap, Slot

(* The code's step of an index is the step to the next place of the queue.   *)
LEMMA WrapNext ==
    ASSUME NEW f \in Slot, NEW i \in 0..(BUFFER_SIZE - 1)
    PROVE  (Wrap(f + i) + 1) % BUFFER_SIZE = Wrap(f + i + 1)
<1>1. Wrap(f + i) \in Slot
  BY SemBufferAssumption DEF Wrap, Slot
<1>2. (Wrap(f + i) + 1) % BUFFER_SIZE = Wrap(Wrap(f + i) + 1)
  BY <1>1, WrapMod, SemBufferAssumption DEF Slot
<1> QED
  BY <1>2, SemBufferAssumption DEF Wrap, Slot

(* Places counted from the second line of the queue.                         *)
LEMMA WrapShift ==
    ASSUME NEW f \in Slot, NEW i \in 0..BUFFER_SIZE, i >= 1
    PROVE  Wrap(Wrap(f + 1) + i - 1) = Wrap(f + i)
BY SemBufferAssumption DEF Wrap, Slot

(* The copy into slot head changes no line of the queue.                     *)
LEMMA CopyInStep ==
    ASSUME IInv, NEW h \in Handlers, CopyIn(h)
    PROVE  /\ IInv' /\ Count' = Count /\ First' = First
           /\ \A i \in 0..(Count - 1) :
                 data'[Wrap(First + i)] = data[Wrap(First + i)]
<1> USE DEF IInv
<1>1. /\ pc[h] = "copyIn" /\ Goto(h, "moveHead")
      /\ UNCHANGED <<head, tail, mutex, empty, full, line, net>>
      /\ data' = [data EXCEPT ![head] = line[h]]
  BY DEF CopyIn, At, sems
<1>2. PCType'
  BY <1>1 DEF Types, PCType, Goto, Labels, PInside
<1>3. SameCounters
  <2>1. Change("copyIn", "moveHead")
    BY <1>1, CountersGo DEF Types
  <2> QED
    BY <2>1, CountersNat DEF Change, SameCounters, Ind, Space1, Space2, Item1,
       Item2, Taking, Other
<1>4. MutexUnit' /\ SlotUnits' /\ Count' = Count /\ First' = First
  BY <1>1, <1>3, CountOldest
     DEF SameCounters, MutexUnit, SlotUnits, First, Wrap
<1>5. line[h] \in Line /\ Types' /\ Received'
  BY <1>1, <1>2 DEF Types, Received, HandsHoldLines, Carrying, net
<1>6. Count \in 0..(BUFFER_SIZE - 1) /\ First \in Slot
  BY <1>1, AtMoveHead, Bounds
<1>7. ASSUME NEW i \in 0..(Count - 1)
      PROVE  data'[Wrap(First + i)] = data[Wrap(First + i)]
  <2>1. Wrap(First + i) # head /\ Wrap(First + i) \in Slot
    BY <1>6, WrapInjective, SemBufferAssumption DEF HeadAhead
  <2> QED
    BY <1>1, <2>1 DEF Types
<1>8. HeadAhead' /\ SlotsHoldLines'
  BY <1>1, <1>4, <1>7 DEF HeadAhead, SlotsHoldLines, Wrap
<1>9. HandsHoldLines'
  <2>1. h \in Inside
    BY <1>1 DEF Inside, In, PInside
  <2>2. data'[head'] = line'[h]
    BY <1>1 DEF Types
  <2> QED
    BY <1>1, <1>5, <2>1, <2>2, HandsOfOthers
<1> QED
  BY <1>4, <1>5, <1>7, <1>8, <1>9

(* Moving head appends the producer's line to the queue.                     *)
LEMMA MoveHeadStep ==
    ASSUME IInv, NEW h \in Handlers, MoveHead(h)
    PROVE  /\ IInv' /\ Count' = Count + 1 /\ First' = First
           /\ Count < BUFFER_SIZE
           /\ data[Wrap(First + Count)] = line[h] /\ line[h] \in Line
<1> USE DEF IInv
<1>1. /\ pc[h] = "moveHead" /\ Goto(h, "pPostMutex")
      /\ UNCHANGED <<data, tail, mutex, empty, full, line, net>>
      /\ head' = (head + 1) % BUFFER_SIZE
  BY DEF MoveHead, At, sems
<1>2. PCType'
  BY <1>1 DEF Types, PCType, Goto, Labels, PInside
<1>3. /\ cP' = cP - 1 /\ cF' = cF + 1 /\ cG' = cG
      /\ cD' = cD /\ cT' = cT /\ cO' = cO
  <2>1. Change("moveHead", "pPostMutex")
    BY <1>1, CountersGo DEF Types
  <2> QED
    BY <2>1, CountersNat DEF Change, Ind, Space1, Space2, Item1, Item2,
       Taking, Other
<1>4. MutexUnit' /\ SlotUnits' /\ Count' = Count + 1 /\ First' = First
  BY <1>1, <1>3, CountersNat, CountOldest
     DEF Types, MutexUnit, SlotUnits, First, Wrap
<1>5. Count \in 0..(BUFFER_SIZE - 1) /\ First \in Slot
  BY <1>1, AtMoveHead, Bounds
<1>6. HeadAhead'
  <2>1. head' = Wrap(First + Count + 1)
    BY <1>1, <1>5, WrapNext DEF HeadAhead
  <2>2. First' + Count' = First + Count + 1
    BY <1>4, <1>5 DEF Slot
  <2> QED
    BY <2>1, <2>2 DEF HeadAhead, Wrap
<1>7. data[Wrap(First + Count)] = line[h] /\ line[h] \in Line
  BY <1>1 DEF HandsHoldLines, HeadAhead, Carrying
<1>8. SlotsHoldLines'
  <2> SUFFICES ASSUME NEW i \in 0..Count PROVE data[Wrap(First + i)] \in Line
    BY <1>1, <1>4, <1>5 DEF SlotsHoldLines, Wrap
  <2>1. i = Count \/ i \in 0..(Count - 1)
    BY <1>5
  <2> QED
    BY <1>7, <2>1 DEF SlotsHoldLines
<1>9. Types' /\ Received'
  <2>1. head' \in Slot
    BY <1>1, SemBufferAssumption DEF Types, Slot
  <2> QED
    BY <1>1, <1>2, <2>1 DEF Types, Received, net
<1>10. HandsHoldLines'
  <2>1. h \in Inside
    BY <1>1 DEF Inside, In, PInside
  <2> QED
    BY <1>1, <2>1, HandsOfOthers DEF Carrying
<1> QED
  BY <1>4, <1>5, <1>6, <1>7, <1>8, <1>9, <1>10, SemBufferAssumption

(* The copy out takes the first line of the queue and shifts the rest.       *)
LEMMA CopyOutStep ==
    ASSUME IInv, NEW h \in Handlers, CopyOut(h)
    PROVE  /\ IInv' /\ Count' = Count - 1 /\ Count \in 1..BUFFER_SIZE
           /\ \A i \in 1..Count : Wrap(First' + i - 1) = Wrap(First + i)
           /\ line'[h] = data[Wrap(First + 0)] /\ line'[h] \in Line
<1> USE DEF IInv
<1>1. /\ pc[h] = "copyOut" /\ Goto(h, "moveTail")
      /\ UNCHANGED <<data, head, tail, mutex, empty, full, net>>
      /\ line' = [line EXCEPT ![h] = data[tail]]
  BY DEF CopyOut, At, sems, shm
<1>2. PCType'
  BY <1>1 DEF Types, PCType, Goto, Labels, CInside
<1>3. /\ cP' = cP /\ cF' = cF /\ cG' = cG - 1
      /\ cD' = cD + 1 /\ cT' = cT + 1 /\ cO' = cO - 1
  <2>1. Change("copyOut", "moveTail")
    BY <1>1, CountersGo DEF Types
  <2> QED
    BY <2>1, CountersNat DEF Change, Ind, Space1, Space2, Item1, Item2,
       Taking, Other
<1>4. Count \in 1..BUFFER_SIZE /\ cT = 0
  BY <1>1, AtCopyOut, Bounds
<1>5. MutexUnit' /\ SlotUnits' /\ Count' = Count - 1
  BY <1>1, <1>3, CountersNat, CountOldest DEF Types, MutexUnit, SlotUnits
<1>6. First = tail /\ First' = Wrap(tail + 1) /\ First \in Slot
  BY <1>1, <1>3, <1>4, CountOldest, SemBufferAssumption
     DEF First, Wrap, Types, Slot
<1>7. \A i \in 1..Count : Wrap(First' + i - 1) = Wrap(First + i)
  BY <1>4, <1>6, WrapShift, SemBufferAssumption
<1>8. line'[h] = data[Wrap(First + 0)] /\ line'[h] \in Line
  <2>1. Wrap(First + 0) = tail
    BY <1>6, SemBufferAssumption DEF Wrap, Slot
  <2>2. data[Wrap(First + 0)] \in Line
    BY <1>4 DEF SlotsHoldLines
  <2> QED
    BY <1>1, <2>1, <2>2 DEF Types
<1>9. HeadAhead'
  <2>1. Wrap(First' + Count - 1) = Wrap(First + Count)
    BY <1>4, <1>7, SemBufferAssumption
  <2>2. First' + Count' = First' + Count - 1
    BY <1>4, <1>5, <1>6, SemBufferAssumption DEF Wrap, Slot
  <2> QED
    BY <1>1, <2>1, <2>2 DEF HeadAhead, Wrap
<1>10. SlotsHoldLines'
  <2> SUFFICES ASSUME NEW i \in 0..(Count - 2)
               PROVE  data[Wrap(First' + i)] \in Line
    BY <1>1, <1>4, <1>5 DEF SlotsHoldLines, Wrap
  <2>1. Wrap(First' + (i + 1) - 1) = Wrap(First + (i + 1))
    BY <1>4, <1>7, SemBufferAssumption
  <2>2. data[Wrap(First + (i + 1))] \in Line
    BY <1>4, SemBufferAssumption DEF SlotsHoldLines
  <2>3. First' + (i + 1) - 1 = First' + i
    BY <1>6, SemBufferAssumption DEF Wrap, Slot
  <2> QED
    BY <2>1, <2>2, <2>3
<1>11. Types' /\ Received'
  BY <1>1, <1>2, <1>8 DEF Types, Received, net
<1>12. HandsHoldLines'
  <2>1. h \in Inside
    BY <1>1 DEF Inside, In, CInside
  <2> QED
    BY <1>1, <1>8, <2>1, HandsOfOthers DEF Types
<1> QED
  BY <1>4, <1>5, <1>7, <1>8, <1>9, <1>10, <1>11, <1>12

(* Moving tail changes nothing of the queue: Oldest already counted it.      *)
LEMMA MoveTailStep ==
    ASSUME IInv, NEW h \in Handlers, MoveTail(h)
    PROVE  IInv' /\ Count' = Count /\ First' = First
<1> USE DEF IInv
<1>1. /\ pc[h] = "moveTail" /\ Goto(h, "cPostMutex")
      /\ UNCHANGED <<data, head, mutex, empty, full, line, net>>
      /\ tail' = (tail + 1) % BUFFER_SIZE
  BY DEF MoveTail, At, sems
<1>2. PCType'
  BY <1>1 DEF Types, PCType, Goto, Labels, CInside
<1>3. /\ cP' = cP /\ cF' = cF /\ cG' = cG
      /\ cD' = cD /\ cT' = cT - 1 /\ cO' = cO + 1
  <2>1. Change("moveTail", "cPostMutex")
    BY <1>1, CountersGo DEF Types
  <2> QED
    BY <2>1, CountersNat DEF Change, Ind, Space1, Space2, Item1, Item2,
       Taking, Other
<1>4. MutexUnit' /\ SlotUnits' /\ Count' = Count
  BY <1>1, <1>3, CountersNat, CountOldest DEF Types, MutexUnit, SlotUnits
<1>5. cT = 1 /\ cT' = 0
  BY <1>1, <1>3, AtMoveTail
<1>6. tail' = Wrap(tail + 1) /\ tail' \in Slot
  <2>1. tail + 1 \in 0..BUFFER_SIZE
    BY SemBufferAssumption DEF Types, Slot
  <2>2. tail' = Wrap(tail + 1)
    BY <1>1, <2>1, WrapMod
  <2> QED
    BY <2>1, <2>2, SemBufferAssumption DEF Wrap, Slot
<1>7. First' = First
  BY <1>5, <1>6, CountOldest, SemBufferAssumption DEF First, Wrap, Slot
<1>8. HeadAhead' /\ SlotsHoldLines'
  BY <1>1, <1>4, <1>7, QueueSame
<1>9. Types' /\ Received'
  BY <1>1, <1>2, <1>6 DEF Types, Received, net
<1>10. HandsHoldLines'
  <2>1. h \in Inside
    BY <1>1 DEF Inside, In, CInside
  <2> QED
    BY <1>1, <2>1, HandsOfOthers DEF HandsHoldLines, Carrying
<1> QED
  BY <1>4, <1>7, <1>8, <1>9, <1>10

-----------------------------------------------------------------------------
(* Every step keeps the invariant.                                           *)
LEMMA NextIInv == IInv /\ [Next]_vars => IInv'
<1> SUFFICES ASSUME IInv, [Next]_vars PROVE IInv'
  OBVIOUS
<1>1. CASE UNCHANGED vars
  <2>1. SameCounters
    BY <1>1 DEF vars, SameCounters, cP, cF, cG, cD, cT, cO, N, In
  <2>2. Count' = Count /\ First' = First
    BY <1>1, <2>1, CountOldest DEF vars, shm, sems, SameCounters, First, Wrap
  <2> QED
    BY <1>1, <2>1, <2>2, QueueSame
       DEF vars, shm, sems, net, SameCounters, IInv, Types, PCType, MutexUnit,
           SlotUnits, HandsHoldLines, Received
<1>2. ASSUME NEW h \in Handlers, HandleClient(h) \/ ClientClose(h) \/ Kill(h)
      PROVE  IInv'
  <2>1. CASE \/ Accept(h) \/ Prompt(h) \/ ReadRole(h) \/ ReadLine(h)
             \/ WriteOK(h) \/ WriteLine(h) \/ ClientClose(h) \/ Kill(h)
    BY <2>1, QuietActions
  <2>2. CASE \/ WaitEmpty(h) \/ PWaitMutex(h) \/ PPostMutex(h) \/ PostFull(h)
             \/ WaitFull(h) \/ CWaitMutex(h) \/ CPostMutex(h) \/ PostEmpty(h)
    BY <2>2, SemaphoreActions
  <2>3. CASE CopyIn(h)
    BY <2>3, CopyInStep
  <2>4. CASE MoveHead(h)
    BY <2>4, MoveHeadStep
  <2>5. CASE CopyOut(h)
    BY <2>5, CopyOutStep
  <2>6. CASE MoveTail(h)
    BY <2>6, MoveTailStep
  <2> QED
    BY <1>2, <2>1, <2>2, <2>3, <2>4, <2>5, <2>6
       DEF HandleClient, Produce, Consume
<1> QED
  BY <1>1, <1>2 DEF Next

-----------------------------------------------------------------------------
(* Safety *)

(* The invariant holds in every reachable state.                             *)
LEMMA Invariance == Spec => []IInv
BY InitIInv, NextIInv, PTL DEF Spec

(* For any number of clients and slots, every variable of the server stays   *)
(* in its range; only lines are ever taken out and written to a client.      *)
THEOREM TypeCorrect == Spec => []TypeOK
<1>1. IInv => TypeOK
  BY Bounds DEF IInv, Types, PCType, Received, TypeOK
<1> QED
  BY <1>1, Invariance, PTL

(* produce and consume never overlap between sem_wait(mutex) and             *)
(* sem_post(mutex), also when children are killed inside.                    *)
THEOREM Exclusive == Spec => []MutualExclusion
<1>1. IInv => MutualExclusion
  BY Alone DEF IInv, MutualExclusion
<1> QED
  BY <1>1, Invariance, PTL

(* What the invariant says of the slots, in the terms of the property. *)
LEMMA SlotsAddUp == IInv => SlotAccounting
<1> SUFFICES ASSUME IInv PROVE SlotAccounting
  OBVIOUS
<1>1. N(Space1 \cup Space2) = cP + cF /\ N(Item1 \cup Item2) = cG + cD
  BY NUnion DEF cP, cF, cG, cD, Space1, Space2, Item1, Item2
<1>2. /\ Space1 \cup Space2 = {"pWaitMutex", "postFull"} \cup PInside
      /\ Item1 \cup Item2 = {"cWaitMutex", "postEmpty"} \cup CInside
  BY DEF Space1, Space2, Item1, Item2, PInside, CInside
<1>3. /\ Cardinality(HoldsSpace) = cP + cF
      /\ Cardinality(HoldsItem) = cG + cD
  BY <1>1, <1>2 DEF HoldsSpace, HoldsItem, N
<1> QED
  BY <1>3, CountersNat DEF IInv, SlotUnits, SlotAccounting, Types

(* empty, full and the children between a wait and its post always add up to *)
(* the number of slots.                                                      *)
THEOREM UnitsConserved == Spec => []SlotAccounting
BY SlotsAddUp, Invariance, PTL

(* The same for the indexes. *)
LEMMA HeadFollows == IInv => IndexesAgree
BY DEF IInv, HeadAhead, First, IndexesAgree

(* head is always Count slots in front of the oldest line, so the indexes    *)
(* never contradict the semaphores.                                          *)
THEOREM IndexesFollowSemaphores == Spec => []IndexesAgree
BY HeadFollows, Invariance, PTL

-----------------------------------------------------------------------------
(* Refinement *)

(* The refinement mapping yields a sequence of Count lines.                  *)
LEMMA QueueIsSeq ==
    ASSUME IInv
    PROVE  Queue \in Seq(Line) /\ Len(Queue) = Count
<1>1. Count \in Nat
  BY Bounds DEF IInv
<1>2. ASSUME NEW i \in 1..Count PROVE data[Wrap(First + i - 1)] \in Line
  <2>1. data[Wrap(First + (i - 1))] \in Line
    BY <1>1 DEF IInv, SlotsHoldLines
  <2>2. First + (i - 1) = First + i - 1
    BY Bounds DEF IInv, Slot
  <2> QED
    BY <2>1, <2>2
<1> QED
  BY <1>1, <1>2 DEF Queue, First

(* The same in the next state. *)
LEMMA QueueIsSeqNext == IInv' => (Queue \in Seq(Line) /\ Len(Queue) = Count)'
BY QueueIsSeq, PTL

(* Where the i-th line of the queue lies in the buffer.                      *)
LEMMA QueueElement ==
    ASSUME IInv, NEW i \in 1..Count
    PROVE  Queue[i] = data[Wrap(First + (i - 1))]
<1>1. First + (i - 1) = First + i - 1
  BY Bounds DEF IInv, Slot
<1> QED
  BY <1>1 DEF Queue, First

(* What a child holds, by its place in the code.                             *)
LEMMA HandValue ==
    ASSUME NEW h \in Handlers
    PROVE  /\ pc[h] \in Carrying => Hand[h] = line[h]
           /\ pc[h] \notin Carrying => Hand[h] = NoLine
BY DEF Hand

(* An empty hand is never mistaken for a line.                               *)
LEMMA NoLineIsNoLine == NoLine \notin Line
BY SemBufferAssumption DEF Line

(* The queue stays the same when its slots and its ends do.                  *)
LEMMA QueueUnchanged ==
    ASSUME IInv, Count' = Count, First' = First,
           \A i \in 0..(Count - 1) :
                data'[Wrap(First + i)] = data[Wrap(First + i)]
    PROVE  Queue' = Queue
<1>1. Count \in Nat /\ First \in Nat
  BY Bounds, SemBufferAssumption DEF IInv, Slot
<1>2. ASSUME NEW i \in 1..Count
      PROVE  data'[Wrap(First + i - 1)] = data[Wrap(First + i - 1)]
  <2>1. data'[Wrap(First + (i - 1))] = data[Wrap(First + (i - 1))]
    BY <1>1
  <2>2. First + (i - 1) = First + i - 1
    BY <1>1
  <2> QED
    BY <2>1, <2>2
<1>3. /\ Queue = [i \in 1..Count |-> data[Wrap(First + i - 1)]]
      /\ Queue' = [i \in 1..Count' |-> data'[Wrap(First' + i - 1)]]
  BY DEF Queue, First, Wrap
<1> QED
  BY <1>2, <1>3

(* A step of child h that leaves the other children's hands alone. *)
LEMMA HandStep ==
    ASSUME IInv, NEW h \in Handlers, NEW label, Goto(h, label),
           \A g \in Handlers \ {h} : line'[g] = line[g]
    PROVE  /\ label \in Carrying => Hand' = [Hand EXCEPT ![h] = line'[h]]
           /\ label \notin Carrying => Hand' = [Hand EXCEPT ![h] = NoLine]
<1>1. pc'[h] = label /\ \A g \in Handlers \ {h} : pc'[g] = pc[g]
  BY DEF Goto, IInv, Types, PCType
<1>2. Hand' = [g \in Handlers |->
                  IF pc'[g] \in Carrying THEN line'[g] ELSE NoLine]
  BY DEF Hand
<1> QED
  BY <1>1, <1>2 DEF Hand

(* A step within or outside the carrying labels moves no line.               *)
LEMMA HandSame ==
    ASSUME IInv, NEW h \in Handlers, NEW label, Goto(h, label),
           UNCHANGED line, (label \in Carrying) <=> (pc[h] \in Carrying)
    PROVE  Hand' = Hand
<1>1. pc'[h] = label /\ \A g \in Handlers \ {h} : pc'[g] = pc[g]
  BY DEF Goto, IInv, Types, PCType
<1>2. Hand' = [g \in Handlers |->
                  IF pc'[g] \in Carrying THEN line'[g] ELSE NoLine]
  BY DEF Hand
<1> QED
  BY <1>1, <1>2 DEF Hand

(* Initial states map to the empty queue with empty hands.                   *)
LEMMA InitFIFO == Init => FIFO!Init
<1> SUFFICES ASSUME Init PROVE FIFO!Init
  OBVIOUS
<1>1. IInv
  BY InitIInv
<1>2. Count = 0
  <2>1. \A L : (\A h \in Handlers : pc[h] \notin L) => In(L) = {}
    BY DEF In
  <2>2. In({"pPostMutex", "postFull"}) = {} /\ In({"cWaitMutex", "copyOut"}) = {}
    BY <2>1 DEF Init
  <2>3. /\ Cardinality(In({"pPostMutex", "postFull"})) = 0
        /\ Cardinality(In({"cWaitMutex", "copyOut"})) = 0
    BY <2>2, FS_EmptySet
  <2> QED
    BY <2>3 DEF Init, Count
<1>3. Queue = <<>>
  BY <1>1, <1>2, QueueIsSeq
<1>4. Hand = [h \in Handlers |-> NoLine]
  BY DEF Init, Hand, Carrying
<1> QED
  BY <1>3, <1>4 DEF FIFO!Init

(* MoveHead is the abstract Put.                                             *)
LEMMA PutImplemented ==
    ASSUME IInv, NEW h \in Handlers, MoveHead(h)
    PROVE  FIFO!Put(h)
<1>1. /\ IInv' /\ Count' = Count + 1 /\ First' = First
      /\ Count < BUFFER_SIZE
      /\ data[Wrap(First + Count)] = line[h] /\ line[h] \in Line
      /\ data' = data /\ line' = line /\ pc[h] = "moveHead"
      /\ Goto(h, "pPostMutex")
  BY MoveHeadStep DEF MoveHead, At
<1>2. Count \in Nat /\ First \in Nat
  BY Bounds, SemBufferAssumption DEF IInv, Slot
<1>3. Hand[h] = line[h] /\ Hand[h] # NoLine
  BY <1>1, HandValue, NoLineIsNoLine DEF Carrying
<1>4. Hand' = [Hand EXCEPT ![h] = NoLine]
  BY <1>1, HandStep DEF Carrying
<1>5. Queue \in Seq(Line) /\ Len(Queue) = Count
  BY QueueIsSeq
<1>6. Queue' = Append(Queue, Hand[h])
  <2>1. Queue' \in Seq(Line) /\ Len(Queue') = Count + 1
    <3>1. (Queue \in Seq(Line) /\ Len(Queue) = Count)'
      BY <1>1, QueueIsSeqNext
    <3> QED
      BY <1>1, <3>1
  <2>2. ASSUME NEW i \in 1..(Count + 1)
        PROVE  Queue'[i] = data[Wrap(First + (i - 1))]
    <3>1. Queue' = [j \in 1..Count' |-> data'[Wrap(First' + j - 1)]]
      BY DEF Queue, First, Wrap
    <3>2. First + (i - 1) = First + i - 1
      BY <1>2
    <3> QED
      BY <1>1, <3>1, <3>2
  <2>3. ASSUME NEW i \in 1..(Count + 1)
        PROVE  Queue'[i] = Append(Queue, Hand[h])[i]
    <3>1. CASE i = Count + 1
      <4>1. i - 1 = Count
        BY <1>2, <3>1
      <4> QED
        BY <1>1, <1>3, <1>5, <2>2, <3>1, <4>1
    <3>2. CASE i \in 1..Count
      <4>1. Append(Queue, Hand[h])[i] = Queue[i]
        BY <1>1, <1>3, <1>5, <3>2, AppendProperties
      <4> QED
        BY <2>2, <3>2, <4>1, QueueElement
    <3>3. i = Count + 1 \/ i \in 1..Count
      BY <1>2
    <3> QED
      BY <3>1, <3>2, <3>3
  <2>4. Append(Queue, Hand[h]) \in Seq(Line)
        /\ Len(Append(Queue, Hand[h])) = Count + 1
    BY <1>1, <1>3, <1>5
  <2> QED
    BY <2>1, <2>3, <2>4
<1> QED
  BY <1>1, <1>3, <1>4, <1>5, <1>6 DEF FIFO!Put

(* CopyOut is the abstract Get.                                              *)
LEMMA GetImplemented ==
    ASSUME IInv, NEW h \in Handlers, CopyOut(h)
    PROVE  FIFO!Get(h)
<1>1. /\ IInv' /\ Count' = Count - 1 /\ Count \in 1..BUFFER_SIZE
      /\ \A i \in 1..Count : Wrap(First' + i - 1) = Wrap(First + i)
      /\ line'[h] = data[Wrap(First + 0)] /\ line'[h] \in Line
      /\ data' = data /\ pc[h] = "copyOut" /\ Goto(h, "moveTail")
      /\ \A g \in Handlers \ {h} : line'[g] = line[g]
  BY CopyOutStep DEF CopyOut, At, shm, IInv, Types
<1>2. Count \in Nat /\ First \in Nat /\ BUFFER_SIZE \in Nat
  BY Bounds, SemBufferAssumption DEF IInv, Slot
<1>3. Hand[h] = NoLine
  BY <1>1, HandValue DEF Carrying
<1>4. Hand' = [Hand EXCEPT ![h] = line'[h]]
  BY <1>1, HandStep DEF Carrying
<1>5. Queue \in Seq(Line) /\ Len(Queue) = Count
  BY QueueIsSeq
<1>6. Head(Queue) = line'[h]
  <2>1. Head(Queue) = Queue[1] /\ 1 \in 1..Count
    BY <1>1, <1>2, <1>5
  <2>2. 1 - 1 = 0
    OBVIOUS
  <2> QED
    BY <1>1, <2>1, <2>2, QueueElement
<1>7. Queue # <<>>
  BY <1>1, <1>2, <1>5
<1>8. Queue' = Tail(Queue)
  <2>1. Queue' = [j \in 1..(Count - 1) |-> data[Wrap(First' + j - 1)]]
    BY <1>1 DEF Queue, First, Wrap
  <2>2. /\ Tail(Queue) \in Seq(Line) /\ Len(Tail(Queue)) = Count - 1
        /\ \A j \in 1..(Count - 1) : Tail(Queue)[j] = Queue[j + 1]
    BY <1>1, <1>2, <1>5, <1>7, HeadTailProperties
  <2>3. ASSUME NEW j \in 1..(Count - 1)
        PROVE  data[Wrap(First' + j - 1)] = Queue[j + 1]
    <3>1. (j + 1) - 1 = j /\ j + 1 \in 1..Count /\ j \in 1..Count
      BY <1>2
    <3> QED
      BY <1>1, <3>1, QueueElement
  <2>4. Queue' \in Seq(Line) /\ Len(Queue') = Count - 1
    <3>1. (Queue \in Seq(Line) /\ Len(Queue) = Count)'
      BY <1>1, QueueIsSeqNext
    <3> QED
      BY <1>1, <3>1
  <2>5. \A j \in 1..(Count - 1) : Queue'[j] = Tail(Queue)[j]
    BY <2>1, <2>2, <2>3
  <2> QED
    BY <2>2, <2>4, <2>5, SeqEqual
<1> QED
  BY <1>3, <1>4, <1>6, <1>7, <1>8 DEF FIFO!Get

(* Every step maps to one step of the queue or to a stutter.                 *)
LEMMA NextFIFO == IInv /\ [Next]_vars => [FIFO!Next]_(FIFO!vars)
<1> SUFFICES ASSUME IInv, [Next]_vars PROVE [FIFO!Next]_(FIFO!vars)
  OBVIOUS
<1>1. CASE UNCHANGED vars
  BY <1>1 DEF vars, shm, sems, FIFO!vars, Queue, Hand, Count, Oldest, Wrap, In
<1>2. ASSUME NEW h \in Handlers, HandleClient(h) \/ ClientClose(h) \/ Kill(h)
      PROVE  \/ FIFO!PickUp(h) \/ FIFO!Put(h) \/ FIFO!Get(h) \/ FIFO!PutDown(h)
             \/ UNCHANGED FIFO!vars
  <2>1. CASE \/ Accept(h) \/ Prompt(h) \/ ReadRole(h) \/ ReadLine(h)
             \/ WriteOK(h) \/ WriteLine(h) \/ ClientClose(h) \/ Kill(h)
    <3>1. Queue' = Queue
      <4>1. Count' = Count /\ First' = First
        BY <2>1, QuietActions
      <4>2. data' = data
        BY <2>1 DEF Accept, Prompt, ReadRole, ReadLine, WriteOK, WriteLine,
                    ClientClose, Kill, shm
      <4> QED
        BY <4>1, <4>2, QueueUnchanged
    <3>2. CASE ReadLine(h) /\ pc'[h] = "waitEmpty"
      <4>1. /\ Goto(h, "waitEmpty") /\ line'[h] = <<h, nread[h] + 1>>
            /\ h \in Producers /\ nread[h] < MaxLines
            /\ \A g \in Handlers \ {h} : line'[g] = line[g]
        BY <3>2 DEF ReadLine, Goto, IInv, Types, PCType
      <4>2. line'[h] \in Line
        BY <4>1, SemBufferAssumption DEF Line, IInv, Types
      <4>3. Hand' = [Hand EXCEPT ![h] = line'[h]]
        BY <4>1, HandStep DEF Carrying
      <4>4. Hand[h] = NoLine
        BY <3>2, HandValue DEF ReadLine, At, Carrying
      <4> QED
        BY <3>1, <4>2, <4>3, <4>4 DEF FIFO!PickUp
    <3>3. CASE WriteLine(h) /\ Goto(h, "waitFull")
      <4>1. Hand' = [Hand EXCEPT ![h] = NoLine]
        BY <3>3, HandStep DEF WriteLine, Carrying
      <4>2. Hand[h] # NoLine
        BY <3>3, HandValue, NoLineIsNoLine
           DEF WriteLine, At, IInv, HandsHoldLines, Carrying
      <4> QED
        BY <3>1, <4>1, <4>2 DEF FIFO!PutDown
    <3>4. CASE /\ ~(ReadLine(h) /\ pc'[h] = "waitEmpty")
               /\ ~(WriteLine(h) /\ Goto(h, "waitFull"))
      <4>1. UNCHANGED line
        BY <2>1, <3>4
           DEF Accept, Prompt, ReadRole, ReadLine, WriteOK, WriteLine,
               ClientClose, Kill, Goto, IInv, Types, PCType
      <4>2. \/ UNCHANGED pc
            \/ /\ pc[h] \notin Carrying
               /\ \E label \in {"prompt", "role", "readLine", "waitFull", "exited"} :
                     Goto(h, label)
        BY <2>1, <3>4
           DEF Accept, Prompt, ReadRole, ReadLine, WriteOK, WriteLine,
               ClientClose, Kill, Write, RoleStart, At, Goto, IInv, Types,
               PCType, Carrying
      <4>3. Hand' = Hand
        <5>1. CASE UNCHANGED pc
          BY <4>1, <5>1 DEF Hand
        <5>2. CASE /\ pc[h] \notin Carrying
                   /\ \E label \in {"prompt", "role", "readLine", "waitFull",
                                     "exited"} : Goto(h, label)
          BY <4>1, <5>2, HandSame DEF Carrying
        <5> QED
          BY <4>2, <5>1, <5>2
      <4> QED
        BY <3>1, <4>3 DEF FIFO!vars
    <3> QED
      BY <3>2, <3>3, <3>4
  <2>2. CASE \/ WaitEmpty(h) \/ PWaitMutex(h) \/ PPostMutex(h) \/ PostFull(h)
             \/ WaitFull(h) \/ CWaitMutex(h) \/ CPostMutex(h) \/ PostEmpty(h)
    <3>1. Queue' = Queue
      <4>1. Count' = Count /\ First' = First
        BY <2>2, SemaphoreActions
      <4>2. data' = data
        BY <2>2 DEF WaitEmpty, PWaitMutex, PPostMutex, PostFull, WaitFull,
                    CWaitMutex, CPostMutex, PostEmpty, shm
      <4> QED
        BY <4>1, <4>2, QueueUnchanged
    <3>2. Hand' = Hand
      <4>1. /\ UNCHANGED line
            /\ \E label \in Labels :
                  /\ Goto(h, label)
                  /\ (label \in Carrying) <=> (pc[h] \in Carrying)
        BY <2>2 DEF WaitEmpty, PWaitMutex, PPostMutex, PostFull, WaitFull,
                    CWaitMutex, CPostMutex, PostEmpty, At, Labels, Carrying,
                    PInside, CInside
      <4> QED
        BY <4>1, HandSame
    <3> QED
      BY <3>1, <3>2 DEF FIFO!vars
  <2>3. CASE CopyIn(h)
    <3>1. Queue' = Queue
      BY <2>3, CopyInStep, QueueUnchanged
    <3>2. Hand' = Hand
      BY <2>3, HandSame DEF CopyIn, At, Carrying
    <3> QED
      BY <3>1, <3>2 DEF FIFO!vars
  <2>4. CASE MoveHead(h)
    BY <2>4, PutImplemented
  <2>5. CASE CopyOut(h)
    BY <2>5, GetImplemented
  <2>6. CASE MoveTail(h)
    <3>1. Queue' = Queue
      <4>1. data' = data
        BY <2>6 DEF MoveTail
      <4> QED
        BY <2>6, <4>1, MoveTailStep, QueueUnchanged
    <3>2. Hand' = Hand
      BY <2>6, HandSame DEF MoveTail, At, Carrying
    <3> QED
      BY <3>1, <3>2 DEF FIFO!vars
  <2> QED
    BY <1>2, <2>1, <2>2, <2>3, <2>4, <2>5, <2>6
       DEF HandleClient, Produce, Consume
<1> QED
  BY <1>1, <1>2 DEF Next, FIFO!Next

(* The shared buffer with its three semaphores behaves as one bounded FIFO   *)
(* queue, for any number of clients, lines and slots and whatever is killed: *)
(* no line is lost, doubled, overtaken or torn between produce and consume.  *)
THEOREM Refinement == Spec => ImplementsFIFO
BY InitFIFO, NextFIFO, Invariance, PTL
   DEF Spec, ImplementsFIFO, FIFO!Spec

-----------------------------------------------------------------------------
(* Where the lines of SemBuffer are, and in which order.  A line moves from  *)
(* a client to the hands of its producer, into the queue, into the hands of  *)
(* a consumer and to a client, in five steps; each invariant is proved over  *)
(* these five, on the refinement above.                                      *)

(* Children that carry a line to the buffer, not away from it. *)
Filling ==
    {h \in Handlers : pc[h] \in {"waitEmpty", "pWaitMutex", "copyIn", "moveHead"}}

(* The ways of a line.  *)
IsRead(h) ==
    /\ h \in Producers /\ nread[h] < MaxLines
    /\ Hand[h] = NoLine /\ Hand' = [Hand EXCEPT ![h] = <<h, nread[h] + 1>>]
    /\ nread' = [nread EXCEPT ![h] = @ + 1]
    /\ Filling' = Filling \cup {h}
    /\ UNCHANGED <<Queue, delivered, lost>>

Enters(h) ==
    /\ h \in Filling /\ Hand[h] # NoLine
    /\ Queue' = Append(Queue, Hand[h])
    /\ Hand' = [Hand EXCEPT ![h] = NoLine]
    /\ Filling' = Filling \ {h}
    /\ UNCHANGED <<nread, delivered, lost>>

IsTaken(h) ==
    /\ h \notin Filling /\ Hand[h] = NoLine /\ Queue # <<>>
    /\ Hand' = [Hand EXCEPT ![h] = Head(Queue)]
    /\ Queue' = Tail(Queue)
    /\ UNCHANGED <<Filling, nread, delivered, lost>>

Leaves(h) ==
    /\ h \notin Filling /\ Hand[h] # NoLine
    /\ Hand' = [Hand EXCEPT ![h] = NoLine]
    /\ \/ /\ delivered' = [delivered EXCEPT ![h] = Append(@, Hand[h])]
          /\ UNCHANGED lost
       \/ /\ lost' = lost \cup {Hand[h]}
          /\ UNCHANGED delivered
    /\ UNCHANGED <<Queue, Filling, nread>>

Stays == UNCHANGED <<Hand, Queue, Filling, nread, delivered, lost>>

Moves == Stays \/ \E h \in Handlers : IsRead(h) \/ Enters(h) \/ IsTaken(h) \/ Leaves(h)

(* What a step does to Filling. *)
LEMMA FillingStep ==
    ASSUME IInv, NEW h \in Handlers, NEW label, Goto(h, label)
    PROVE  Filling' = IF label \in {"waitEmpty", "pWaitMutex", "copyIn", "moveHead"}
                      THEN Filling \cup {h} ELSE Filling \ {h}
BY DEF IInv, Types, PCType, Goto, Filling

(* A child that goes from one place to another of the same group leaves the  *)
(* group as it is.                                                           *)
LEMMA FillingSame ==
    ASSUME IInv, NEW h \in Handlers, NEW label, Goto(h, label),
           label \in {"waitEmpty", "pWaitMutex", "copyIn", "moveHead"}
              <=> pc[h] \in {"waitEmpty", "pWaitMutex", "copyIn", "moveHead"}
    PROVE  Filling' = Filling
BY DEF IInv, Types, PCType, Goto, Filling

(* Steps that move no line. *)
LEMMA QuietMoves ==
    ASSUME IInv, NEW h \in Handlers,
           \/ Accept(h) \/ Prompt(h) \/ ReadRole(h) \/ WriteOK(h)
           \/ ClientClose(h) \/ Kill(h)
           \/ WaitEmpty(h) \/ PWaitMutex(h) \/ PPostMutex(h) \/ PostFull(h)
           \/ WaitFull(h) \/ CWaitMutex(h) \/ CPostMutex(h) \/ PostEmpty(h)
           \/ CopyIn(h) \/ MoveTail(h)
           \/ ReadLine(h) /\ Goto(h, "exited")
           \/ WriteLine(h) /\ UNCHANGED pc
    PROVE  Stays
<1>1. UNCHANGED <<line, nread, delivered, lost>>
  BY DEF Accept, Prompt, ReadRole, WriteOK, ClientClose, Kill, WaitEmpty,
         PWaitMutex, PPostMutex, PostFull, WaitFull, CWaitMutex, CPostMutex,
         PostEmpty, CopyIn, MoveTail, ReadLine, WriteLine, Write, At, Goto, net,
         IInv, Types, PCType
<1>2. \/ UNCHANGED pc
      \/ \E label \in Labels :
            /\ Goto(h, label)
            /\ (label \in Carrying) <=> (pc[h] \in Carrying)
            /\ label \in {"waitEmpty", "pWaitMutex", "copyIn", "moveHead"}
                 <=> pc[h] \in {"waitEmpty", "pWaitMutex", "copyIn", "moveHead"}
  <2>1. CASE \/ Accept(h) \/ Prompt(h) \/ ReadRole(h) \/ WriteOK(h)
             \/ ClientClose(h) \/ Kill(h)
             \/ ReadLine(h) /\ Goto(h, "exited")
             \/ WriteLine(h) /\ UNCHANGED pc
    BY <2>1 DEF Accept, Prompt, ReadRole, WriteOK, ClientClose, Kill, ReadLine,
                Write, RoleStart, At, Labels, Carrying
  <2>2. CASE \/ WaitEmpty(h) \/ PWaitMutex(h) \/ PPostMutex(h) \/ PostFull(h)
             \/ WaitFull(h) \/ CWaitMutex(h) \/ CPostMutex(h) \/ PostEmpty(h)
             \/ CopyIn(h) \/ MoveTail(h)
    BY <2>2 DEF WaitEmpty, PWaitMutex, PPostMutex, PostFull, WaitFull,
                CWaitMutex, CPostMutex, PostEmpty, CopyIn, MoveTail, At, Labels,
                Carrying, PInside, CInside
  <2> QED
    BY <2>1, <2>2
<1>3. Hand' = Hand /\ Filling' = Filling
  <2>1. CASE UNCHANGED pc
    BY <1>1, <2>1 DEF Hand, Filling
  <2>2. CASE ~UNCHANGED pc
    BY <1>1, <1>2, <2>2, HandSame, FillingSame
  <2> QED
    BY <2>1, <2>2
<1>4. Queue' = Queue
  <2>1. CASE CopyIn(h)
    BY <2>1, CopyInStep, QueueUnchanged
  <2>2. CASE MoveTail(h)
    BY <2>2, MoveTailStep, QueueUnchanged DEF MoveTail
  <2>3. CASE \/ WaitEmpty(h) \/ PWaitMutex(h) \/ PPostMutex(h) \/ PostFull(h)
             \/ WaitFull(h) \/ CWaitMutex(h) \/ CPostMutex(h) \/ PostEmpty(h)
    <3>1. data' = data
      BY <2>3 DEF WaitEmpty, PWaitMutex, PPostMutex, PostFull, WaitFull,
                  CWaitMutex, CPostMutex, PostEmpty, shm
    <3> QED
      BY <2>3, <3>1, SemaphoreActions, QueueUnchanged
  <2>4. CASE \/ Accept(h) \/ Prompt(h) \/ ReadRole(h) \/ ReadLine(h)
             \/ WriteOK(h) \/ WriteLine(h) \/ ClientClose(h) \/ Kill(h)
    <3>1. data' = data
      BY <2>4 DEF Accept, Prompt, ReadRole, ReadLine, WriteOK, WriteLine,
                  ClientClose, Kill, shm
    <3> QED
      BY <2>4, <3>1, QuietActions, QueueUnchanged
  <2> QED
    BY <2>1, <2>2, <2>3, <2>4
<1> QED
  BY <1>1, <1>3, <1>4 DEF Stays

(* Every step of a child leaves all lines where they are or moves one.       *)
LEMMA NextMoves == IInv /\ [Next]_vars => Moves
<1> SUFFICES ASSUME IInv, [Next]_vars PROVE Moves
  OBVIOUS
<1>1. CASE UNCHANGED vars
  BY <1>1 DEF vars, shm, sems, net, Moves, Stays, Queue, Hand, Count, Oldest,
              Wrap, In, Filling
<1>2. ASSUME NEW h \in Handlers, HandleClient(h) \/ ClientClose(h) \/ Kill(h)
      PROVE  Stays \/ IsRead(h) \/ Enters(h) \/ IsTaken(h) \/ Leaves(h)
  <2>1. CASE ReadLine(h) /\ ~Goto(h, "exited")
    <3>1. /\ pc[h] = "readLine" /\ Goto(h, "waitEmpty")
          /\ h \in Producers /\ nread[h] < MaxLines
          /\ nread' = [nread EXCEPT ![h] = @ + 1]
          /\ line' = [line EXCEPT ![h] = <<h, nread[h] + 1>>]
          /\ UNCHANGED <<delivered, lost>> /\ data' = data
      BY <2>1 DEF ReadLine, At, shm
    <3>2. Hand[h] = NoLine
      BY <3>1, HandValue DEF Carrying
    <3>3. Hand' = [Hand EXCEPT ![h] = <<h, nread[h] + 1>>]
      BY <3>1, HandStep DEF Carrying, IInv, Types
    <3>4. Filling' = Filling \cup {h}
      BY <3>1, FillingStep
    <3>5. Queue' = Queue
      BY <2>1, <3>1, QuietActions, QueueUnchanged
    <3> QED
      BY <3>1, <3>2, <3>3, <3>4, <3>5 DEF IsRead
  <2>2. CASE MoveHead(h)
    <3>1. FIFO!Put(h)
      BY <2>2, PutImplemented
    <3>2. /\ h \in Filling /\ Filling' = Filling \ {h}
          /\ UNCHANGED <<nread, delivered, lost>>
      BY <2>2, FillingStep DEF MoveHead, At, Filling, net
    <3> QED
      BY <3>1, <3>2 DEF FIFO!Put, Enters
  <2>3. CASE CopyOut(h)
    <3>1. FIFO!Get(h)
      BY <2>3, GetImplemented
    <3>2. /\ h \notin Filling /\ Filling' = Filling
          /\ UNCHANGED <<nread, delivered, lost>>
      BY <2>3, FillingSame DEF CopyOut, At, Filling, net
    <3> QED
      BY <3>1, <3>2 DEF FIFO!Get, IsTaken
  <2>4. CASE WriteLine(h) /\ ~UNCHANGED pc
    <3>1. /\ pc[h] = "writeLine" /\ Goto(h, "waitFull")
          /\ UNCHANGED <<data, line, nread>> /\ conn[h] \in {"open", "closed"}
      BY <2>4 DEF WriteLine, Write, At, shm
    <3>2. Hand[h] = line[h] /\ Hand[h] # NoLine
      BY <3>1, HandValue, NoLineIsNoLine DEF IInv, HandsHoldLines, Carrying
    <3>3. Hand' = [Hand EXCEPT ![h] = NoLine]
      BY <3>1, HandStep DEF Carrying
    <3>4. h \notin Filling /\ Filling' = Filling
      BY <3>1, FillingSame DEF Filling
    <3>5. Queue' = Queue
      BY <2>4, <3>1, QuietActions, QueueUnchanged
    <3>6. \/ /\ delivered' = [delivered EXCEPT ![h] = Append(@, Hand[h])]
             /\ UNCHANGED lost
          \/ /\ lost' = lost \cup {Hand[h]}
             /\ UNCHANGED delivered
      BY <2>4, <3>1, <3>2 DEF WriteLine
    <3> QED
      BY <3>1, <3>2, <3>3, <3>4, <3>5, <3>6 DEF Leaves
  <2>5. CASE /\ ~MoveHead(h) /\ ~CopyOut(h)
             /\ ~(ReadLine(h) /\ ~Goto(h, "exited"))
             /\ ~(WriteLine(h) /\ ~UNCHANGED pc)
    <3>1. Stays
      BY <1>2, <2>5, QuietMoves DEF HandleClient, Produce, Consume
    <3> QED
      BY <3>1
  <2> QED
    BY <2>1, <2>2, <2>3, <2>4, <2>5
<1> QED
  BY <1>1, <1>2 DEF Next, Moves

-----------------------------------------------------------------------------
(* Each line is in one place. *)

InHands == {l \in Line : \E h \in Handlers : Hand[h] = l}
InQueue == {l \in Line : \E i \in 1..Len(Queue) : Queue[i] = l}
Given == {l \in Line :
            \E h \in Handlers : \E i \in 1..Len(delivered[h]) : delivered[h][i] = l}
ReadSoFar == {l \in Line : l[2] <= nread[l[1]]}

Once ==
    /\ \A g, h \in Handlers : Hand[g] = Hand[h] /\ Hand[g] # NoLine => g = h
    /\ \A i, j \in 1..Len(Queue) : Queue[i] = Queue[j] => i = j
    /\ \A g, h \in Handlers :
         \A i \in 1..Len(delivered[g]), j \in 1..Len(delivered[h]) :
            delivered[g][i] = delivered[h][j] => g = h /\ i = j
    /\ InHands \cap InQueue = {} /\ InHands \cap Given = {}
    /\ InHands \cap lost = {} /\ InQueue \cap Given = {}
    /\ InQueue \cap lost = {} /\ Given \cap lost = {}
    /\ InHands \cup InQueue \cup Given \cup lost = ReadSoFar

LineTypes ==
    /\ Queue \in Seq(Line)
    /\ Hand \in [Handlers -> Line \cup {NoLine}]
    /\ delivered \in [Handlers -> Seq(Line)]
    /\ lost \subseteq Line
    /\ nread \in [Handlers -> 0..MaxLines]

(* The types of lines, from the invariant of the buffer. *)
LEMMA LineTyped == IInv => LineTypes
<1> SUFFICES ASSUME IInv PROVE LineTypes
  OBVIOUS
<1>1. Hand \in [Handlers -> Line \cup {NoLine}]
  BY DEF Hand, IInv, Types
<1> QED
  BY <1>1, QueueIsSeq DEF LineTypes, IInv, Types, Received

(* A line whose producer the model knows is read at most once.               *)
LEMMA IsReadOnce ==
    ASSUME LineTypes, Once, NEW h \in Handlers, IsRead(h)
    PROVE  Once'
<1> DEFINE l == <<h, nread[h] + 1>>
<1>1. l \in Line /\ l \notin ReadSoFar /\ l # NoLine
  BY SemBufferAssumption DEF IsRead, LineTypes, Line, ReadSoFar
<1>2. ReadSoFar' = ReadSoFar \cup {l}
  <2>1. ASSUME NEW m \in Line
        PROVE  m[2] <= nread'[m[1]] <=> (m[2] <= nread[m[1]] \/ m = l)
    <3>1. PICK p \in Producers, n \in 1..MaxLines : m = <<p, n>>
      BY DEF Line
    <3>2. nread[p] \in Nat /\ nread[h] \in Nat /\ p \in Handlers
      BY <3>1, SemBufferAssumption DEF LineTypes, Handlers
    <3>3. nread'[p] = IF p = h THEN nread[h] + 1 ELSE nread[p]
      BY <3>2 DEF IsRead, LineTypes
    <3> QED
      BY <3>1, <3>2, <3>3
  <2> QED
    BY <1>1, <2>1 DEF ReadSoFar
<1>3. InHands' = InHands \cup {l}
  <2>1. /\ Hand'[h] = l /\ Hand[h] \notin Line
        /\ \A g \in Handlers \ {h} : Hand'[g] = Hand[g]
    BY NoLineIsNoLine DEF IsRead, LineTypes
  <2> QED
    BY <1>1, <2>1 DEF InHands
<1>4. InQueue' = InQueue /\ Given' = Given /\ lost' = lost
  BY DEF InQueue, Given, IsRead
<1>5. \A f, g \in Handlers : Hand'[f] = Hand'[g] /\ Hand'[f] # NoLine => f = g
  BY <1>1 DEF IsRead, LineTypes, Once, InHands
<1> QED
  BY <1>1, <1>2, <1>3, <1>4, <1>5 DEF Once, IsRead

(* It enters the queue as the only copy.                                     *)
LEMMA EntersOnce ==
    ASSUME LineTypes, Once, NEW h \in Handlers, Enters(h)
    PROVE  Once'
<1> DEFINE l == Hand[h]
           n == Len(Queue)
<1>1. l \in Line /\ l \in InHands /\ l \notin InQueue /\ NoLine \notin Line
  BY NoLineIsNoLine DEF Enters, LineTypes, InHands, Once
<1>2. /\ n \in Nat /\ Len(Queue') = n + 1
      /\ \A i \in 1..n : Queue'[i] = Queue[i] /\ Queue[i] \in Line
      /\ Queue'[n + 1] = l
  BY <1>1, AppendProperties, LenProperties, ElementOfSeq DEF Enters, LineTypes
<1>3. /\ Hand'[h] = NoLine
      /\ \A g \in Handlers \ {h} : Hand'[g] = Hand[g]
  BY DEF Enters, LineTypes
<1>4. InHands' = InHands \ {l}
  BY <1>1, <1>3 DEF InHands, Once, Enters
<1>5. InQueue' = InQueue \cup {l}
  BY <1>1, <1>2 DEF InQueue
<1>6. Given' = Given /\ lost' = lost /\ ReadSoFar' = ReadSoFar
      /\ delivered' = delivered
  BY DEF Given, ReadSoFar, Enters
<1>7. \A f, g \in Handlers : Hand'[f] = Hand'[g] /\ Hand'[f] # NoLine => f = g
  BY <1>3 DEF Once
<1>8. \A i, j \in 1..Len(Queue') : Queue'[i] = Queue'[j] => i = j
  <2> SUFFICES ASSUME NEW i \in 1..(n + 1), NEW j \in 1..(n + 1),
                      Queue'[i] = Queue'[j]
               PROVE  i = j
    BY <1>2
  <2>1. \A k \in 1..n : Queue[k] # l
    BY <1>1 DEF InQueue
  <2>2. \A k \in 1..(n + 1) : k \in 1..n \/ k = n + 1
    BY <1>2
  <2> QED
    BY <1>2, <2>1, <2>2 DEF Once
<1> QED
  BY <1>1, <1>4, <1>5, <1>6, <1>7, <1>8 DEF Once

(* It is taken out of the queue as the only copy.                            *)
LEMMA IsTakenOnce ==
    ASSUME LineTypes, Once, NEW h \in Handlers, IsTaken(h)
    PROVE  Once'
<1> DEFINE l == Head(Queue)
           n == Len(Queue)
<1>1. /\ n \in Nat /\ n >= 1 /\ Len(Queue') = n - 1
      /\ \A i \in 1..(n - 1) : Queue'[i] = Queue[i + 1]
      /\ Queue[1] = l
  BY HeadTailProperties, LenProperties, EmptySeq DEF IsTaken, LineTypes
<1>2. l \in Line /\ l \in InQueue /\ l \notin InHands /\ NoLine \notin Line
  <2>1. l \in Line
    BY <1>1, ElementOfSeq DEF LineTypes
  <2> QED
    BY <1>1, <2>1, NoLineIsNoLine DEF InQueue, Once
<1>3. /\ Hand'[h] = l /\ Hand[h] \notin Line
      /\ \A g \in Handlers \ {h} : Hand'[g] = Hand[g]
  BY <1>2 DEF IsTaken, LineTypes
<1>4. InHands' = InHands \cup {l}
  BY <1>2, <1>3 DEF InHands
<1>5. InQueue' = InQueue \ {l}
  <2>1. \A i \in 1..(n - 1) : i + 1 \in 1..n /\ i + 1 # 1
    BY <1>1
  <2>2. \A i \in 1..n : i = 1 \/ (i - 1 \in 1..(n - 1) /\ (i - 1) + 1 = i)
    BY <1>1
  <2>3. ASSUME NEW m \in Line, m \in InQueue' PROVE m \in InQueue /\ m # l
    <3>1. PICK i \in 1..(n - 1) : Queue'[i] = m
      BY <1>1, <2>3 DEF InQueue
    <3>2. Queue[i + 1] = m /\ i + 1 \in 1..n /\ i + 1 # 1 /\ 1 \in 1..n
      BY <1>1, <2>1, <3>1
    <3> QED
      BY <1>1, <3>2 DEF InQueue, Once
  <2>4. ASSUME NEW m \in Line, m \in InQueue, m # l PROVE m \in InQueue'
    <3>1. PICK i \in 1..n : Queue[i] = m
      BY <2>4 DEF InQueue
    <3>2. i - 1 \in 1..(n - 1) /\ Queue'[i - 1] = m
      BY <1>1, <2>2, <2>4, <3>1
    <3> QED
      BY <1>1, <3>2 DEF InQueue
  <2> QED
    BY <2>3, <2>4 DEF InQueue
<1>6. Given' = Given /\ lost' = lost /\ ReadSoFar' = ReadSoFar
      /\ delivered' = delivered
  BY DEF Given, ReadSoFar, IsTaken
<1>7. \A f, g \in Handlers : Hand'[f] = Hand'[g] /\ Hand'[f] # NoLine => f = g
  BY <1>2, <1>3 DEF Once, InHands
<1>8. \A i, j \in 1..Len(Queue') : Queue'[i] = Queue'[j] => i = j
  <2> SUFFICES ASSUME NEW i \in 1..(n - 1), NEW j \in 1..(n - 1),
                      Queue'[i] = Queue'[j]
               PROVE  i = j
    BY <1>1
  <2>1. /\ i + 1 \in 1..n /\ j + 1 \in 1..n
        /\ Queue[i + 1] = Queue[j + 1]
    BY <1>1
  <2>2. i + 1 = j + 1
    BY <2>1 DEF Once
  <2> QED
    BY <1>1, <2>2
<1> QED
  BY <1>2, <1>4, <1>5, <1>6, <1>7, <1>8 DEF Once

(* It reaches one client, or nobody.                                         *)
LEMMA LeavesOnce ==
    ASSUME LineTypes, Once, NEW h \in Handlers, Leaves(h)
    PROVE  Once'
<1> DEFINE l == Hand[h]
           n == Len(delivered[h])
<1>1. l \in Line /\ l \in InHands /\ l \notin Given /\ NoLine \notin Line
  BY NoLineIsNoLine DEF Leaves, LineTypes, InHands, Once
<1>2. /\ Hand'[h] = NoLine
      /\ \A g \in Handlers \ {h} : Hand'[g] = Hand[g]
  BY DEF Leaves, LineTypes
<1>3. InHands' = InHands \ {l}
  BY <1>1, <1>2 DEF InHands, Once, Leaves
<1>4. InQueue' = InQueue /\ ReadSoFar' = ReadSoFar /\ Queue' = Queue
  BY DEF InQueue, ReadSoFar, Leaves
<1>5. \A f, g \in Handlers : Hand'[f] = Hand'[g] /\ Hand'[f] # NoLine => f = g
  BY <1>2 DEF Once
<1>6. CASE lost' = lost \cup {l} /\ UNCHANGED delivered
  <2>1. Given' = Given
    BY <1>6 DEF Given
  <2> QED
    BY <1>1, <1>3, <1>4, <1>5, <1>6, <2>1 DEF Once
<1>7. CASE delivered' = [delivered EXCEPT ![h] = Append(@, l)] /\ UNCHANGED lost
  <2>1. /\ n \in Nat /\ Len(delivered'[h]) = n + 1
        /\ \A i \in 1..n : delivered'[h][i] = delivered[h][i]
        /\ delivered'[h][n + 1] = l
        /\ \A g \in Handlers \ {h} : delivered'[g] = delivered[g]
    BY <1>1, <1>7, AppendProperties, LenProperties DEF LineTypes
  <2>2. \A k \in 1..(n + 1) : k \in 1..n \/ k = n + 1
    BY <2>1
  <2>3. Given' = Given \cup {l}
    BY SMTT(30), <1>1, <2>1, <2>2 DEF Given
  <2>4. ASSUME NEW f \in Handlers, NEW g \in Handlers,
               NEW i \in 1..Len(delivered'[f]), NEW j \in 1..Len(delivered'[g]),
               delivered'[f][i] = delivered'[g][j]
        PROVE  f = g /\ i = j
    <3>1. \A e \in Handlers : \A k \in 1..Len(delivered[e]) : delivered[e][k] # l
      BY <1>1 DEF Given
    <3>2. \A e \in Handlers : \A k \in 1..Len(delivered'[e]) :
            \/ k \in 1..Len(delivered[e]) /\ delivered'[e][k] = delivered[e][k]
            \/ e = h /\ k = n + 1 /\ delivered'[e][k] = l
      BY <2>1, <2>2
    <3> QED
      BY <2>4, <3>1, <3>2 DEF Once
  <2> QED
    BY <1>1, <1>3, <1>4, <1>5, <1>7, <2>3, <2>4 DEF Once
<1> QED
  BY <1>6, <1>7 DEF Leaves

(* Each of the five moves of a line keeps it in one place. *)
LEMMA MovesOnce == IInv /\ Once /\ Moves => Once'
<1> SUFFICES ASSUME LineTypes, Once, Moves PROVE Once'
  BY LineTyped
<1>1. CASE Stays
  BY <1>1 DEF Stays, Once, InHands, InQueue, Given, ReadSoFar
<1> QED
  BY <1>1, IsReadOnce, EntersOnce, IsTakenOnce, LeavesOnce DEF Moves

(* No line is read at the start. *)
LEMMA InitOnce == Init => Once
<1> SUFFICES ASSUME Init PROVE Once
  OBVIOUS
<1>1. Queue = <<>> /\ Hand = [h \in Handlers |-> NoLine]
  BY InitFIFO DEF FIFO!Init
<1>2. \A h \in Handlers : Hand[h] = NoLine /\ delivered[h] = <<>>
  BY <1>1 DEF Init
<1>3. Len(<<>>) = 0
  BY EmptySeq
<1>4. InHands = {} /\ InQueue = {} /\ Given = {} /\ lost = {}
  BY <1>1, <1>2, <1>3, NoLineIsNoLine DEF InHands, InQueue, Given, Init
<1>5. ReadSoFar = {}
  BY SemBufferAssumption DEF ReadSoFar, Line, Init, Handlers
<1> QED
  BY <1>1, <1>2, <1>3, <1>4, <1>5 DEF Once

(* What the invariant says of Places.                                        *)
LEMMA PlacesCounted == IInv /\ Once => LinesAccounted
<1> SUFFICES ASSUME IInv, Once, NEW l \in Line
             PROVE  Cardinality(Places(l)) = IF l[2] <= nread[l[1]] THEN 1 ELSE 0
  BY DEF LinesAccounted
<1>1. LineTypes /\ Len(Queue) = Count
  BY LineTyped, QueueIsSeq
<1>2. \A h \in Handlers : DOMAIN delivered[h] = 1..Len(delivered[h])
  BY <1>1, LenProperties DEF LineTypes
<1>3. ASSUME NEW p
      PROVE  p \in Places(l) <=>
               \/ \E h \in Handlers : p = <<"hand", h, 0>> /\ Hand[h] = l
               \/ \E i \in 1..Len(Queue) : p = <<"slot", 0, i>> /\ Queue[i] = l
               \/ \E h \in Handlers : \E i \in 1..Len(delivered[h]) :
                     p = <<"client", h, i>> /\ delivered[h][i] = l
               \/ p = <<"lost", 0, 0>> /\ l \in lost
  <2> DEFINE hands == {<<"hand", h, 0>> : h \in {g \in Handlers : Hand[g] = l}}
             slots == {<<"slot", 0, i>> : i \in {j \in 1..Count : Queue[j] = l}}
             clients == UNION {{<<"client", h, i>> :
                           i \in {j \in DOMAIN delivered[h] : delivered[h][j] = l}}
                               : h \in Handlers}
             nobody == {<<"lost", 0, 0>> : x \in lost \cap {l}}
  <2>1. p \in hands <=> \E h \in Handlers : p = <<"hand", h, 0>> /\ Hand[h] = l
    OBVIOUS
  <2>2. p \in slots
          <=> \E i \in 1..Len(Queue) : p = <<"slot", 0, i>> /\ Queue[i] = l
    BY <1>1
  <2>3. p \in clients
          <=> \E h \in Handlers : \E i \in 1..Len(delivered[h]) :
                 p = <<"client", h, i>> /\ delivered[h][i] = l
    BY <1>2
  <2>4. p \in nobody <=> p = <<"lost", 0, 0>> /\ l \in lost
    OBVIOUS
  <2>5. Places(l) = hands \cup slots \cup clients \cup nobody
    BY DEF Places
  <2> HIDE DEF hands, slots, clients, nobody
  <2> QED
    BY <2>1, <2>2, <2>3, <2>4, <2>5
<1>4. CASE l \notin ReadSoFar
  <2>1. l \notin InHands /\ l \notin InQueue /\ l \notin Given /\ l \notin lost
    BY <1>4 DEF Once
  <2>2. Places(l) = {}
    BY <1>3, <2>1 DEF InHands, InQueue, Given
  <2> QED
    BY <1>4, <2>2, FS_EmptySet DEF ReadSoFar
<1>5. CASE l \in ReadSoFar
  <2>1. ASSUME NEW p \in Places(l), NEW q \in Places(l) PROVE p = q
    <3>1. CASE l \in InHands
      <4>1. l \notin InQueue /\ l \notin Given /\ l \notin lost
        BY <3>1 DEF Once
      <4>2. /\ \E h \in Handlers : p = <<"hand", h, 0>> /\ Hand[h] = l
            /\ \E h \in Handlers : q = <<"hand", h, 0>> /\ Hand[h] = l
        BY <1>3, <4>1 DEF InQueue, Given
      <4> QED
        BY <4>2, NoLineIsNoLine DEF Once
    <3>2. CASE l \in InQueue
      <4>1. l \notin InHands /\ l \notin Given /\ l \notin lost
        BY <3>2 DEF Once
      <4>2. /\ \E i \in 1..Len(Queue) : p = <<"slot", 0, i>> /\ Queue[i] = l
            /\ \E i \in 1..Len(Queue) : q = <<"slot", 0, i>> /\ Queue[i] = l
        BY <1>3, <4>1 DEF InHands, Given
      <4> QED
        BY <4>2 DEF Once
    <3>3. CASE l \in Given
      <4>1. l \notin InHands /\ l \notin InQueue /\ l \notin lost
        BY <3>3 DEF Once
      <4>2. /\ \E h \in Handlers : \E i \in 1..Len(delivered[h]) :
                  p = <<"client", h, i>> /\ delivered[h][i] = l
            /\ \E h \in Handlers : \E i \in 1..Len(delivered[h]) :
                  q = <<"client", h, i>> /\ delivered[h][i] = l
        BY <1>3, <4>1 DEF InHands, InQueue
      <4> QED
        BY <4>2 DEF Once
    <3>4. CASE l \in lost
      <4>1. l \notin InHands /\ l \notin InQueue /\ l \notin Given
        BY <3>4 DEF Once
      <4> QED
        BY <1>3, <4>1 DEF InHands, InQueue, Given
    <3> QED
      BY <1>5, <3>1, <3>2, <3>3, <3>4 DEF Once
  <2>2. PICK p : p \in Places(l)
    <3>1. CASE l \in InHands
      <4>1. PICK h \in Handlers : Hand[h] = l
        BY <3>1 DEF InHands
      <4> QED
        BY <1>3, <4>1
    <3>2. CASE l \in InQueue
      <4>1. PICK i \in 1..Len(Queue) : Queue[i] = l
        BY <3>2 DEF InQueue
      <4> QED
        BY <1>3, <4>1
    <3>3. CASE l \in Given
      <4>1. PICK h \in Handlers :
                \E i \in 1..Len(delivered[h]) : delivered[h][i] = l
        BY <3>3 DEF Given
      <4>2. PICK i \in 1..Len(delivered[h]) : delivered[h][i] = l
        BY <4>1
      <4> QED
        BY <1>3, <4>2
    <3>4. CASE l \in lost
      BY <1>3, <3>4
    <3> QED
      BY <1>5, <3>1, <3>2, <3>3, <3>4 DEF Once
  <2>3. Places(l) = {p}
    BY <2>1, <2>2
  <2> QED
    BY <1>5, <2>3, FS_Singleton DEF ReadSoFar
<1> QED
  BY <1>4, <1>5

-----------------------------------------------------------------------------
(* The lines of one producer stay in order. *)

Before(k, l) == k[1] = l[1] => k[2] < l[2]

(* A producer's hand holds the newest line it read; of any one producer, a   *)
(* consumer was given older lines than the one it holds, which is older than *)
(* those in the queue.                                                       *)
Order ==
    /\ \A h \in Filling : Hand[h] = <<h, nread[h]>>
    /\ \A i, j \in 1..Len(Queue) : i < j => Before(Queue[i], Queue[j])
    /\ \A h \in Handlers \ Filling : Hand[h] # NoLine =>
         /\ \A j \in 1..Len(Queue) : Before(Hand[h], Queue[j])
         /\ \A i \in 1..Len(delivered[h]) : Before(delivered[h][i], Hand[h])
    /\ \A h \in Handlers : \A i \in 1..Len(delivered[h]) :
         \A j \in 1..Len(Queue) : Before(delivered[h][i], Queue[j])
    /\ \A h \in Handlers : \A i, j \in 1..Len(delivered[h]) :
         i < j => Before(delivered[h][i], delivered[h][j])

(* A line that was read is the newest of its producer.                       *)
LEMMA IsReadOrder ==
    ASSUME LineTypes, Order, NEW h \in Handlers, IsRead(h)
    PROVE  Order'
<1>1. /\ Hand'[h] = <<h, nread'[h]>>
      /\ \A g \in Handlers \ {h} : Hand'[g] = Hand[g] /\ nread'[g] = nread[g]
  BY DEF IsRead, LineTypes
<1>2. \A g \in Filling' : Hand'[g] = <<g, nread'[g]>>
  BY <1>1 DEF IsRead, Order, Filling
<1> QED
  BY <1>1, <1>2 DEF IsRead, Order, Before

(* The line of a producer's hand is newer than its lines anywhere else.      *)
LEMMA NewestInHand ==
    ASSUME LineTypes, Once, Order, NEW h \in Filling, NEW k \in Line,
           Hand[h] # NoLine, k \in ReadSoFar, k # Hand[h]
    PROVE  Before(k, Hand[h])
<1>1. Hand[h] = <<h, nread[h]>> /\ h \in Handlers
  BY DEF Order, Filling
<1>2. PICK p \in Producers, n \in 1..MaxLines : k = <<p, n>>
  BY DEF Line
<1>3. p = h => n <= nread[h] /\ n # nread[h]
  BY <1>1, <1>2 DEF ReadSoFar
<1>4. nread[h] \in Nat
  BY <1>1, SemBufferAssumption DEF LineTypes
<1> QED
  BY <1>1, <1>2, <1>3, <1>4 DEF Before

(* So it may enter the queue behind them.                                    *)
LEMMA EntersOrder ==
    ASSUME LineTypes, Once, Order, NEW h \in Handlers, Enters(h)
    PROVE  Order'
<1> DEFINE l == Hand[h]
           n == Len(Queue)
<1>1. l \in Line /\ l \in InHands /\ NoLine \notin Line
  BY NoLineIsNoLine DEF Enters, LineTypes, InHands
<1>2. /\ n \in Nat /\ Len(Queue') = n + 1
      /\ \A i \in 1..n : Queue'[i] = Queue[i] /\ Queue[i] \in Line
      /\ Queue'[n + 1] = l
  BY <1>1, AppendProperties, LenProperties, ElementOfSeq DEF Enters, LineTypes
<1>3. /\ Hand'[h] = NoLine /\ UNCHANGED <<nread, delivered>>
      /\ \A g \in Handlers \ {h} : Hand'[g] = Hand[g]
      /\ Filling' = Filling \ {h} /\ h \in Filling
  BY DEF Enters, LineTypes
<1>4. \A k \in InQueue \cup Given : Before(k, l)
  <2>1. ASSUME NEW k \in InQueue \cup Given
        PROVE  k \in Line /\ k \in ReadSoFar /\ k # l
    BY <1>1 DEF Once, ReadSoFar, InQueue, Given
  <2> QED
    BY <1>3, <2>1, NewestInHand DEF Enters
<1>5. \A i \in 1..n : Before(Queue[i], l)
  BY <1>2, <1>4 DEF InQueue
<1>6. \A g \in Handlers : \A i \in 1..Len(delivered[g]) : Before(delivered[g][i], l)
  BY <1>4, ElementOfSeq DEF Given, LineTypes
<1>7. ASSUME NEW g \in Handlers \ Filling, Hand[g] # NoLine
      PROVE  Before(Hand[g], l)
  <2>1. Hand[g] \in Line /\ Hand[g] \in ReadSoFar /\ Hand[g] # l
    BY <1>1, <1>3, <1>7 DEF LineTypes, Once, InHands
  <2> QED
    BY <1>3, <2>1, NewestInHand DEF Enters
<1>8. \A k \in 1..(n + 1) : k \in 1..n \/ k = n + 1
  BY <1>2
<1>9. \A i, j \in 1..(n + 1) : i < j => i \in 1..n
  BY <1>2
<1>10. \A g \in Filling' : Hand'[g] = <<g, nread'[g]>>
  BY <1>3 DEF Order, Filling
<1>11. \A i, j \in 1..Len(Queue') : i < j => Before(Queue'[i], Queue'[j])
  BY <1>2, <1>5, <1>8, <1>9 DEF Order
<1>12. \A g \in Handlers \ Filling' : Hand'[g] # NoLine =>
         /\ \A j \in 1..Len(Queue') : Before(Hand'[g], Queue'[j])
         /\ \A i \in 1..Len(delivered'[g]) : Before(delivered'[g][i], Hand'[g])
  BY <1>2, <1>3, <1>7, <1>8 DEF Order
<1>13. \A g \in Handlers : \A i \in 1..Len(delivered'[g]) :
         \A j \in 1..Len(Queue') : Before(delivered'[g][i], Queue'[j])
  BY <1>2, <1>3, <1>6, <1>8 DEF Order
<1> QED
  BY <1>3, <1>10, <1>11, <1>12, <1>13 DEF Order, Before

(* A consumer takes the oldest, which is newer than what it was given.       *)
LEMMA IsTakenOrder ==
    ASSUME LineTypes, Order, NEW h \in Handlers, IsTaken(h)
    PROVE  Order'
<1> DEFINE l == Head(Queue)
           n == Len(Queue)
<1>1. /\ n \in Nat /\ n >= 1 /\ Len(Queue') = n - 1
      /\ \A i \in 1..(n - 1) : Queue'[i] = Queue[i + 1]
      /\ Queue[1] = l
  BY HeadTailProperties, LenProperties, EmptySeq DEF IsTaken, LineTypes
<1>2. /\ Hand'[h] = l /\ UNCHANGED <<nread, delivered>>
      /\ \A g \in Handlers \ {h} : Hand'[g] = Hand[g]
      /\ Filling' = Filling /\ h \notin Filling
  BY DEF IsTaken, LineTypes
<1>3. /\ \A i \in 1..(n - 1) : i + 1 \in 1..n /\ 1 < i + 1
      /\ \A i, j \in 1..(n - 1) : i < j => i + 1 < j + 1
      /\ 1 \in 1..n
  BY <1>1
<1>4. \A g \in Filling' : Hand'[g] = <<g, nread'[g]>>
  BY <1>2 DEF Order, Filling
<1>5. \A i, j \in 1..Len(Queue') : i < j => Before(Queue'[i], Queue'[j])
  BY <1>1, <1>3 DEF Order
<1>6. \A g \in Handlers \ Filling' : Hand'[g] # NoLine =>
         /\ \A j \in 1..Len(Queue') : Before(Hand'[g], Queue'[j])
         /\ \A i \in 1..Len(delivered'[g]) : Before(delivered'[g][i], Hand'[g])
  <2>1. /\ \A j \in 1..(n - 1) : Before(l, Queue'[j])
        /\ \A i \in 1..Len(delivered[h]) : Before(delivered[h][i], l)
    BY <1>1, <1>3 DEF Order
  <2>2. ASSUME NEW g \in Handlers \ Filling, g # h, Hand[g] # NoLine
        PROVE  /\ \A j \in 1..(n - 1) : Before(Hand[g], Queue'[j])
               /\ \A i \in 1..Len(delivered[g]) : Before(delivered[g][i], Hand[g])
    BY <1>1, <1>3, <2>2 DEF Order
  <2> QED
    BY <1>1, <1>2, <2>1, <2>2
<1>7. \A g \in Handlers : \A i \in 1..Len(delivered'[g]) :
         \A j \in 1..Len(Queue') : Before(delivered'[g][i], Queue'[j])
  BY <1>1, <1>2, <1>3 DEF Order
<1> QED
  BY <1>2, <1>4, <1>5, <1>6, <1>7 DEF Order, Before

(* What a consumer writes is newer than what it wrote before.                *)
LEMMA LeavesOrder ==
    ASSUME LineTypes, Order, NEW h \in Handlers, Leaves(h)
    PROVE  Order'
<1> DEFINE l == Hand[h]
           n == Len(delivered[h])
<1>1. /\ l \in Line /\ Hand'[h] = NoLine /\ UNCHANGED <<nread, Queue>>
      /\ \A g \in Handlers \ {h} : Hand'[g] = Hand[g]
      /\ Filling' = Filling /\ h \notin Filling
  BY DEF Leaves, LineTypes
<1>2. \A g \in Filling' : Hand'[g] = <<g, nread'[g]>>
  BY <1>1 DEF Order, Filling
<1>3. CASE UNCHANGED delivered
  <2>1. \A i, j \in 1..Len(Queue') : i < j => Before(Queue'[i], Queue'[j])
    BY <1>1 DEF Order
  <2>2. ASSUME NEW g \in Handlers \ Filling', Hand'[g] # NoLine
        PROVE  /\ \A j \in 1..Len(Queue') : Before(Hand'[g], Queue'[j])
               /\ \A i \in 1..Len(delivered'[g]) : Before(delivered'[g][i], Hand'[g])
    <3>1. g \in Handlers \ Filling /\ g # h /\ Hand'[g] = Hand[g]
      BY <1>1, <2>2
    <3> QED
      BY <1>1, <1>3, <2>2, <3>1 DEF Order
  <2>3. \A g \in Handlers : \A i \in 1..Len(delivered'[g]) :
           \A j \in 1..Len(Queue') : Before(delivered'[g][i], Queue'[j])
    BY <1>1, <1>3 DEF Order
  <2>4. \A g \in Handlers : \A i, j \in 1..Len(delivered'[g]) :
           i < j => Before(delivered'[g][i], delivered'[g][j])
    BY <1>3 DEF Order
  <2> QED
    BY <1>2, <2>1, <2>2, <2>3, <2>4 DEF Order, Before
<1>4. CASE delivered' = [delivered EXCEPT ![h] = Append(@, l)]
  <2>1. /\ n \in Nat /\ Len(delivered'[h]) = n + 1
        /\ \A i \in 1..n : delivered'[h][i] = delivered[h][i]
        /\ delivered'[h][n + 1] = l
        /\ \A g \in Handlers \ {h} : delivered'[g] = delivered[g]
    BY <1>1, <1>4, AppendProperties, LenProperties DEF LineTypes
  <2>2. /\ \A k \in 1..(n + 1) : k \in 1..n \/ k = n + 1
        /\ \A i, j \in 1..(n + 1) : i < j => i \in 1..n
    BY <2>1
  <2>3. /\ \A j \in 1..Len(Queue) : Before(l, Queue[j])
        /\ \A i \in 1..n : Before(delivered[h][i], l)
    BY <1>1 DEF Order, Leaves
  <2>4. \A g \in Handlers \ Filling' : Hand'[g] # NoLine =>
           /\ \A j \in 1..Len(Queue') : Before(Hand'[g], Queue'[j])
           /\ \A i \in 1..Len(delivered'[g]) : Before(delivered'[g][i], Hand'[g])
    BY <1>1, <2>1 DEF Order
  <2>5. ASSUME NEW g \in Handlers
        PROVE  /\ \A i \in 1..Len(delivered'[g]) :
                    \A j \in 1..Len(Queue) : Before(delivered'[g][i], Queue[j])
               /\ \A i, j \in 1..Len(delivered'[g]) :
                    i < j => Before(delivered'[g][i], delivered'[g][j])
    <3>1. CASE g # h
      BY <2>1, <3>1 DEF Order
    <3>2. CASE g = h
      <4>1. ASSUME NEW i \in 1..(n + 1), NEW j \in 1..Len(Queue)
            PROVE  Before(delivered'[h][i], Queue[j])
        BY <2>1, <2>2, <2>3 DEF Order
      <4>2. ASSUME NEW i \in 1..(n + 1), NEW j \in 1..(n + 1), i < j
            PROVE  Before(delivered'[h][i], delivered'[h][j])
        <5>1. CASE j = n + 1
          BY <2>1, <2>2, <2>3, <4>2, <5>1
        <5>2. CASE j \in 1..n
          <6>1. Before(delivered[h][i], delivered[h][j]) /\ i \in 1..n
            BY <2>2, <4>2, <5>2 DEF Order
          <6> QED
            BY <2>1, <5>2, <6>1
        <5> QED
          BY <2>2, <5>1, <5>2
      <4> QED
        BY <2>1, <3>2, <4>1, <4>2
    <3> QED
      BY <3>1, <3>2
  <2> QED
    BY <1>1, <1>2, <2>4, <2>5 DEF Order, Before
<1> QED
  BY <1>3, <1>4 DEF Leaves

(* Each of the five moves keeps the lines of a producer in order. *)
LEMMA MovesOrder == IInv /\ Once /\ Order /\ Moves => Order'
<1> SUFFICES ASSUME LineTypes, Once, Order, Moves PROVE Order'
  BY LineTyped
<1>1. CASE Stays
  BY <1>1 DEF Stays, Order, Before
<1> QED
  BY <1>1, IsReadOrder, EntersOrder, IsTakenOrder, LeavesOrder DEF Moves

(* There is nothing to be in order at the start. *)
LEMMA InitOrder == Init => Order
<1> SUFFICES ASSUME Init PROVE Order
  OBVIOUS
<1>1. Queue = <<>> /\ Hand = [h \in Handlers |-> NoLine] /\ Len(<<>>) = 0
  BY InitFIFO, EmptySeq DEF FIFO!Init
<1>2. \A h \in Handlers : Hand[h] = NoLine /\ delivered[h] = <<>>
  BY <1>1 DEF Init
<1>3. Filling = {}
  BY DEF Filling, Init
<1> QED
  BY <1>1, <1>2, <1>3 DEF Order

(* ProducerOrder from the invariant. *)
LEMMA OrderKept == IInv /\ Order => ProducerOrder
<1> SUFFICES ASSUME LineTypes, Order PROVE ProducerOrder
  BY LineTyped
<1>1. \A h \in Handlers : DOMAIN delivered[h] = 1..Len(delivered[h])
  BY LenProperties DEF LineTypes
<1> QED
  BY <1>1 DEF Order, ProducerOrder, Before

-----------------------------------------------------------------------------
LinesInv == IInv /\ Once /\ Order

(* The invariant about lines holds in pr_9. *)
LEMMA LinesInvariance == Spec => []LinesInv
<1>1. Init => LinesInv
  BY InitIInv, InitOnce, InitOrder DEF LinesInv
<1>2. LinesInv /\ [Next]_vars => LinesInv'
  BY NextIInv, NextMoves, MovesOnce, MovesOrder DEF LinesInv
<1> QED
  BY <1>1, <1>2, PTL DEF Spec

(* Every line that was read is in one place: no line is lost or doubled      *)
(* between its client and the client it is written to, whatever child is     *)
(* killed or client leaves.                                                  *)
THEOREM Accounted == Spec => []LinesAccounted
<1>1. LinesInv => LinesAccounted
  BY PlacesCounted DEF LinesInv
<1> QED
  BY <1>1, LinesInvariance, PTL

(* A client is sent the lines of any one producer in the order in which they *)
(* were read, though consumers overtake each other on the way.               *)
THEOREM Ordered == Spec => []ProducerOrder
<1>1. LinesInv => ProducerOrder
  BY OrderKept DEF LinesInv
<1> QED
  BY <1>1, LinesInvariance, PTL

-----------------------------------------------------------------------------
(* The threads of pr_8 keep these invariants: what was proved of the buffer  *)
(* between processes holds between threads, where a signal ends all of them  *)
(* at once.                                                                  *)

(* The steps of pr_8 that are not steps of pr_9. *)
OwnStep(h) ==
    StartThread(h) \/ AnswerOK(h) \/ SendLine(h) \/ LeaveConsumer(h) \/ Sigpipe(h)

(* Steps outside producer and consumer keep the invariant and the queue.     *)
LEMMA ThreadQuiet ==
    ASSUME IInv, NEW h \in Handlers, OwnStep(h)
    PROVE  IInv' /\ Count' = Count /\ First' = First
<1> USE DEF IInv, OwnStep
<1>1. UNCHANGED <<shm, sems, line, nread>>
  BY DEF StartThread, AnswerOK, SendLine, LeaveConsumer, Sigpipe, net
<1>2. \/ UNCHANGED pc
      \/ /\ pc[h] \in Uncounted
         /\ \E label \in {"role", "readLine", "waitFull", "exited"} : Goto(h, label)
  BY DEF StartThread, AnswerOK, SendLine, LeaveConsumer, Sigpipe, At, Uncounted
<1>3. /\ MutexUnit' /\ SlotUnits' /\ HeadAhead' /\ SlotsHoldLines'
      /\ Count' = Count /\ First' = First
  BY <1>1, <1>2, QuietStep DEF Uncounted
<1>4. HandsHoldLines'
  BY <1>1, <1>2 DEF HandsHoldLines, Types, PCType, Goto, Carrying, shm
<1>5. Types'
  <2>1. PCType'
    BY <1>2 DEF Types, PCType, Goto, Labels
  <2>2. conn' \in [Handlers -> {"open", "closed", "reset"}]
    BY DEF StartThread, AnswerOK, SendLine, LeaveConsumer, Sigpipe,
           StillUnnoticed, Types, net
  <2>3. dead' \subseteq Handlers
    BY DEF StartThread, AnswerOK, SendLine, LeaveConsumer, Sigpipe, Types, net
  <2> QED
    BY <1>1, <2>1, <2>2, <2>3 DEF Types, shm, sems
<1>6. Received'
  <2>1. CASE SendLine(h) \/ LeaveConsumer(h)
    <3>1. line[h] \in Line
      BY <2>1 DEF SendLine, LeaveConsumer, At, HandsHoldLines, Carrying
    <3>2. delivered' \in [Handlers -> Seq(Line)]
      <4>1. Append(delivered[h], line[h]) \in Seq(Line)
        BY <3>1 DEF Received
      <4> QED
        BY <2>1, <4>1 DEF SendLine, LeaveConsumer, Received
    <3>3. lost' \subseteq Line
      BY <2>1, <3>1 DEF SendLine, LeaveConsumer, Received
    <3> QED
      BY <3>2, <3>3 DEF Received
  <2>2. CASE StartThread(h) \/ AnswerOK(h) \/ Sigpipe(h)
    BY <2>2 DEF StartThread, AnswerOK, Sigpipe, net, Received
  <2> QED
    BY <2>1, <2>2
<1> QED
  BY <1>3, <1>4, <1>5, <1>6

(* Every other step of a thread is one of a child of pr_9.                   *)
LEMMA StepOfEither ==
    ASSUME NEW h \in Handlers, client_handler(h) \/ ClientClose(h)
    PROVE  OwnStep(h) \/ Next
BY DEF client_handler, OwnStep, HandleClient, Next

(* Every step of pr_8 keeps the invariant of the buffer. *)
LEMMA ThreadNextIInv == IInv /\ [ThreadNext]_vars => IInv'
<1> SUFFICES ASSUME IInv, [ThreadNext]_vars PROVE IInv'
  OBVIOUS
<1>1. CASE UNCHANGED vars
  BY <1>1, NextIInv
<1>2. ASSUME NEW h \in Handlers, client_handler(h) \/ ClientClose(h)
      PROVE  IInv'
  BY <1>2, StepOfEither, ThreadQuiet, NextIInv
<1> QED
  BY <1>1, <1>2 DEF ThreadNext

(* The invariant of the buffer holds in pr_8. *)
LEMMA ThreadInvariance == ThreadSpec => []IInv
BY InitIInv, ThreadNextIInv, PTL DEF ThreadSpec

-----------------------------------------------------------------------------
(* producer and consumer of pr_8 never overlap between sem_wait(&mutex) and  *)
(* sem_post(&mutex), whatever the number of threads.                         *)
THEOREM ThreadsExclusive == ThreadSpec => []MutualExclusion
<1>1. IInv => MutualExclusion
  BY Alone DEF IInv, MutualExclusion
<1> QED
  BY <1>1, ThreadInvariance, PTL

(* The semaphores and the threads between a wait and its post account for    *)
(* every slot of pr_8, and in stays as far in front of out as they say,      *)
(* whatever thread left with a line or stopped at a SIGPIPE.                 *)
THEOREM ThreadsUnits == ThreadSpec => []SlotAccounting
BY SlotsAddUp, ThreadInvariance, PTL

(* IndexesAgree of pr_8: its threads move head and tail as the semaphores    *)
(* say, and those that stop with all others leave them so.                   *)
THEOREM ThreadsIndexes == ThreadSpec => []IndexesAgree
BY HeadFollows, ThreadInvariance, PTL

(* A line leaves the hands of a thread, or none does, outside the buffer.    *)
LEMMA ThreadHands ==
    ASSUME IInv, NEW h \in Handlers, OwnStep(h)
    PROVE  FIFO!PutDown(h) \/ UNCHANGED FIFO!vars
<1>1. Queue' = Queue
  <2>1. data' = data
    BY DEF OwnStep, StartThread, AnswerOK, SendLine, LeaveConsumer, Sigpipe, shm
  <2> QED
    BY <2>1, ThreadQuiet, QueueUnchanged
<1>2. UNCHANGED line
  BY DEF OwnStep, StartThread, AnswerOK, SendLine, LeaveConsumer, Sigpipe
<1>3. CASE SendLine(h) \/ LeaveConsumer(h)
  <2>1. Hand' = [Hand EXCEPT ![h] = NoLine]
    <3>1. \E label \in {"waitFull", "exited"} : Goto(h, label)
      BY <1>3 DEF SendLine, LeaveConsumer
    <3> QED
      BY <1>2, <3>1, HandStep DEF Carrying
  <2>2. Hand[h] # NoLine
    BY <1>3, HandValue, NoLineIsNoLine
       DEF SendLine, LeaveConsumer, At, IInv, HandsHoldLines, Carrying
  <2> QED
    BY <1>1, <2>1, <2>2 DEF FIFO!PutDown
<1>4. CASE StartThread(h) \/ AnswerOK(h) \/ Sigpipe(h)
  <2>1. Hand' = Hand
    <3>1. CASE Sigpipe(h)
      BY <1>2, <3>1 DEF Sigpipe, Hand
    <3>2. CASE StartThread(h) \/ AnswerOK(h)
      BY <1>2, <3>2, HandSame DEF StartThread, AnswerOK, At, Carrying
    <3> QED
      BY <1>4, <3>1, <3>2
  <2> QED
    BY <1>1, <2>1 DEF FIFO!vars
<1> QED
  BY <1>3, <1>4 DEF OwnStep

(* Every step of pr_8 is a Put, a Take or a stutter of the abstract queue. *)
LEMMA ThreadNextFIFO == IInv /\ [ThreadNext]_vars => [FIFO!Next]_(FIFO!vars)
<1> SUFFICES ASSUME IInv, [ThreadNext]_vars PROVE [FIFO!Next]_(FIFO!vars)
  OBVIOUS
<1>1. CASE UNCHANGED vars
  BY <1>1, NextFIFO
<1>2. ASSUME NEW h \in Handlers, client_handler(h) \/ ClientClose(h)
      PROVE  [FIFO!Next]_(FIFO!vars)
  <2>1. CASE OwnStep(h)
    BY <2>1, ThreadHands DEF FIFO!Next
  <2>2. CASE Next
    BY <2>2, NextFIFO
  <2> QED
    BY <1>2, <2>1, <2>2, StepOfEither
<1> QED
  BY <1>1, <1>2 DEF ThreadNext

(* The threads of pr_8 implement the same bounded FIFO queue as the children *)
(* of pr_9, for any number of clients, lines and slots.                      *)
THEOREM ThreadsRefine == ThreadSpec => ImplementsFIFO
BY InitFIFO, ThreadNextFIFO, ThreadInvariance, PTL
   DEF ThreadSpec, ImplementsFIFO, FIFO!Spec

-----------------------------------------------------------------------------
(* A step of pr_8 alone writes the line of a consumer, or moves none.        *)
LEMMA ThreadMoves ==
    ASSUME IInv, NEW h \in Handlers, OwnStep(h)
    PROVE  Stays \/ Leaves(h)
<1>1. Queue' = Queue
  <2>1. data' = data
    BY DEF OwnStep, StartThread, AnswerOK, SendLine, LeaveConsumer, Sigpipe, shm
  <2> QED
    BY <2>1, ThreadQuiet, QueueUnchanged
<1>2. UNCHANGED <<line, nread>>
  BY DEF OwnStep, StartThread, AnswerOK, SendLine, LeaveConsumer, Sigpipe, net
<1>3. CASE SendLine(h) \/ LeaveConsumer(h)
  <2>1. pc[h] = "writeLine" /\ \E label \in {"waitFull", "exited"} : Goto(h, label)
    BY <1>3 DEF SendLine, LeaveConsumer, At
  <2>2. Hand' = [Hand EXCEPT ![h] = NoLine]
    BY <1>2, <2>1, HandStep DEF Carrying
  <2>3. h \notin Filling /\ Filling' = Filling
    BY <2>1, FillingSame DEF Filling
  <2>4. Hand[h] = line[h] /\ Hand[h] # NoLine
    BY <2>1, HandValue, NoLineIsNoLine DEF IInv, HandsHoldLines, Carrying
  <2>5. \/ /\ delivered' = [delivered EXCEPT ![h] = Append(@, Hand[h])]
           /\ UNCHANGED lost
        \/ /\ lost' = lost \cup {Hand[h]}
           /\ UNCHANGED delivered
    BY <1>3, <2>4 DEF SendLine, LeaveConsumer
  <2> QED
    BY <1>1, <1>2, <2>2, <2>3, <2>4, <2>5 DEF Leaves
<1>4. CASE StartThread(h) \/ AnswerOK(h) \/ Sigpipe(h)
  <2>1. Hand' = Hand /\ Filling' = Filling
    <3>1. CASE Sigpipe(h)
      BY <1>2, <3>1 DEF Sigpipe, Hand, Filling
    <3>2. CASE StartThread(h) \/ AnswerOK(h)
      BY <1>2, <3>2, HandSame, FillingSame DEF StartThread, AnswerOK, At, Carrying
    <3> QED
      BY <1>4, <3>1, <3>2
  <2>2. UNCHANGED <<delivered, lost>>
    BY <1>4 DEF StartThread, AnswerOK, Sigpipe, net
  <2> QED
    BY <1>1, <1>2, <2>1, <2>2 DEF Stays
<1> QED
  BY <1>3, <1>4 DEF OwnStep

(* Every step of pr_8 moves lines in one of the five ways. *)
LEMMA ThreadNextMoves == IInv /\ [ThreadNext]_vars => Moves
<1> SUFFICES ASSUME IInv, [ThreadNext]_vars PROVE Moves
  OBVIOUS
<1>1. CASE UNCHANGED vars
  BY <1>1, NextMoves
<1>2. ASSUME NEW h \in Handlers, client_handler(h) \/ ClientClose(h)
      PROVE  Moves
  BY <1>2, StepOfEither, ThreadMoves, NextMoves DEF Moves
<1> QED
  BY <1>1, <1>2 DEF ThreadNext

(* The invariant about lines holds in pr_8. *)
LEMMA ThreadLines == ThreadSpec => []LinesInv
<1>1. Init => LinesInv
  BY InitIInv, InitOnce, InitOrder DEF LinesInv
<1>2. LinesInv /\ [ThreadNext]_vars => LinesInv'
  BY ThreadNextIInv, ThreadNextMoves, MovesOnce, MovesOrder DEF LinesInv
<1> QED
  BY <1>1, <1>2, PTL DEF ThreadSpec

(* Every line the threads of pr_8 have read is in one place, also when a     *)
(* thread leaves at an empty line or a SIGPIPE ends the process.             *)
THEOREM ThreadsAccounted == ThreadSpec => []LinesAccounted
<1>1. LinesInv => LinesAccounted
  BY PlacesCounted DEF LinesInv
<1> QED
  BY <1>1, ThreadLines, PTL

(* And a client is sent the lines of any one producer in their order.        *)
THEOREM ThreadsOrdered == ThreadSpec => []ProducerOrder
<1>1. LinesInv => ProducerOrder
  BY OrderKept DEF LinesInv
<1> QED
  BY <1>1, ThreadLines, PTL
=============================================================================
