----------------------------- MODULE SemBuffer -----------------------------
(* The producer-consumer server of pr_9/main.cpp: one child process per      *)
(* client, a circular buffer of lines in shared memory, and three named      *)
(* semaphores.  Every semaphore operation, the copy of a line and the update *)
(* of an index are steps of their own, so that children interleave as their  *)
(* processes do.                                                             *)
(*                                                                           *)
(* A line is abstracted to <<producer, number>>; one read of the handler     *)
(* returns one line (LineProtocol models how the byte stream is cut).        *)
EXTENDS Naturals, Sequences, FiniteSets

CONSTANTS
    Producers,    \* clients that introduce themselves as "producer"
    Consumers,    \* clients that introduce themselves as "consumer"
    BUFFER_SIZE,  \* slots of the buffer
    MaxLines,     \* bound: lines in each producer's input file
    Leavers,      \* clients that may close their connection at any time
    Killable,     \* children that may be killed by a signal at any time
    NoLine        \* a line buffer nothing was stored in yet

ASSUME SemBufferAssumption ==
    /\ BUFFER_SIZE \in Nat \ {0}
    /\ MaxLines \in Nat
    /\ IsFiniteSet(Producers) /\ IsFiniteSet(Consumers)
    /\ Producers \cap Consumers = {}
    /\ NoLine \notin Producers \X (1..MaxLines)

Handlers == Producers \cup Consumers
Line == Producers \X (1..MaxLines)
Slot == 0..(BUFFER_SIZE - 1)

VARIABLES
    data, head, tail,      \* struct SharedBuffer
    mutex, empty, full,    \* the values of the three semaphores
    pc,                    \* where each child is
    line,                  \* line[h]: the local line buffer of child h
    conn,                  \* conn[h]: the client's end of the connection
    dead,                  \* children killed by SIGPIPE or another signal
    nread,                 \* nread[h]: lines read from client h so far
    delivered,             \* delivered[h]: lines written to client h, in order
    lost                   \* lines written to a client that was gone

shm == <<data, head, tail>>
sems == <<mutex, empty, full>>
net == <<conn, dead, nread, delivered, lost>>
vars == <<shm, sems, pc, line, net>>

Init ==
    /\ data = [s \in Slot |-> NoLine]
    /\ head = 0 /\ tail = 0
    /\ mutex = 1 /\ empty = BUFFER_SIZE /\ full = 0
    /\ pc = [h \in Handlers |-> "absent"]
    /\ line = [h \in Handlers |-> NoLine]
    /\ conn = [h \in Handlers |-> "open"]
    /\ dead = {}
    /\ nread = [h \in Handlers |-> 0]
    /\ delivered = [h \in Handlers |-> <<>>]
    /\ lost = {}

-----------------------------------------------------------------------------
(* Control flow and semaphores. *)

At(h, label) == h \notin dead /\ pc[h] = label
Goto(h, label) == pc' = [pc EXCEPT ![h] = label]

(* sem_wait blocks while the semaphore is 0. *)
sem_wait(sem) == sem > 0 /\ sem' = sem - 1
sem_post(sem) == sem' = sem + 1

(* One write to the client.  A client that is gone still lets a write        *)
(* succeed until the peer's RST has arrived; after that the write raises     *)
(* SIGPIPE, which nobody handles: the child is killed where it stands.       *)
Write(h, next) ==
    \/ /\ conn[h] = "open"
       /\ Goto(h, next)
       /\ UNCHANGED <<conn, dead>>
    \/ /\ conn[h] = "closed"
       /\ \E c \in {"closed", "reset"} : conn' = [conn EXCEPT ![h] = c]
       /\ Goto(h, next)
       /\ UNCHANGED dead
    \/ /\ conn[h] = "reset"
       /\ dead' = dead \cup {h}
       /\ UNCHANGED <<pc, conn>>

-----------------------------------------------------------------------------
(* main: accept the client and fork its child. *)
Accept(h) ==
    /\ At(h, "absent")
    /\ Goto(h, "prompt")
    /\ UNCHANGED <<shm, sems, line, net>>

(* handle_client: write "Task?". *)
Prompt(h) ==
    /\ At(h, "prompt")
    /\ Write(h, "role")
    /\ UNCHANGED <<shm, sems, line, nread, delivered, lost>>

(* Where a child goes once it knows the role of its client. *)
RoleStart(h) == IF h \in Producers THEN "readLine" ELSE "waitFull"

(* Read the role.  When the client left before it sent one, role[16] keeps   *)
(* what the stack held: any of the three branches may be taken.              *)
ReadRole(h) ==
    /\ At(h, "role")
    /\ \/ conn[h] = "open" /\ Goto(h, RoleStart(h))
       \/ /\ conn[h] # "open"
          /\ \E label \in {"readLine", "waitFull", "exited"} : Goto(h, label)
    /\ UNCHANGED <<shm, sems, line, net>>

(* The producer loop: the next line of the client, or the end of the stream. *)
ReadLine(h) ==
    /\ At(h, "readLine")
    /\ \/ /\ conn[h] = "open" /\ h \in Producers /\ nread[h] < MaxLines
          /\ nread' = [nread EXCEPT ![h] = @ + 1]
          /\ line' = [line EXCEPT ![h] = <<h, nread[h] + 1>>]
          /\ Goto(h, "waitEmpty")
       \/ /\ conn[h] # "open"
          /\ Goto(h, "exited")
          /\ UNCHANGED <<nread, line>>
    /\ UNCHANGED <<shm, sems, conn, dead, delivered, lost>>

WriteOK(h) ==
    /\ At(h, "writeOK")
    /\ Write(h, "readLine")
    /\ UNCHANGED <<shm, sems, line, nread, delivered, lost>>

-----------------------------------------------------------------------------
(* produce *)

(* Faulty variant: produce without sem_wait(empty). *)
WaitEmptySkipped(h) ==
    /\ At(h, "waitEmpty")
    /\ Goto(h, "pWaitMutex")
    /\ UNCHANGED <<shm, sems, line, net>>

WaitEmpty(h) ==
    /\ At(h, "waitEmpty")
    /\ sem_wait(empty)
    /\ Goto(h, "pWaitMutex")
    /\ UNCHANGED <<shm, mutex, full, line, net>>

(* Faulty variant: produce without sem_wait(mutex). *)
PWaitMutexSkipped(h) ==
    /\ At(h, "pWaitMutex")
    /\ Goto(h, "copyIn")
    /\ UNCHANGED <<shm, sems, line, net>>

PWaitMutex(h) ==
    /\ At(h, "pWaitMutex")
    /\ sem_wait(mutex)
    /\ Goto(h, "copyIn")
    /\ UNCHANGED <<shm, empty, full, line, net>>

CopyIn(h) ==
    /\ At(h, "copyIn")
    /\ data' = [data EXCEPT ![head] = line[h]]
    /\ Goto(h, "moveHead")
    /\ UNCHANGED <<head, tail, sems, line, net>>

(* Faulty variant: the index does not wrap around. *)
MoveHeadNoWrap(h) ==
    /\ At(h, "moveHead")
    /\ head' = head + 1
    /\ Goto(h, "pPostMutex")
    /\ UNCHANGED <<data, tail, sems, line, net>>

MoveHead(h) ==
    /\ At(h, "moveHead")
    /\ head' = (head + 1) % BUFFER_SIZE
    /\ Goto(h, "pPostMutex")
    /\ UNCHANGED <<data, tail, sems, line, net>>

PPostMutex(h) ==
    /\ At(h, "pPostMutex")
    /\ sem_post(mutex)
    /\ Goto(h, "postFull")
    /\ UNCHANGED <<shm, empty, full, line, net>>

PostFull(h) ==
    /\ At(h, "postFull")
    /\ sem_post(full)
    /\ Goto(h, "writeOK")
    /\ UNCHANGED <<shm, mutex, empty, line, net>>

-----------------------------------------------------------------------------
(* consume, and the write of the consumer loop *)

WaitFull(h) ==
    /\ At(h, "waitFull")
    /\ sem_wait(full)
    /\ Goto(h, "cWaitMutex")
    /\ UNCHANGED <<shm, mutex, empty, line, net>>

CWaitMutex(h) ==
    /\ At(h, "cWaitMutex")
    /\ sem_wait(mutex)
    /\ Goto(h, "copyOut")
    /\ UNCHANGED <<shm, empty, full, line, net>>

(* Faulty variant: the newest line is taken instead of the oldest. *)
CopyOutNewest(h) ==
    /\ At(h, "copyOut")
    /\ line' = [line EXCEPT ![h] = data[(head + BUFFER_SIZE - 1) % BUFFER_SIZE]]
    /\ Goto(h, "moveTail")
    /\ UNCHANGED <<shm, sems, net>>

CopyOut(h) ==
    /\ At(h, "copyOut")
    /\ line' = [line EXCEPT ![h] = data[tail]]
    /\ Goto(h, "moveTail")
    /\ UNCHANGED <<shm, sems, net>>

(* Faulty variant: the index stays where it is. *)
MoveTailMissing(h) ==
    /\ At(h, "moveTail")
    /\ Goto(h, "cPostMutex")
    /\ UNCHANGED <<shm, sems, line, net>>

MoveTail(h) ==
    /\ At(h, "moveTail")
    /\ tail' = (tail + 1) % BUFFER_SIZE
    /\ Goto(h, "cPostMutex")
    /\ UNCHANGED <<data, head, sems, line, net>>

(* Faulty variant: consume returns without sem_post(mutex). *)
CPostMutexMissing(h) ==
    /\ At(h, "cPostMutex")
    /\ Goto(h, "postEmpty")
    /\ UNCHANGED <<shm, sems, line, net>>

CPostMutex(h) ==
    /\ At(h, "cPostMutex")
    /\ sem_post(mutex)
    /\ Goto(h, "postEmpty")
    /\ UNCHANGED <<shm, empty, full, line, net>>

(* Faulty variant: consume posts the wrong semaphore. *)
PostEmptySwapped(h) ==
    /\ At(h, "postEmpty")
    /\ sem_post(full)
    /\ Goto(h, "writeLine")
    /\ UNCHANGED <<shm, mutex, empty, line, net>>

PostEmpty(h) ==
    /\ At(h, "postEmpty")
    /\ sem_post(empty)
    /\ Goto(h, "writeLine")
    /\ UNCHANGED <<shm, mutex, full, line, net>>

(* The result of the write is not looked at: the line is gone either way. *)
WriteLine(h) ==
    /\ At(h, "writeLine")
    /\ Write(h, "waitFull")
    /\ delivered' = IF conn[h] = "open"
                    THEN [delivered EXCEPT ![h] = Append(@, line[h])]
                    ELSE delivered
    /\ lost' = IF conn[h] = "closed" THEN lost \cup {line[h]} ELSE lost
    /\ UNCHANGED <<shm, sems, line, nread>>

-----------------------------------------------------------------------------
(* The environment: clients that leave, children that are killed. *)

(* A client closes its socket: a producer at the end of its file, and any    *)
(* Leaver at any time.  Data it had not read makes the kernel send RST.      *)
ClientClose(h) ==
    /\ conn[h] = "open"
    /\ \/ h \in Leavers
       \/ h \in Producers /\ nread[h] = MaxLines
    /\ \E c \in {"closed", "reset"} : conn' = [conn EXCEPT ![h] = c]
    /\ UNCHANGED <<shm, sems, pc, line, dead, nread, delivered, lost>>

Kill(h) ==
    /\ h \in Killable \ dead
    /\ pc[h] \notin {"absent", "exited"}
    /\ dead' = dead \cup {h}
    /\ UNCHANGED <<shm, sems, pc, line, conn, nread, delivered, lost>>

Produce(h) ==
    \/ WaitEmpty(h) \/ PWaitMutex(h) \/ CopyIn(h) \/ MoveHead(h)
    \/ PPostMutex(h) \/ PostFull(h)

Consume(h) ==
    \/ WaitFull(h) \/ CWaitMutex(h) \/ CopyOut(h) \/ MoveTail(h)
    \/ CPostMutex(h) \/ PostEmpty(h)

HandleClient(h) ==
    \/ Accept(h) \/ Prompt(h) \/ ReadRole(h)
    \/ ReadLine(h) \/ Produce(h) \/ WriteOK(h)
    \/ Consume(h) \/ WriteLine(h)

Next == \E h \in Handlers : HandleClient(h) \/ ClientClose(h) \/ Kill(h)

Spec == Init /\ [][Next]_vars

(* The scheduler runs every child that can take a step.  The semaphores owe  *)
(* nothing more: sem_post may let any of the waiting processes go.           *)
Fairness == \A h \in Handlers : WF_vars(HandleClient(h))

LiveSpec == Spec /\ Fairness

-----------------------------------------------------------------------------
(* Properties *)

(* Sets of children, by the semaphore units they hold. *)
In(labels) == {h \in Handlers : pc[h] \in labels}

PInside == {"copyIn", "moveHead", "pPostMutex"}
CInside == {"copyOut", "moveTail", "cPostMutex"}
Inside == In(PInside \cup CInside)
HoldsSpace == In({"pWaitMutex", "postFull"} \cup PInside)
HoldsItem == In({"cWaitMutex", "postEmpty"} \cup CInside)

(* The lines in the buffer: those counted by full, those a producer has put  *)
(* in without having posted full, and those a consumer was granted but has   *)
(* not copied out.                                                           *)
Count ==
    full + Cardinality(In({"pPostMutex", "postFull"}))
         + Cardinality(In({"cWaitMutex", "copyOut"}))
Oldest == tail + Cardinality(In({"moveTail"}))
Wrap(i) == IF i < BUFFER_SIZE THEN i ELSE i - BUFFER_SIZE
Queue == [i \in 1..Count |-> data[Wrap(Wrap(Oldest) + i - 1)]]

(* The line a child carries outside the buffer. *)
Carrying == {"waitEmpty", "pWaitMutex", "copyIn", "moveHead",
             "moveTail", "cPostMutex", "postEmpty", "writeLine"}
Hand == [h \in Handlers |-> IF pc[h] \in Carrying THEN line[h] ELSE NoLine]

Labels == {"absent", "prompt", "role", "readLine", "waitEmpty", "writeOK",
           "waitFull", "writeLine", "exited", "pWaitMutex", "postFull",
           "cWaitMutex", "postEmpty"} \cup PInside \cup CInside

(* Every variable stays in its range: the indexes inside the buffer, no      *)
(* semaphore above its number of units.                                      *)
TypeOK ==
    /\ data \in [Slot -> Line \cup {NoLine}]
    /\ head \in Slot /\ tail \in Slot
    /\ mutex \in 0..1 /\ empty \in 0..BUFFER_SIZE /\ full \in 0..BUFFER_SIZE
    /\ pc \in [Handlers -> Labels]
    /\ line \in [Handlers -> Line \cup {NoLine}]
    /\ conn \in [Handlers -> {"open", "closed", "reset"}]
    /\ dead \subseteq Handlers
    /\ nread \in [Handlers -> 0..MaxLines]
    /\ delivered \in [Handlers -> Seq(Line)]
    /\ lost \subseteq Line

(* Only one child at a time is between its sem_wait(mutex) and its           *)
(* sem_post(mutex), whatever kills the others: two would tear head or tail.  *)
MutualExclusion == \A g, h \in Inside : g = h

(* No unit of empty or full is ever made or lost: the two semaphores and the *)
(* children between a wait and its post account for every slot.              *)
SlotAccounting ==
    empty + full + Cardinality(HoldsSpace) + Cardinality(HoldsItem)
        = BUFFER_SIZE

(* The semaphores and the two indexes never drift apart: head stays Count    *)
(* slots in front of the oldest line, so that no producer writes over a line *)
(* nobody took and no consumer takes a slot twice.                           *)
IndexesAgree == head = Wrap(Wrap(Oldest) + Count)

(* The four steps of produce and consume that touch the buffer amount to one *)
(* bounded FIFO queue.                                                       *)
FIFO == INSTANCE BoundedFIFO WITH
            Capacity <- BUFFER_SIZE, queue <- Queue, hand <- Hand
ImplementsFIFO == FIFO!Spec

(* A line that was read from a producer is in exactly one place: a child's   *)
(* hands, a slot of the buffer, a client, or written to a client that had    *)
(* left; a line that was not read is nowhere.                                *)
Places(l) ==
    {<<"hand", h, 0>> : h \in {g \in Handlers : Hand[g] = l}}
    \cup {<<"slot", 0, i>> : i \in {j \in 1..Count : Queue[j] = l}}
    \cup (UNION {{<<"client", h, i>> :
                     i \in {j \in DOMAIN delivered[h] : delivered[h][j] = l}}
                 : h \in Handlers})
    \cup {<<"lost", 0, 0>> : x \in lost \cap {l}}
LinesAccounted ==
    \A l \in Line :
        Cardinality(Places(l)) = IF l[2] <= nread[l[1]] THEN 1 ELSE 0

(* The lines of one producer reach any one client in the order in which they *)
(* were sent, with every consumer free to overtake the others between its    *)
(* sem_post(empty) and its write.                                            *)
ProducerOrder ==
    \A h \in Handlers : \A i, j \in DOMAIN delivered[h] :
        i < j /\ delivered[h][i][1] = delivered[h][j][1]
            => delivered[h][i][2] < delivered[h][j][2]

(* Line l was written to some client. *)
Arrived(l) ==
    \/ l \in lost
    \/ \E h \in Handlers : \E i \in DOMAIN delivered[h] : delivered[h][i] = l

(* Every line that was read is eventually written to a client, unless a      *)
(* child was killed while it held a unit of a semaphore or a line, or no     *)
(* consumer is left.                                                         *)
KilledHolding ==
    \E h \in dead : pc[h] \in Carrying \cup PInside \cup CInside
                             \cup {"cWaitMutex", "postFull"}
NoConsumer == \A h \in Consumers : h \in dead \/ pc[h] = "exited"
EveryLineArrives ==
    \A l \in Line :
        (l[2] <= nread[l[1]]) ~> (Arrived(l) \/ KilledHolding \/ NoConsumer)
=============================================================================
