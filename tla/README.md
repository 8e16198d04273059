# A TLA+ model of VBS-OSY

The repository is a collection of C and C++ programs written for an operating
systems course: servers that fork or start threads, pipelines, a file watcher,
a shared buffer guarded by semaphores, chats. Each directory is a program or a
small family of programs of its own; what they have in common is that processes
and threads share memory, pipes, queues, sockets and files. This directory
models the programs whose correctness depends on that sharing, checks them with
TLC on small instances and proves most of what it checks with TLAPS for every size.

## 1. Inventory

### Programs modelled

| Program | State | Operations | Interaction | What makes it correct |
|---|---|---|---|---|
| **Semaphore producer-consumer server** `pr_9/main.cpp` | shared memory: ring of lines, `head`, `tail`; named semaphores `mutex`, `empty`, `full` | `produce`, `consume`, `handle_client` | one child process per client; shared memory and semaphores between children, a socket to each client | one child at a time in the critical section, no slot lost or used twice, lines in order, every line delivered once |
| **Threaded producer-consumer server** `pr_8/main.cpp` | the same ring and semaphores in one process | `producer`, `consumer`, `client_handler` | one thread per client | the same; a consumer that is gone costs the line it took, a SIGPIPE ends everything |
| **Line protocol of `pr_9`** `client.cpp`, `main.cpp` | two byte streams, `role[16]`, `line[100]`, `ok[4]` | write role, write line, read OK; read role, read lines, write OK | TCP between client and child | what is put in the buffer is a line, in order; nobody waits forever |
| **Message-queue chat** `pr_10/server.cpp`, `client.cpp` | map of clients, POSIX queue of 16 messages | accept, reap, register, broadcast; child: receive, `mq_send` | parent and one child per client over the queue; sockets | texts keep order and author, all see one order, new clients are accepted |
| **Threaded chat** `pr_7/server.cpp` | `clients[]`, `num_clients`, no lock | register, broadcast, remove | one thread per client and one for the console share the list | the list holds exactly the clients, nothing is written behind it, a broadcast reaches everybody |
| **Game server** `pr_7_1/server.cpp` | the same list, `playingField` | register, send the board, parse and store a move, remove | one thread per client; the board without a lock, too | all players end with the same board |
| **File watcher** `cv_3/mydiff.c` | `size`, `mode`, `offset` of two files | compare, stat once a second, print new lines, note truncation and chmod | other processes write the files | each line is printed once, changes are noticed |
| **Batch expression server** `pr_6/solution` | parent: zombies; child: collected expressions | poll, accept, fork, `waitpid`; read, batch, python3 | fork per client, fork of python3 per batch, sockets | each expression is evaluated once, zombies are bounded, children end |
| **Expression server** `pr_6/socetHost.cpp`, `socetClient.cpp` | child: `leftover` of the stream; pending SIGCHLD | accept, fork, `reap_zombie`; recv, cut into lines, python3 | fork per client, python3 per line, a signal handler in parent and children | each line is evaluated whole, once and in order; no zombie stays; no child waits for a python3 that is gone |
| **Hash server** `cv_6` | child: `buf`, pipe, words of the answer | poll, accept, fork; read names, run `sha1sum` and `file`, answer | fork per client, fork per tool, a pipe from each tool | an answer is about one request, pipes are closed, requests end |
| **Resize server** `pr_6/solutionReserve` | child: the socket it polls | the same template; `convert` writes to the socket | fork per client, fork of `convert`, which holds the socket too | the client gets the whole image and then the end of the stream |
| **Pipelines of programs** `cv_5`, `pr_5` with `gen`, `filter`, `transform`, `sum` | pipe ends, rows of four processes | `pipe`, `fork`, `dup2`, `close`, `exec`, read totals, `waitpid` | pipes between children, the last one to the parent (`cv_5`) or the terminal | totals are complete, no descriptor leaks, nobody hangs |
| **Chains of forked children** `cv_4/main.c`, `pr_4/main.c` | pipe ends, sums, counters | `pipe`, `fork`, `close`, read, write, `waitpid` | pipes; frames of a fixed size and END, or strings and the end of the file | frames stay in step, names are lost only as the code loses them, nobody hangs |

The hard behaviours, line by line, are the `hazards` of `PROJECT.json`:
interleaved updates without a lock, a child killed in its critical section,
SIGPIPE, streams cut at other places than they were written, a bounded queue
that fills, a status read and used later, pipe ends left open, calls that fail
in the middle of a sequence.

### Programs not modelled

| Program | Why |
|---|---|
| Poll server and client `pr_6/poli`, also `pr_7/socet_poli.cpp`, `pr_7_1/socet1.cpp` | the loop for one client at a time from which the servers of `pr_6` grew; nothing runs beside it. Its one subtlety, a short read compared with "close" or "quit" in a buffer that still holds older text, is about bytes |
| Chat and game clients `pr_7/socet.cpp`, `pr_7_1/socet.cpp` | `ChatThreads` has them as peers that connect, send and close at any time; they promise nothing else |
| Ciphers and generators `cv_2`, string checks `pr_1`, number programs `cv_1` | functions of one line or one pass over numbers, no state between steps |
| Stat printer `pr_3` | prints what `stat` returns |
| `cv_3/reserve` | an identical and an earlier copy of `mydiff.c` |

## 2. Modules

| Module | Models | Remarks |
|---|---|---|
| `BoundedFIFO` | what a bounded buffer promises: `Put` and `Take` of one item, atomically | abstract |
| `SemBuffer` | `pr_9/main.cpp`; one action per semaphore operation, copy and index update | implements `BoundedFIFO` |
| `ThreadBuffer` | `pr_8/main.cpp`: the buffer of `SemBuffer`, handled by threads | extends `SemBuffer`, implements `BoundedFIFO` |
| `LineProtocol` | one connection of `pr_9/client.cpp` and its child | cuts of the streams |
| `ChatMq` | `pr_10` | parent, children, queue, clients |
| `ChatThreads` | `pr_7/server.cpp` and `pr_7_1/server.cpp` | loads and stores apart |
| `FileWatch` | `cv_3/mydiff.c` and the writers | |
| `BatchServer` | `pr_6/solution` | parent, children, clients |
| `ExprServer` | `pr_6/socetHost.cpp`, `socetClient.cpp` | extends `BatchServer` |
| `ToolServer` | `cv_6` and `pr_6/solutionReserve` | parent, children, tools, clients |
| `Pipeline` | `cv_5` and `pr_5` | parent and children that exec |
| `StageChain` | `cv_4` and `pr_4` | parent and children that do not |
| `MC...` | instances for TLC | constants only |
| `SemBufferProofs` | theorems about `SemBuffer` and `ThreadBuffer` | TLAPS, as all that follow |
| `ExprServerProofs` | theorems about `BatchServer` and `ExprServer` | |
| `StreamProofs` | theorems about `LineProtocol` and `StageChain` | two parts; they share lemmas on sequences |
| `ChatMqProofs`, `ChatThreadsProofs`, `FileWatchProofs`, `ToolServerProofs`, `PipelineProofs` | theorems about the module they are named for | |

Programs made from the same template share a module. A variable `program`, chosen
at the start and never changed, says which one is run, and an action that only
one of them has is guarded by it. One run then checks both.

The operators named "Faulty variant" are mutated forms of the definition below
them. They are used by no specification; each one shows, put in the place of
that definition, that some property notices the mistake.

### SemBuffer

`data`, `head`, `tail` are `struct SharedBuffer`, `mutex`, `empty`, `full` the
values of the semaphores, `pc[h]` the place of the child of client `h`,
`line[h]` its local `line`. `produce` is six actions (`WaitEmpty`,
`PWaitMutex`, `CopyIn`, `MoveHead`, `PPostMutex`, `PostFull`), `consume` is six
more, so children interleave between any two of them. A line is the pair of
its producer and its number. `Write` is a write to a socket: it succeeds, or
succeeds although the client has left, or kills the child with SIGPIPE. A
client that leaves before it sent its role leaves `role[16]` uninitialized:
`ReadRole` then takes any of the three branches. `Kill` is a signal that kills
a child wherever it stands.

`FIFO == INSTANCE BoundedFIFO` maps the state to a queue: its items are those
counted by `full`, those put in and not yet posted, and those granted to a
consumer that has not copied them. `MoveHead` is the abstract `Put` and
`CopyOut` the abstract `Take`; every other step leaves the queue alone.

### ThreadBuffer

`producer` and `consumer` of `pr_8` are, operation for operation, `Produce` and
`Consume` of `SemBuffer`, so the module only adds what differs around them:
there is no prompt; the producer loop ignores the result of its write, the
consumer loop ends when it is not positive. To a client that is gone the first
writes succeed; after the reset has arrived one write fails (`LeaveConsumer`)
or raises SIGPIPE, which stops all threads (`Sigpipe` sets `dead` to all of
them). `Blank` are the empty lines, of which `write` writes 0 bytes: the consumer
takes that for an error and leaves.

### LineProtocol

The client writes `"producer\0"`, then its lines with their NUL, and reads up to
three bytes after each. The child reads up to 16 bytes for the role and up to
100 for a line. A line is a sequence of chunks, only the last one holds the NUL.
`Item` is what `strncpy` keeps of a line buffer: the text up to the first NUL.
The client reads only five of the six bytes of `"Task?\n"`, so the first answer
it sees is the newline of the prompt; from then on it is one answer ahead.

### ChatMq

`pc` is the parent's place in its loop; `Reap`, `Poll`, `Accept`, `Receive` are
its stages. `mq` is the queue with its limit. A child registers the first thing
it receives as the nick and sends the rest as texts. The nick and the lines of
a client are tokens; one `recv` returns any number of those waiting, because the
client writes no delimiter. `accept` and `fork` of the parent and `mq_open` of
a child may fail: the connection is then closed, by the parent or with the child,
and the client ends or is killed by its next write.

### ChatThreads

Every access to `clients[]` and `num_clients` that two threads may interleave
is a step: the test of `num_clients`, the store into the slot, the load and the
store of `++` and of `--`, each round of the loops. Sockets are numbers that
are given out again after `close`. Clients come, go and write whenever they like,
and nothing keeps two threads from changing the list at once, so the list does go
wrong (`ChatThreads_add`). The properties say when, and what holds in spite of it:

- `met` is the history of what met: "changes", when two threads were between the
  first read and the last write of `clients[]` or `num_clients` in their
  registration or removal, and "adds", when both were registrations. `ListIsRight` says that
  nothing but a meeting of changes makes the list wrong, `FullListCloses` that
  nothing but a meeting of registrations overruns it, whatever removals do.
- `owed[t]` is the history of a broadcast: the clients at places its loop has still
  to come to. A client that loses its place or is moved is struck from it (`KeepOwed`).
  `BroadcastReachesAll` needs no condition: it holds on a wrong list, too.
- `HandlersEnd` is for any interleaving.

In the third kind of instance, `calm`, users wait until the server has come to
rest, but moves of the game are sent at any moment while nobody is leaving.
Only `BoardShown` is about it: a player who is moved by a removal in the middle of a
broadcast may miss the last board, and no board comes after it.

The board is known by the number of symbols stored in it, `shown[h]` is the last
one sent to a client. A move that cannot be parsed ends the process (`strchr`
returns NULL), one out of range is dropped.

### FileWatch

The program is a loop of steps: stat of file 1, stat of file 2, `read_new` of
each, update. A file is a sequence of lines, each told apart by the number of
the write that made it. `out` is all that was printed. `writer` is chosen at
the start: either somebody who appends and removes at any moment of a round, or
a calm one who does anything but leaves the program a round between two changes
of a file. `base` is the history of the size at the first stat: a line that comes
between it and the end of `compare` is compared and printed, and the only kind that is
shown twice. A truncation and an append within one second cannot be told apart
from growth by an observer of `stat`, so nothing is claimed for it.

### BatchServer

The parent's loop is `Poll`, `Quit`/`ReadStdin`, `Accept`, `Waitpid`. A child
reads, collects and hands three lines to python3. A read returns any number of
waiting lines and the child uses the first one. `pushed` and `given` are
histories of what was collected and of what was written to a python3. The list
is cleared only after the `waitpid` for python3: when `pipe` or `fork` fails it
stays, and the next attempt gives four lines. When `exec` fails, the write to the
pipe may find no reader: SIGPIPE ends the child.

### ExprServer

The processes, connections and clients of `BatchServer`, with the other server's
way to read, evaluate and reap. A line travels in two pieces, because three
expressions may be longer than the 255 bytes of a `recv`; `Recv` takes any number
of waiting pieces, `RunPython` the pieces up to the first newline. The client
sends the next line after it has received something of an answer; as python3
writes an answer in several pieces, the client can be ahead of it. `Deliver`,
`ReapZombie` are the signal handler of the parent, which interrupts it anywhere;
the children inherit the handler, and `HandlerReaps` lets it take the python3
before `waitpid` does. When `fork` fails, the write to the pipe without a reader
kills the child.

### ToolServer

`srv[c]` is the child of client `c`: its place, the request it works on, `buf`
and the word of the answer it has already cut out of it, and how many pipe ends
it has open. `tool[c]` is the program it has started: `sha1sum`, then `file`
(`stage`), or `convert`. `holds` says who has a socket open, which decides when
a client sees the end of the stream: the children forked while the parent has it
open, and `convert`. Names are sent without a delimiter, so a request is a
sequence of names read together. A name is of a file, of none, or `-`, for which
`sha1sum` reads the pipe it holds open itself and never ends; this case is
excluded from `EveryRequestEnds`, and it is what the code does.

The client of the resize server sends any text it is given (`Resolutions`): a size; a
geometry that `convert` rejects, or a size while there is no image to convert
("refused"), for which `convert` ends and writes nothing; "close", which ends the
connection; or nothing at all, upon which the child polls again and the client reads
for ever. The fork for a resolution may fail with the same effect. `failures`
counts what fails for each client, so that a client for which nothing failed is
promised its image although calls fail for others. `ImageWhole` says what a client has
when the stream ends, and `ImageArrives` that it ends for all but those two
cases (`Stranded`).

`AnswerOfOneFile` follows the two buffers of the hash server through the requests for
which a tool writes nothing: what is left there gets into the answer, and is never the
hash of another file.

### Pipeline

`holds` is the set of open pipe ends, each with the process that holds it.
`Fork` copies the parent's ends, `CloseEnds` closes the two that the child just
forked is to use, `Exec` keeps a child's own two. A reader sees the end of the
file when its pipe is empty and nobody holds a write end; a writer without a
reader is killed. stdio writes when it likes to (`Flush`). Numbers are known by
their position, a total is the sequence of the numbers it was made of, so that a
short or a doubled total can be told from the right one. The parent of `cv_5`
reads the totals of one row to their end before it starts the next, so rows
never overlap except for children that have not ended yet. `pr_5` has one row,
three pipes, and a `sum` that prints to the terminal.

### StageChain

The children read and write the pipes themselves. `CloseOthers` leaves a process
the ends `OwnEnds` names, exactly those the code leaves open: the last child of
`pr_4` closes `pipes[1][1]` twice and keeps `pipes[1][0]`. In `cv_4` a frame has
a fixed number of bytes, END is passed on as a shorter one, and `Room` is what
the read of each stage asks for. In `pr_4` a read returns every string that
waits and uses the first; `lost` is the history of those it swallowed. Any
process may be killed. A running sum is written as the sequence of the numbers it
is made of, so that a sum that skips a number differs from one that does not.

## 3. Runs

| Run | Instance | Shows |
|---|---|---|
| `SemBuffer` | both servers; 1 producer of 3 lines, the second of them empty for `pr_8`, 2 consumers, 2 slots; one consumer may leave, it and the producer may be killed | `TypeOK`, `MutualExclusion`, `SlotAccounting`, `IndexesAgree`, `ProducerOrder`, `LinesAccounted`; that both implement the queue; `EveryLineArrives` |
| `LineProtocol` | 6 lines of 2 chunks, sizes of `pr_9` | items are ends of lines, in order, at most one line lost, both sides finish |
| `ChatMq` | 3 clients with a nick and a line, queue of 1, one client may be killed | texts keep their order and author, one order for all, every text is handled, a killed client is noticed |
| `ChatMq_accept` | 2 clients | **violated**: see below |
| `ChatThreads` | chat with 2 clients that come and go freely, one of which writes; game with 3 clients for 2 slots, one of which leaves; calm: chat with the console, game with 3 players who move and leave | only changes that meet spoil the list, only registrations that meet overrun it, broadcasts reach who keeps his place, all players see the last board, handlers end |
| `ChatThreads_add` | 2 clients of the chat | **violated**: see below |
| `FileWatch` | 3 changes to each of 2 files, both kinds of writers | what is printed, and that it is printed |
| `BatchServer` | both expression servers; 2 clients, one of them with 4 lines or 3 messages, 1 failing call, quit | each line once and in order, zombies, end of the children |
| `Pipeline` | `cv_5` with 2 rows, `pr_5`; 2 numbers, 1 failing call, pipes of 1 number | totals, descriptors, termination |
| `StageChain` | `cv_4`, `pr_4`; 3 items, pipes of 2 messages, 1 failing call or killed process | sums, names, termination |
| `ToolServer` | hash and resize; 2 clients, one with 2 names of any kind, resolutions of any kind, images of 2 pieces, 1 failing call for each client, quit | answers, pipes, images, termination of requests |
| `ToolServer_exit` | resize, 1 client | **violated**: see below |

No run checks for deadlock: each of these programs ends or may have to wait for
a user for ever. What must not wait is stated by the liveness properties.

### Why the bounds are enough

- `SemBuffer`: two slots and three lines make the indexes wrap around, the
  buffer fill and empty, and let two consumers overtake each other between the
  copy and the write. A second producer adds no kind of step, only states; the
  proofs remove the bounds, producers included, for what they cover.
- `LineProtocol`: six lines are enough to lose the one that can be lost and go
  on; the state is the same for each line after that.
- `ChatMq`: three clients are the fewest for two listeners of one sender; a
  queue of one message fills at once where the real one holds sixteen.
- `ChatThreads`: three threads for two slots exercise a full list, a removal
  from the front with an element to move, a registration and a removal in the
  middle of a broadcast, and a socket number used again. Two that both come and go
  make every pair of changes meet. The proofs remove these bounds.
- `FileWatch`: three changes reach every phase of two rounds; the files only
  interact through the loop they share.
- `BatchServer`: four lines make one batch and one more, and with a failure a
  batch of four; three messages of two pieces give every cut, with the client
  one line ahead; two clients make two signals merge, or a zombie while the
  other child runs.
- `Pipeline`: two rows show ends inherited from an earlier row; a pipe of one
  number makes each writer wait for its reader; one failing call can be any of
  the calls.
- `StageChain`: three items are one that is dropped between two that are not;
  pipes of two messages let a read find several.
- `ToolServer`: the second request meets the buffers of the first; a second
  client is what the sockets could leak to, and whose failures must not matter.

### Fairness

Every fairness assumption is weak and on whole processes: a process that can
continue is eventually scheduled. Users are never fair: nobody has to connect,
type or leave, and no file has to be written. `SemBuffer` asks nothing of the
semaphores, which may let any waiting process go; that is why it promises that
a line *that was read* arrives, and not that each producer gets its turn.
`LineProtocol` counts `Produce` as a step of the child that comes to its end, as
it does when a consumer drains the buffer. `BatchServer` assumes that every
python3 ends, `ToolServer` the same of its tools and that clients go on with
what they have begun. `Pipeline` and `StageChain` only ask that some process
continues as long as one can: no process runs without end.

### Findings

- `ChatMq_accept`: `mq_open` has no `O_NONBLOCK` (`pr_10/server.cpp:98`), so the
  loop that is to end with `EAGAIN` (line 215) blocks in `mq_receive` when the
  queue is empty. After the first message the parent serves messages only; a
  client that connects later is never accepted.
- `ChatThreads_add`: two threads that register at the same time
  (`pr_7/server.cpp:53-57`) store into the same slot or lose an increment; a
  client that counts as one is not in the list.
- `ToolServer_exit`: `process_resize` closes the socket
  (`pr_6/solutionReserve/socket_srv.cpp:182`) that `handle_client` polls next.
  `poll` returns POLLNVAL at once, which the loop does not look for: the child
  neither reads nor exits, it spins, although line 413 says that `handle_client`
  exits on its own. The client does get its image.

What follows from the race of `ChatThreads_add`, and what does not, is what
`ListIsRight`, `FullListCloses` and `BroadcastReachesAll` say.

## 4. Proofs

Every theorem is about the specification a run checks, for every value of the
constants that its assumption allows: any finite sets of clients, any number of
lines, slots and places in a queue, any capacity, any bound on failures.

| Module | Theorem | Property |
|---|---|---|
| `SemBufferProofs` | `TypeCorrect` | `TypeOK` |
| | `Exclusive`, `ThreadsExclusive` | `MutualExclusion` |
| | `UnitsConserved`, `ThreadsUnits` | `SlotAccounting` |
| | `IndexesFollowSemaphores`, `ThreadsIndexes` | `IndexesAgree` |
| | `Refinement`, `ThreadsRefine` | `ImplementsFIFO`: initial states map to initial states, each step to `Put`, `Take` or a stutter |
| | `Accounted`, `ThreadsAccounted` | `LinesAccounted` |
| | `Ordered`, `ThreadsOrdered` | `ProducerOrder` |
| `StreamProofs` | `ItemsAreLines` | `ItemsInOrder` |
| | `OneLineLost` | `AtMostOneLost`, for lines that do not fit behind the role |
| | `SumsKept` | `SumsRight` |
| | `NamesKept` | `NamesRight` |
| `ExprServerProofs` | `LinesGivenOnce` | `GivenOnce` |
| | `LinesKeptInOrder` | `LinesInOrder` |
| | `ZombiesReaped` | `NoZombieStays` |
| `ChatMqProofs` | `TextsArrive` | `StreamPreserved` |
| | `BroadcastsNamed` | `SenderIsNamed` |
| | `OneOrder` | `SameOrder` |
| `ChatThreadsProofs` | `ListRight` | `ListIsRight` |
| | `FullList` | `FullListCloses` |
| | `Broadcasts` | `BroadcastReachesAll` |
| | `BoardSeen` | `BoardShown` |
| `FileWatchProofs` | `GrowthPrintedOnce` | `PrintedOnce` |
| | `CalmLinesShown` | `LinesShown` |
| | `CalmSettled` | `Settled` |
| `ToolServerProofs` | `NoPipeKept` | `PipesReturned` |
| | `ImageComplete` | `ImageWhole` |
| | `AnswersOfOneFile` | `AnswerOfOneFile` |
| `PipelineProofs` | `NoEndKept` | `DescriptorsReturned` |
| | `TotalsComplete` | `RowTotal` |

The only assumptions are those of the modules about their constants, such as
`SemBufferAssumption`: finite disjoint sets of clients, at least one slot,
`NoLine` is not a line. `OneLineLost` has one more, `RoleRoom < LineChunks`: a
line that is read together with the role is gone, and then nothing acknowledges
it (section 5).

`tlapm` takes one to eight minutes for each module from nothing. Leaves that come
near its default limits, such as those that expand the whole of `Next`, name the
prover that finds them and the time it may have (`SMTT(30)`, `ZenonT(60)`).

None of the properties is inductive. What had to be added says how the program
works, so each invariant is given here.

### The shared buffer

`IInv` of `SemBufferProofs`. That two children are not both inside follows from
the value of `mutex`, so `MutexUnit` relates `mutex` to the number of children
inside. That `head` stays in the right distance needs the numbers of children
at six groups of places (`cP`, `cF`, `cG`, `cD`, `cT`, `cO`), so `SlotUnits` and
`HeadAhead` are equations between the semaphores, the indexes and these
counters. The refinement needs in addition that occupied slots hold lines and
that a child that carries a line holds one (`SlotsHoldLines`, `HandsHoldLines`),
and the types of the history variables (`Received`). The proof rests on one
lemma about sets of children: moving one child from a place to another changes
the number of children at any group of places by what that place was worth
(`NMove`). With it each action becomes an equation between natural numbers.
A dead child counts where it stopped, which is how a killed child keeps its unit
and why the invariants survive `Kill`.

The lines are proved about on top of the refinement. Seen from a line, each of
the actions does one of five things (`Moves`): a producer reads it, puts it in
the queue, a consumer takes it, it leaves, or nothing moves. `Once`, that a line
is in at most one hand, place of the queue or history and that the lines read
are those that are somewhere, and `Order`, that lines of one producer stand in
order from the consumers back to its client, are proved over these five.

The threads of `pr_8` keep the same invariants: `producer` and `consumer` reuse
the lemmas, and each step `pr_8` adds changes no semaphore and no index, or stops
all threads where they stand, which the counters survive as they survive `Kill`.

### The line protocol

`LineInv`. The server is at chunk `k` of line `a`; the inbox is what follows, up
to the end of line `m`, and the lines after `m` are in writes of their own
(`Situation`). That `a`, `k` and `m` exist is the invariant: nothing recursive is
needed to say that a stream is cut at some place. `Credit` counts what is under
way in either direction: a line not yet read to its end, one the server works on,
an answer the client has not read, a line it may write. It is two at the start,
because of the newline left of the prompt, and no step raises it; the read that
swallows a line uses one up, which is why it cannot happen twice. `LineProtocol`
assumes `OkRoom >= 3`: `ok[]` takes a whole answer, as it does in the code. With a
smaller one the client could run ahead further and further.

### The expression servers

`BatchInv` for `pr_6/solution`, `LineInv` for the other. The lines of a client
are numbered; what its child collected is in order, and what is still in the
socket comes behind it (`Ascending`), so that no line can be collected twice.
`Stream` is the same for lines in two pieces: what was taken, what is left over
and what is in the socket are, put together, all pieces written, and a whole
number of lines was taken. For the zombies: children and zombies together
are never more than there were children at one time, plus one while the parent
is about to call `waitpid` (`ZombiesBounded`); in the other server a zombie
implies a signal that is pending or being handled (`Signalled`).

### The message-queue chat

`MqInv`. `Stream` says for each client that there are numbers at which what it
typed is cut into what was handled, each text in the queue, what its child
holds and what is in the socket (`Cut`). `Named` says that a child that has sent
its nick is named in the map, or its nick is in front of all its texts in the
queue. `Past` and `Distinct`, of what was shown, give one order for all.

### The threaded chat and the game

`ChatInv` has four parts. What holds whatever meets are the types, that sockets in
use differ, and `Owed`: whom a broadcast has still to reach is at its place in the
list, which the loop has not passed. It survives each of the stores, also to a list
that is wrong, because `owed` follows the entries and not the clients.

While registrations did not meet, `Bounded`: at most one handler is between the test
of `num_clients` and the store of `++`, and there is room for it. Removals only store a
number that was loaded, minus one, so a lost update of theirs never raises
`num_clients` above what it was.

While changes did not meet, `Orderly`: the handlers in the middle of a change are
`Apart`; the entries of `clients[]` are the sockets of the clients in the list, one
each (`ListMatches`), minus one while the entry that moved up is still there
twice (`Entries`); `Knows` is what a handler remembers from one load to the next
store. A registration may begin while a removal still searches: it appends behind all
that was searched.

With `calm`, nothing met, one handler at a time changes the list (`OneBusy`), messages
are sent while nobody leaves (`NobodyLeft`), and `BoardComes` says that who has not
seen the last board has a loop before it that will come to it.

### The file watcher

`WatchInv`. Lines are numbered upwards (`Numbered`). For growing files `Account`
says that those up to `base` were compared and exactly those from there up to `offset`
printed; for calm writers `Round` says at each place of the loop
which of `size`, `offset` and the results of `stat` agree with the file, and `Told`
that the lines up to `offset` were compared or printed once, those behind it neither.

### The tool servers

`ToolInv`. `Ends` needs the places only. `Image` follows the numbers of an image
from `convert` to the client, and says what was asked for and who holds the socket
at each place, so that the end of the stream cannot come before `convert` has
written all it will. `Hashed` orders the requests: those
answered, the one at work, those that wait (`Grows`); and says what pipe and buffers
hold of the request at work at each place (`Own`). `Clean` says where a hash may lie in a
buffer: nowhere between two requests, which is why a request that finds the buffer
as an earlier one left it finds no hash there.

### The pipelines

`PipeInv`. `Ends` says which pipe ends the parent and the children hold at each
place, `Started` which children have been forked, `Ordered` that they end from the
left to the right and leave their input empty, `Drained` that the parent does not
go on before the total is read. `Flows` says for each row that there are numbers at which the
numbers printed are cut into what lies at the six places between `gen` and `sum`
(`Cut`), and each place holds those between its two that pass the filter. A step
moves one of these cuts. With `Ordered`, all cuts are at the end of the row when
the total is written. `Collects` follows the total to the parent.

### The chains

`ChainInv`. `ChainEnds` and `ChainForked` say which ends a process holds at each
place; `EndLast` that "END" is the last message of a pipe and that its writer has
nothing left then. From these follows `Alive`, which is about runs without a
failure: nobody is killed by SIGPIPE, and who is past its input has a process
before it that sent everything.

`Flowing` follows the items through the first three links, which both programs
have: the generator or the parent and the two processes behind it. For each link
there is the set of the items in its pipe and of those in the hand of its writer.
What is nearer to the end is smaller (`InOrder`); with what came through and what
was dropped the sets cover all items made (`Covered`), and what was dropped is
nowhere else (`Apart`); in `cv_4` what is behind the filter are kept numbers and no
kept number is dropped (`Picked`). Generating, writing and reading are three
lemmas about these families of sets (`OrderMakes`, `OrderPuts`, `OrderTakes`) that
know nothing of programs: a read takes an item, drops some behind it, and passes
it on or not.

What comes through is counted behind that. In `cv_4` the printed sums, those in the
last pipe and the one in the hand of child 3 are the sums of the first, second, ...
of the numbers that came through (`Tally`). In `pr_4` the lines from some number on
wait in the first pipe and in the hand of the parent, without a gap (`Queue`), and
a name behind that carries the number of lines up to its own that were not
swallowed (`Numbered`). This holds because later lines are larger than every
name that has its number already, so losing one of them renumbers nothing.

`LineProtocol` and `StageChain` have nothing in common but are proved about in one
module: both proofs rest on the same facts about cutting and appending
sequences. To that end the names in them are distinct, and those of the
specification of `LineProtocol` begin with `Protocol`.

### What is only model-checked

- All liveness (`EveryLineArrives`, `BothFinish`, `EveryTextHandled` and the like): fairness
  and `ENABLED` are out of reach of the prover.
- The three properties that are violated.

Five properties are stated in a way that fits a proof, without changing what
they say: `StreamPreserved` by the existence of the cuts, `PrintedOnce` and
`LinesShown` by the positions of a line in what was printed (`Times`), `RowTotal`
by the set and the order of the numbers in a total (`Counts`), `SumsRight` likewise
for running sums (`RunningSum`).

## 5. Abstractions

- Contents of lines, messages and numbers are identities. What is printed for
  people (logs, prompts, formats) is left out, except what `mydiff` prints.
- System calls that set up sockets, semaphores and shared memory are assumed to
  succeed, and so are `malloc` and `pthread_create`. `fork`, `pipe` and `exec` may
  fail in `BatchServer`, `ToolServer`, `Pipeline` and `StageChain`; `accept`, `fork`
  and `mq_open` in `ChatMq`; `fork` and `exec` in `ExprServer`. There a `pipe` that
  fails leaves an uninitialized array whose two numbers are then written to and
  closed; which descriptors they name is unbounded, so that failure is left out.
- An `accept` that fails is one that took the connection away. One that leaves it
  waiting, for want of descriptors, is tried again without end.
- A read returns parts of a line in `LineProtocol` and `ExprServer`, where that is
  the subject, and whole ones elsewhere. In `BatchServer` lines are short against
  the buffer of 255 bytes.
- Text inside a frame of `cv_4` is not modelled: `sprintf` of "%.3f" writes its NUL
  behind the six bytes for a number of two digits.
- Sockets: what was written arrives in order. A reset reaches a writer at any
  time after the peer has closed.
- `LineProtocol` takes lines longer than the seven spare bytes of `role[16]`.
  With shorter ones a whole line can disappear with the role.

## 6. Plan

Every program whose correctness depends on what several processes or threads
share is modelled, and every invariant the runs check is proved. What is left:

1. That both programs of `Pipeline` keep a bounded number of descriptors open in
   the middle of a row, too, as a number.
2. The inverse of the rotation cipher (`cv_2/DynamicLibs/rot_lib.c`) for every key.
