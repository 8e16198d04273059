----------------------------- MODULE StageChain -----------------------------
(* Two programs that fork a chain of children and connect them by pipes      *)
(* without exec: the calculator of cv_4 (five children, the first of which   *)
(* makes the numbers, frames of fixed size, a frame "END" at the end) and    *)
(* the name list of pr_4 (three children fed by the parent, strings with     *)
(* their NUL, the end of the file at the end).                               *)
(*                                                                           *)
(* The k-th number or name is k.  A message is a sequence of them: a number  *)
(* is <<k>>, a running sum the numbers it is made of, a numbered name        *)
(* <<name, number>>, and "END" is <<>>.                                      *)
EXTENDS Integers, SequencesExt

CONSTANTS
    Programs,      \* the programs to check, from {"cv_4", "pr_4"}
    Items,         \* numbers generated, or names in the file
    Kept,          \* cv_4: the numbers that are not above 50
    Capacity,      \* messages that fit in a pipe
    MaxFailures    \* bound: calls of pipe and fork that fail, kills

ASSUME StageChainAssumption ==
    /\ Programs \subseteq {"cv_4", "pr_4"}
    /\ Items \in Nat /\ Kept \subseteq 1..Items
    /\ Capacity \in Nat \ {0} /\ MaxFailures \in Nat

VARIABLES
    program,           \* which of the two is run; never changes
    at,                \* where each process is
    index,             \* the loop index of the parent
    holds,             \* open pipe ends: <<process, pipe, "r" or "w">>
    content,           \* what is in each pipe
    hand,              \* the messages each process is about to write
    memory,            \* items counted or added up so far by each process
    printed,           \* what the last child printed
    lost,              \* history: names that a read of each child swallowed
    failures

pipes == <<holds, content>>
data == <<hand, memory, printed, lost>>
vars == <<program, at, index, pipes, data, failures>>

Main == -1
LastChild == IF program = "cv_4" THEN 4 ELSE 2
Children == 0..LastChild
Procs == Children \cup {Main}
Pipes == 0..(IF program = "cv_4" THEN 3 ELSE 2)
END == <<>>

In(p) == IF program = "cv_4" THEN p - 1 ELSE p       \* the pipe a process reads
Out(p) == In(p) + 1                                  \* the pipe it writes
Source == IF program = "cv_4" THEN 0 ELSE Main

Ended == {"exited", "killed"}
Readers(q) == {p \in Procs : <<p, q, "r">> \in holds}
Writers(q) == {p \in Procs : <<p, q, "w">> \in holds}
EndsOf(p) == {e \in holds : e[1] = p}

Init ==
    /\ program \in Programs
    /\ at = [p \in Procs |-> IF p = Main THEN "pipe" ELSE "none"]
    /\ index = 0
    /\ holds = {}
    /\ content = [q \in Pipes |-> <<>>]
    /\ hand = [p \in Procs |-> <<>>] /\ memory = [p \in Procs |-> <<>>]
    /\ printed = <<>>
    /\ lost = [p \in Procs |-> {}]
    /\ failures = 0

(* A process ends, of itself or by a signal; its pipe ends are closed. *)
Leave(p, how) ==
    /\ at' = [at EXCEPT ![p] = how]
    /\ holds' = holds \ EndsOf(p)

(* A call fails and the program exits, or somebody kills the process. *)
Fail(p, how) ==
    /\ failures < MaxFailures /\ failures' = failures + 1
    /\ Leave(p, how)

-----------------------------------------------------------------------------
(* The parent *)

MakePipes ==
    /\ at[Main] = "pipe"
    /\ \/ /\ holds' = {Main} \X Pipes \X {"r", "w"}
          /\ at' = [at EXCEPT ![Main] = "fork"]
          /\ UNCHANGED failures
       \/ Fail(Main, "exited")
    /\ UNCHANGED <<program, index, content, data>>

(* The child inherits every end the parent has open. *)
Fork ==
    /\ at[Main] = "fork"
    /\ \/ /\ holds' = holds \cup {<<index, e[2], e[3]>> : e \in EndsOf(Main)}
          /\ at' = [at EXCEPT ![index] = "forked",
                              ![Main] = IF index = LastChild THEN "forked" ELSE @]
          /\ index' = IF index = LastChild THEN 0 ELSE index + 1
          /\ UNCHANGED failures
       \/ Fail(Main, "exited") /\ UNCHANGED index
    /\ UNCHANGED <<program, content, data>>

(* cv_4: waitpid for every child, in the order of the forks. *)
Wait ==
    /\ program = "cv_4" /\ at[Main] = "run" /\ at[index] \in Ended
    /\ IF index = LastChild THEN Leave(Main, "exited") /\ UNCHANGED index
                       ELSE index' = index + 1 /\ UNCHANGED <<at, holds>>
    /\ UNCHANGED <<program, content, data, failures>>

-----------------------------------------------------------------------------
(* Every process *)

(* Faulty variant: potomek1 keeps the end that feeds it. *)
OwnEndsKept(p) ==
    ({<<In(p), "r">>, <<Out(p), "w">>} \cap (Pipes \X {"r", "w"}))
        \cup (IF program = "pr_4" /\ p = 0 THEN {<<0, "w">>} ELSE {})

(* The ends a process leaves open when it closes the others: its own two,    *)
(* but the parent of cv_4 none, and the last child of pr_4, which closes     *)
(* pipes[1][1] twice, keeps pipes[1][0].                                     *)
OwnEnds(p) ==
    CASE program = "cv_4" /\ p = Main -> {}
      [] program = "pr_4" /\ p = LastChild -> {<<2, "r">>, <<1, "r">>}
      [] OTHER -> {<<In(p), "r">>, <<Out(p), "w">>} \cap (Pipes \X {"r", "w"})

CloseOthers(p) ==
    /\ at[p] = "forked"
    /\ at' = [at EXCEPT ![p] = "run"]
    /\ holds' = holds \ {e \in EndsOf(p) : <<e[2], e[3]>> \notin OwnEnds(p)}
    /\ UNCHANGED <<program, index, content, data, failures>>

(* The next number of gen; the next line of the file. *)
Generate(p) ==
    /\ p = Source /\ at[p] = "run" /\ hand[p] = <<>> /\ Len(memory[p]) < Items
    /\ LET k == Len(memory[p]) + 1 IN
        /\ memory' = [memory EXCEPT ![p] = Append(@, k)]
        /\ hand' = [hand EXCEPT ![p] = <<<<k>>>>]
    /\ UNCHANGED <<program, at, index, pipes, printed, lost, failures>>

(* What a child makes of a message, and what it remembers of it. *)
Result(p, m) ==
    CASE p = LastChild -> <<>>
      [] program = "pr_4" /\ p = 0 -> <<Append(m, Len(memory[p]) + 1)>>
      [] program = "cv_4" /\ p = 1 /\ m[1] \notin Kept -> <<>>
      [] program = "cv_4" /\ p = 3 -> <<memory[p] \o m>>
      [] OTHER -> <<m>>
Remembered(p, m) ==
    IF (program = "pr_4" /\ p = 0) \/ (program = "cv_4" /\ p = 3)
    THEN Append(memory[p], m[1]) ELSE memory[p]

(* A frame that is written to pipe q of cv_4, and what a read of it asks for *)
BUFFER_SIZE == 6
Frame(q) == IF q = 3 THEN BUFFER_SIZE * 2 + 1 ELSE BUFFER_SIZE

(* Faulty variant: every read asks for the largest frame there is. *)
RoomLargest(q) == BUFFER_SIZE * 2 + 1
Room(q) == IF q = 3 THEN BUFFER_SIZE * 2 + 1 ELSE BUFFER_SIZE

(* Messages taken by one read.  In cv_4 those that fit in what it asks for;  *)
(* in pr_4 all the strings that wait, of which it then uses the first only.  *)
Taken(p) ==
    IF program = "cv_4" THEN Min({Len(content[In(p)]), Room(In(p)) \div Frame(In(p))})
    ELSE Len(content[In(p)])

(* Faulty variant: the last string that was read is used. *)
ReadLastString(p) ==
    /\ p \in Children /\ p # Source /\ at[p] = "run" /\ hand[p] = <<>>
    /\ content[In(p)] # <<>> /\ Head(content[In(p)]) # END
    /\ LET q == content[In(p)]
           m == IF program = "pr_4" THEN q[Len(q)] ELSE Head(q)
       IN /\ hand' = [hand EXCEPT ![p] = Result(p, m)]
          /\ memory' = [memory EXCEPT ![p] = Remembered(p, m)]
          /\ printed' = IF p = LastChild THEN Append(printed, m) ELSE printed
          /\ content' = [content EXCEPT ![In(p)] = SubSeq(q, Taken(p) + 1, Len(q))]
          /\ UNCHANGED lost
    /\ UNCHANGED <<program, at, index, holds, failures>>

Read(p) ==
    /\ p \in Children /\ p # Source /\ at[p] = "run" /\ hand[p] = <<>>
    /\ content[In(p)] # <<>> /\ Head(content[In(p)]) # END
    /\ LET q == content[In(p)]
           m == Head(q)
       IN /\ hand' = [hand EXCEPT ![p] = Result(p, m)]
          /\ memory' = [memory EXCEPT ![p] = Remembered(p, m)]
          /\ printed' = IF p = LastChild THEN Append(printed, m) ELSE printed
          /\ content' = [content EXCEPT ![In(p)] = SubSeq(q, Taken(p) + 1, Len(q))]
          /\ lost' = [lost EXCEPT ![p] = @ \cup
                         {q[i][1] : i \in {j \in 2..Taken(p) : q[j] # END}}]
    /\ UNCHANGED <<program, at, index, holds, failures>>

(* gen has made its numbers, the file has no more lines; the others see      *)
(* "END" or the end of the file.  In cv_4 all but the last pass "END" on.    *)
AtEnd(p) ==
    IF p = Source THEN Len(memory[p]) = Items
    ELSE /\ p \in Children
         /\ \/ content[In(p)] = <<>> /\ Writers(In(p)) = {}
            \/ content[In(p)] # <<>> /\ Head(content[In(p)]) = END

EndOfInput(p) ==
    /\ at[p] = "run" /\ hand[p] = <<>> /\ AtEnd(p)
    /\ at' = [at EXCEPT ![p] = "end"]
    /\ hand' = IF program = "cv_4" /\ p # LastChild
               THEN [hand EXCEPT ![p] = <<END>>] ELSE hand
    /\ UNCHANGED <<program, index, pipes, memory, printed, lost, failures>>

(* write waits for room; without a reader it kills the writer.               *)
Write(p) ==
    /\ hand[p] # <<>> /\ at[p] \in {"run", "end"}
    /\ Readers(Out(p)) # {} /\ Len(content[Out(p)]) < Capacity
    /\ content' = [content EXCEPT ![Out(p)] = Append(@, Head(hand[p]))]
    /\ hand' = [hand EXCEPT ![p] = <<>>]
    /\ UNCHANGED <<program, at, index, holds, memory, printed, lost, failures>>

BrokenPipe(p) ==
    /\ hand[p] # <<>> /\ at[p] \in {"run", "end"}
    /\ Readers(Out(p)) = {}
    /\ Leave(p, "killed")
    /\ UNCHANGED <<program, index, content, data, failures>>

Exit(p) ==
    /\ at[p] = "end" /\ hand[p] = <<>>
    /\ Leave(p, "exited")
    /\ UNCHANGED <<program, index, content, data, failures>>

(* A signal; also the crash of a process whose fopen failed. *)
Kill(p) ==
    /\ at[p] \in {"forked", "run", "end"}
    /\ Fail(p, "killed")
    /\ UNCHANGED <<program, index, content, data>>

Process(p) ==
    \/ CloseOthers(p) \/ Generate(p) \/ Read(p) \/ EndOfInput(p) \/ Write(p)
    \/ BrokenPipe(p) \/ Exit(p)

Running == MakePipes \/ Fork \/ Wait \/ \E p \in Procs : Process(p)

Next == Running \/ \E p \in Procs : Kill(p)

Spec == Init /\ [][Next]_vars

(* As long as some process can go on, one of them does. *)
LiveSpec == Spec /\ WF_vars(Running)

-----------------------------------------------------------------------------
(* Properties *)

(* The numbers of a running sum: in order, and none of the filter's between  *)
(* them and before the last one is missing.                                  *)
RunningSum(s) ==
    /\ \A i, j \in 1..Len(s) : i < j => s[i] < s[j]
    /\ {s[i] : i \in 1..Len(s)} = {k \in Kept : k <= s[Len(s)]}

(* cv_4: the output shows the running sums of the numbers that pass the      *)
(* filter, none skipped and none twice, and all of them when no process was  *)
(* lost: frames and "END" never get out of step, and nobody is killed by     *)
(* SIGPIPE because its reader left early.                                    *)
SumsRight ==
    program = "cv_4" =>
        /\ \A i \in 1..Len(printed) : Len(printed[i]) = i /\ RunningSum(printed[i])
        /\ failures = 0 /\ at[LastChild] = "exited" =>
             {printed[i][i] : i \in 1..Len(printed)} = Kept
        /\ failures = 0 => \A p \in Procs : at[p] # "killed"

(* pr_4: reads that find several names lose all but the first.  What gets    *)
(* through comes in the order of the file, its number counts the names       *)
(* potomek1 has read and not the lines of the file, and in the end every     *)
(* name was printed or lost in such a read, and disappeared in no other way. *)
NamesRight ==
    program = "pr_4" =>
        /\ \A i, j \in DOMAIN printed : i < j => printed[i][1] < printed[j][1]
        /\ \A i \in DOMAIN printed :
             printed[i][2] = Cardinality(1..printed[i][1] \ lost[0])
        /\ failures = 0 /\ at[LastChild] = "exited" =>
             {printed[i][1] : i \in DOMAIN printed} =
                 (1..Items) \ UNION {lost[p] : p \in Procs}

(* Whatever call fails and whoever is killed, no process waits forever for   *)
(* data, room, the end of a file or a child.                                 *)
AllEnd == <>(\A p \in Procs : at[p] \in Ended \cup {"none"})
=============================================================================
