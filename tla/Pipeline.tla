------------------------------ MODULE Pipeline ------------------------------
(* calcpipe (cv_5/main.c): K times, one after the other, four child          *)
(* processes gen | filter | transform | sum connected by pipes, whose total  *)
(* the parent reads.  Its forerunner (pr_5/main.c) does so once, and sum     *)
(* prints to the terminal.  Who holds which end of which pipe decides when a *)
(* reader sees the end of file and when a writer is killed by SIGPIPE.       *)
(*                                                                           *)
(* The k-th number gen prints is <<k>>; a total is the sequence of the       *)
(* numbers it was made of.                                                   *)
EXTENDS Naturals, Sequences

CONSTANTS
    Programs,      \* the programs to check, from {"cv_5", "pr_5"}
    K,             \* argument K
    N,             \* argument N
    Kept,          \* the numbers that pass filter_mode
    Capacity,      \* numbers that fit in a pipe
    MaxFailures    \* bound: calls of pipe, fork and exec that fail

ASSUME PipelineAssumption ==
    /\ Programs \subseteq {"cv_5", "pr_5"}
    /\ K \in Nat \ {0} /\ N \in Nat /\ Kept \subseteq 1..N
    /\ Capacity \in Nat \ {0} /\ MaxFailures \in Nat

Stages == 0..3                    \* gen, filter, transform, sum
Children == (1..K) \X Stages
Main == <<0, 0>>

VARIABLES
    program,            \* which of the two is run; never changes
    pc, row, stage,     \* the parent: where it is, loop indexes i and j
    holds,              \* open pipe ends: <<process, pipe, "r" or "w">>
    content,            \* what is in each pipe
    prog,               \* the state of each child
    printed,            \* numbers gen has printed so far
    seen,               \* what sum has read
    out,                \* what a child has printed and not yet written
    result,             \* what the parent of cv_5 read in each row, what sum
                        \* of pr_5 printed
    failures, broken    \* calls that failed; children killed by SIGPIPE

parent == <<pc, row, stage>>
work == <<printed, seen, out>>
vars == <<program, parent, holds, content, prog, work, result, failures, broken>>

Rows == IF program = "cv_5" THEN K ELSE 1
PipeStages == IF program = "cv_5" THEN 0..3 ELSE 0..2
Pipes == (1..Rows) \X PipeStages         \* pipe <<i, j>> is written by stage j

Init ==
    /\ program \in Programs
    /\ pc = "pipe" /\ row = 1 /\ stage = 0
    /\ holds = {}
    /\ content = [q \in Pipes |-> <<>>]
    /\ prog = [c \in Children |-> "none"]
    /\ printed = [c \in Children |-> 0]
    /\ seen = [c \in Children |-> <<>>]
    /\ out = [c \in Children |-> <<>>]
    /\ result = [i \in 1..K |-> <<>>]
    /\ failures = 0 /\ broken = {}

Readers(q) == {p \in Children \cup {Main} : <<p, q, "r">> \in holds}
Writers(q) == {p \in Children \cup {Main} : <<p, q, "w">> \in holds}
EndsOf(p) == {e \in holds : e[1] = p}
MayFail == failures < MaxFailures /\ failures' = failures + 1

-----------------------------------------------------------------------------
(* The parent *)

(* die: the parent prints an error and exits; its pipe ends are closed. *)
Die ==
    /\ MayFail
    /\ pc' = "died"
    /\ holds' = holds \ EndsOf(Main)

MakePipes ==
    /\ pc = "pipe"
    /\ \/ /\ holds' = holds \cup ({Main} \X ({row} \X PipeStages) \X {"r", "w"})
          /\ pc' = "fork"
          /\ UNCHANGED failures
       \/ Die
    /\ UNCHANGED <<program, row, stage, content, prog, work, result, broken>>

(* The child inherits every end the parent has open. *)
Fork ==
    /\ pc = "fork"
    /\ LET c == <<row, stage>> IN
        \/ /\ prog' = [prog EXCEPT ![c] = "forked"]
           /\ holds' = holds \cup {<<c, e[2], e[3]>> : e \in EndsOf(Main)}
           /\ pc' = "close"
           /\ UNCHANGED failures
        \/ Die /\ UNCHANGED prog
    /\ UNCHANGED <<program, row, stage, content, work, result, broken>>

(* The parent closes the ends that the child just forked is to use.          *)
ChildEnds(c) ==
    {<<Main, c, "w">>}
    \cup (IF c[2] = 0 THEN {} ELSE {<<Main, <<c[1], c[2] - 1>>, "r">>})

CloseEnds ==
    /\ pc = "close"
    /\ holds' = holds \ ChildEnds(<<row, stage>>)
    /\ \/ stage < 3 /\ pc' = "fork" /\ stage' = stage + 1
       \/ stage = 3 /\ program = "cv_5" /\ pc' = "fdopen" /\ UNCHANGED stage
       \/ stage = 3 /\ program = "pr_5" /\ pc' = "wait" /\ stage' = 0
    /\ UNCHANGED <<program, row, content, prog, work, result, failures, broken>>

Result == <<row, 3>>

OpenTotals ==
    /\ pc = "fdopen"
    /\ \/ pc' = "read" /\ UNCHANGED <<holds, failures>>
       \/ Die
    /\ UNCHANGED <<program, row, stage, content, prog, work, result, broken>>

ReadTotal ==
    /\ pc = "read" /\ content[Result] # <<>>
    /\ result' = [result EXCEPT ![row] = Append(@, Head(content[Result]))]
    /\ content' = [content EXCEPT ![Result] = Tail(@)]
    /\ UNCHANGED <<program, parent, holds, prog, work, failures, broken>>

(* Faulty variants: an empty pipe is taken for the end of the file; fclose   *)
(* is missing.                                                               *)
EndOfTotalsEarly ==
    /\ pc = "read" /\ content[Result] = <<>>
    /\ holds' = holds \ {<<Main, Result, "r">>}
    /\ stage' = 0
    /\ IF row = K THEN pc' = "wait" /\ row' = 1
                  ELSE pc' = "pipe" /\ row' = row + 1
    /\ UNCHANGED <<program, content, prog, work, result, failures, broken>>

EndOfTotalsLeaks ==
    /\ pc = "read" /\ content[Result] = <<>> /\ Writers(Result) = {}
    /\ stage' = 0
    /\ IF row = K THEN pc' = "wait" /\ row' = 1
                  ELSE pc' = "pipe" /\ row' = row + 1
    /\ UNCHANGED <<program, holds, content, prog, work, result, failures, broken>>

(* End of file: fclose, then the next row, or the children are waited for.   *)
EndOfTotals ==
    /\ pc = "read" /\ content[Result] = <<>> /\ Writers(Result) = {}
    /\ holds' = holds \ {<<Main, Result, "r">>}
    /\ stage' = 0
    /\ IF row = K THEN pc' = "wait" /\ row' = 1
                  ELSE pc' = "pipe" /\ row' = row + 1
    /\ UNCHANGED <<program, content, prog, work, result, failures, broken>>

(* waitpid for every child, in the order in which they were forked. *)
Wait ==
    /\ pc = "wait" /\ prog[<<row, stage>>] = "exited"
    /\ prog' = [prog EXCEPT ![<<row, stage>>] = "reaped"]
    /\ \/ stage < 3 /\ stage' = stage + 1 /\ UNCHANGED <<pc, row>>
       \/ stage = 3 /\ row < Rows /\ stage' = 0 /\ row' = row + 1 /\ UNCHANGED pc
       \/ stage = 3 /\ row = Rows /\ pc' = "done" /\ UNCHANGED <<row, stage>>
    /\ UNCHANGED <<program, holds, content, work, result, failures, broken>>

Parent ==
    \/ MakePipes \/ Fork \/ CloseEnds \/ OpenTotals \/ ReadTotal \/ EndOfTotals
    \/ Wait

-----------------------------------------------------------------------------
(* The children *)

In(c) == <<c[1], c[2] - 1>>    \* the pipe a child reads
OwnEnds(c) ==
    {<<c, q, "w">> : q \in {c} \cap Pipes} \cup {<<c, q, "r">> : q \in {In(c)} \cap Pipes}

Exit(c) ==
    /\ prog' = [prog EXCEPT ![c] = "exited"]
    /\ holds' = holds \ EndsOf(c)

(* Faulty variant: the inherited ends stay open. *)
ExecKeepsEnds(c) ==
    /\ prog[c] = "forked"
    /\ \/ /\ prog' = [prog EXCEPT ![c] = "running"]
          /\ UNCHANGED <<program, holds, failures>>
       \/ MayFail /\ Exit(c)
    /\ UNCHANGED <<program, parent, content, work, result, broken>>

(* dup2 for stdin and stdout, close of all pipe ends, exec.  A dup2 that     *)
(* fails ends the child of pr_5.                                             *)
Exec(c) ==
    /\ prog[c] = "forked"
    /\ \/ /\ holds' = holds \ (EndsOf(c) \ OwnEnds(c))
          /\ prog' = [prog EXCEPT ![c] = "running"]
          /\ UNCHANGED failures
       \/ MayFail /\ Exit(c)
    /\ UNCHANGED <<program, parent, content, work, result, broken>>

(* gen prints the next number. *)
PrintNumber(c) ==
    /\ prog[c] = "running" /\ c[2] = 0 /\ printed[c] < N
    /\ printed' = [printed EXCEPT ![c] = @ + 1]
    /\ out' = [out EXCEPT ![c] = Append(@, <<printed[c] + 1>>)]
    /\ UNCHANGED <<program, parent, holds, content, prog, seen, result, failures, broken>>

(* scanf of the other programs: filter prints what passes, transform prints  *)
(* everything, sum only adds.                                                *)
Scan(c) ==
    /\ prog[c] = "running" /\ c[2] > 0 /\ content[In(c)] # <<>>
    /\ content' = [content EXCEPT ![In(c)] = Tail(@)]
    /\ LET x == Head(content[In(c)])
           passes == c[2] = 2 \/ (c[2] = 1 /\ x[1] \in Kept)
       IN /\ out' = IF passes THEN [out EXCEPT ![c] = Append(@, x)] ELSE out
          /\ seen' = IF c[2] = 3 THEN [seen EXCEPT ![c] = @ \o x] ELSE seen
    /\ UNCHANGED <<program, parent, holds, prog, printed, result, failures, broken>>

(* stdio writes what was printed when it likes to. *)
Flush(c) ==
    /\ prog[c] \in {"running", "ending"} /\ out[c] # <<>> /\ c \in Pipes
    /\ Readers(c) # {} /\ Len(content[c]) < Capacity
    /\ content' = [content EXCEPT ![c] = Append(@, Head(out[c]))]
    /\ out' = [out EXCEPT ![c] = Tail(@)]
    /\ UNCHANGED <<program, parent, holds, prog, printed, seen, result, failures, broken>>

(* sum of pr_5 writes to the terminal. *)
PrintTotal(c) ==
    /\ prog[c] = "ending" /\ out[c] # <<>> /\ c \notin Pipes
    /\ result' = [result EXCEPT ![c[1]] = @ \o out[c]]
    /\ out' = [out EXCEPT ![c] = <<>>]
    /\ UNCHANGED <<program, parent, holds, content, prog, printed, seen, failures, broken>>

(* A write nobody can read any more kills the child. *)
BrokenPipe(c) ==
    /\ prog[c] \in {"running", "ending"} /\ out[c] # <<>>
    /\ c \in Pipes /\ Readers(c) = {}
    /\ broken' = broken \cup {c}
    /\ Exit(c)
    /\ UNCHANGED <<program, parent, content, work, result, failures>>

(* gen has printed N numbers; the others see the end of file, sum prints.    *)
AtEnd(c) ==
    IF c[2] = 0 THEN printed[c] = N
    ELSE content[In(c)] = <<>> /\ Writers(In(c)) = {}

EndOfInput(c) ==
    /\ prog[c] = "running" /\ AtEnd(c)
    /\ prog' = [prog EXCEPT ![c] = "ending"]
    /\ out' = IF c[2] = 3 THEN [out EXCEPT ![c] = Append(@, seen[c])] ELSE out
    /\ UNCHANGED <<program, parent, holds, content, printed, seen, result, failures,
                   broken>>

Return(c) ==
    /\ prog[c] = "ending" /\ out[c] = <<>>
    /\ Exit(c)
    /\ UNCHANGED <<program, parent, content, work, result, failures, broken>>

Child(c) ==
    \/ Exec(c) \/ PrintNumber(c) \/ Scan(c) \/ Flush(c) \/ PrintTotal(c)
    \/ BrokenPipe(c) \/ EndOfInput(c) \/ Return(c)

Next == Parent \/ \E c \in Children : Child(c)

Spec == Init /\ [][Next]_vars

(* As long as some process can go on, one of them does. *)
LiveSpec == Spec /\ WF_vars(Next)

-----------------------------------------------------------------------------
(* Properties *)

(* The total of row i must be there: the parent of cv_5 has read it to its   *)
(* end, that of pr_5 has waited for sum.                                     *)
Collected(i) ==
    \/ program = "cv_5" /\ (pc \in {"wait", "done"} \/ (pc # "died" /\ row > i))
    \/ program = "pr_5" /\ pc = "done"

(* When nothing failed, the total of a row is one, made of every number that *)
(* passes the filter, once and in order, and is there before the parent goes *)
(* on: no reader takes a pause of its writer, or a process still to be       *)
(* forked, for the end of the file, and no writer is killed by SIGPIPE       *)
(* because its reader has not been forked yet.                               *)
Counts(total, numbers) ==
    /\ {total[k] : k \in DOMAIN total} = numbers
    /\ \A k, l \in DOMAIN total : k < l => total[k] < total[l]
RowTotal ==
    failures = 0 =>
        /\ broken = {}
        /\ \A i \in 1..Rows : Collected(i) =>
             Len(result[i]) = 1 /\ Counts(result[i][1], Kept)

(* The parent keeps no pipe end from one row to the next or while it waits,  *)
(* and children that run hold their own ends only: K rows need no more       *)
(* descriptors than one.                                                     *)
DescriptorsReturned ==
    /\ pc \in {"pipe", "wait", "done", "died"} => EndsOf(Main) = {}
    /\ \A c \in Children :
         /\ prog[c] \in {"running", "ending"} => EndsOf(c) \subseteq OwnEnds(c)
         /\ prog[c] \in {"exited", "reaped"} => EndsOf(c) = {}

(* Whatever pipe, fork or exec fails, and with pipes of any capacity, no     *)
(* process waits forever for data, room, the end of a file or a child.       *)
Finishes ==
    <>(/\ pc \in {"done", "died"}
       /\ \A c \in Children : prog[c] \in {"none", "exited", "reaped"})
=============================================================================
