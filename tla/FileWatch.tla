----------------------------- MODULE FileWatch -----------------------------
(* cv_3/mydiff.c: two files are compared once and then watched by polling    *)
(* stat, while other processes write to them.  A file is a sequence of       *)
(* lines; a line is one unit of size and is told from all others by the      *)
(* number of the write that made it.                                         *)
EXTENDS Naturals, Sequences, SequencesExt

CONSTANTS
    MaxWrites,   \* bound: writes to each file while it is watched
    Initial,     \* lines each file has at the start
    Habits       \* the writers there may be: what they do, and whether they
                 \* are calm, that is, act only while the program sleeps, and
                 \* at most once to each file between two polls

Changes == {"append", "truncate", "chmod", "remove"}

ASSUME FileWatchAssumption ==
    /\ MaxWrites \in Nat /\ Initial \in Nat
    /\ Habits \subseteq [does : SUBSET Changes, calm : BOOLEAN]

Files == {1, 2}

VARIABLES
    writer,                   \* the writers there are; it never changes
    cont, mode, exists,       \* the files on the disk
    writes, acted,            \* writes so far; did a writer act in this sleep
    pc,                       \* where the program is
    stSize, stMode,           \* what the last stat returned
    size, fmode, offset,      \* FileInfo
    compared,                 \* lines compare() read
    base,                     \* history: size of each file at the first stat
    out                       \* what was printed about each file

disk == <<writer, cont, mode, exists, writes, acted>>
info == <<size, fmode, offset>>
st == <<stSize, stMode>>
vars == <<disk, pc, st, info, compared, base, out>>

Init ==
    /\ writer \in Habits
    /\ cont = [f \in Files |-> [k \in 1..Initial |-> k]]
    /\ mode = [f \in Files |-> 0] /\ exists = [f \in Files |-> TRUE]
    /\ writes = [f \in Files |-> 0] /\ acted = [f \in Files |-> FALSE]
    /\ pc = "statFirst1"
    /\ stSize = [f \in Files |-> 0] /\ stMode = [f \in Files |-> 0]
    /\ size = [f \in Files |-> 0] /\ fmode = [f \in Files |-> 0]
    /\ offset = [f \in Files |-> 0]
    /\ compared = [f \in Files |-> {}] /\ base = [f \in Files |-> 0]
    /\ out = [f \in Files |-> <<>>]

-----------------------------------------------------------------------------
(* The writers: other processes, outside the repository. *)

MayWrite(f, what) ==
    /\ what \in writer.does /\ exists[f] /\ pc # "done"
    /\ writes[f] < MaxWrites
    /\ writer.calm => pc = "sleep" /\ ~acted[f]
    /\ writes' = [writes EXCEPT ![f] = @ + 1]
    /\ acted' = [acted EXCEPT ![f] = TRUE]
    /\ UNCHANGED <<writer, pc, st, info, compared, base, out>>

AppendLine(f) ==
    /\ MayWrite(f, "append")
    /\ cont' = [cont EXCEPT ![f] = Append(@, Initial + writes[f] + 1)]
    /\ UNCHANGED <<mode, exists>>

Truncate(f) ==
    /\ MayWrite(f, "truncate")
    /\ \E k \in 0..(Len(cont[f]) - 1) :
          cont' = [cont EXCEPT ![f] = SubSeq(@, 1, k)]
    /\ UNCHANGED <<mode, exists>>

Chmod(f) ==
    /\ MayWrite(f, "chmod")
    /\ mode' = [mode EXCEPT ![f] = 1 - @]
    /\ UNCHANGED <<cont, exists>>

RemoveFile(f) ==
    /\ MayWrite(f, "remove")
    /\ exists' = [exists EXCEPT ![f] = FALSE]
    /\ UNCHANGED <<cont, mode>>

Writer == \E f \in Files :
            AppendLine(f) \/ Truncate(f) \/ Chmod(f) \/ RemoveFile(f)

-----------------------------------------------------------------------------
(* The program *)

Stat(f) ==
    /\ stSize' = [stSize EXCEPT ![f] = Len(cont[f])]
    /\ stMode' = [stMode EXCEPT ![f] = mode[f]]

(* The first stat of each file; the program gives up when it fails. *)
StatFirst(f, next) ==
    /\ pc = (IF f = 1 THEN "statFirst1" ELSE "statFirst2")
    /\ IF exists[f] THEN Stat(f) /\ pc' = next
                    ELSE pc' = "done" /\ UNCHANGED st
    /\ UNCHANGED <<disk, info, compared, base, out>>

(* size, mode and offset are those of the first stat; compare() then reads   *)
(* both files to their end, which may lie further.                           *)
Compare ==
    /\ pc = "compare"
    /\ size' = stSize /\ fmode' = stMode /\ offset' = stSize /\ base' = stSize
    /\ compared' = [f \in Files |-> ToSet(cont[f])]
    /\ pc' = "sleep"
    /\ UNCHANGED <<disk, st, out>>

Wake ==
    /\ pc = "sleep"
    /\ pc' = "stat1"
    /\ acted' = [f \in Files |-> FALSE]
    /\ UNCHANGED <<writer, cont, mode, exists, writes, st, info, compared,
                   base, out>>

(* stat of the poll: a file that is gone ends the program. *)
StatPoll(f) ==
    /\ pc = (IF f = 1 THEN "stat1" ELSE "stat2")
    /\ IF exists[f]
       THEN /\ Stat(f)
            /\ pc' = (IF f = 1 THEN "stat2" ELSE "read1")
            /\ UNCHANGED out
       ELSE /\ out' = [out EXCEPT ![f] = Append(@, <<"gone", 0>>)]
            /\ pc' = "done"
            /\ UNCHANGED st
    /\ UNCHANGED <<disk, info, compared, base>>

Lines(s) == [k \in DOMAIN s |-> <<"line", s[k]>>]
Greater(a, b) == IF a > b THEN a ELSE b

(* Faulty variant: offset becomes the size that stat returned. *)
read_newStat(f) ==
    /\ out' = [out EXCEPT ![f] = @ \o
                 Lines(SubSeq(cont[f], offset[f] + 1, Len(cont[f])))]
    /\ offset' = [offset EXCEPT ![f] = stSize[f]]

(* read_new: from offset to the end of the file as it is now. *)
read_new(f) ==
    /\ out' = [out EXCEPT ![f] = @ \o
                 Lines(SubSeq(cont[f], offset[f] + 1, Len(cont[f])))]
    /\ offset' = [offset EXCEPT ![f] = Greater(@, Len(cont[f]))]

(* Faulty variant: file 1 is looked at twice. *)
ReadPollFirst(f) ==
    /\ pc = (IF f = 1 THEN "read1" ELSE "read2")
    /\ IF stSize[1] > size[1] THEN read_new(1) ELSE UNCHANGED <<out, offset>>
    /\ pc' = (IF f = 1 THEN "read2" ELSE "update")
    /\ UNCHANGED <<disk, st, size, fmode, compared, base>>

ReadPoll(f) ==
    /\ pc = (IF f = 1 THEN "read1" ELSE "read2")
    /\ IF stSize[f] > size[f] THEN read_new(f) ELSE UNCHANGED <<out, offset>>
    /\ pc' = (IF f = 1 THEN "read2" ELSE "update")
    /\ UNCHANGED <<disk, st, size, fmode, compared, base>>

(* What the last part of the round prints about file f. *)
Report(f) ==
    (IF stSize[f] < size[f] THEN <<<<"shrunk", stSize[f]>>>> ELSE <<>>)
    \o (IF stMode[f] # fmode[f] THEN <<<<"mode", stMode[f]>>>> ELSE <<>>)

(* Faulty variant: offset is not taken back when a file has shrunk. *)
UpdateKeepsOffset ==
    /\ pc = "update"
    /\ out' = [f \in Files |-> out[f] \o Report(f)]
    /\ size' = stSize /\ fmode' = stMode
    /\ pc' = "sleep"
    /\ UNCHANGED <<disk, st, offset, compared, base>>

(* Faulty variant: the new mode is not stored. *)
UpdateKeepsMode ==
    /\ pc = "update"
    /\ out' = [f \in Files |-> out[f] \o Report(f)]
    /\ offset' = [f \in Files |-> IF stSize[f] < size[f] THEN stSize[f]
                                  ELSE offset[f]]
    /\ size' = stSize
    /\ pc' = "sleep"
    /\ UNCHANGED <<disk, st, fmode, compared, base>>

Update ==
    /\ pc = "update"
    /\ out' = [f \in Files |-> out[f] \o Report(f)]
    /\ offset' = [f \in Files |-> IF stSize[f] < size[f] THEN stSize[f]
                                  ELSE offset[f]]
    /\ size' = stSize /\ fmode' = stMode
    /\ pc' = "sleep"
    /\ UNCHANGED <<disk, st, compared, base>>

Program ==
    \/ StatFirst(1, "statFirst2") \/ StatFirst(2, "compare") \/ Compare
    \/ Wake \/ Update
    \/ \E f \in Files : StatPoll(f) \/ ReadPoll(f)

Next == Program \/ Writer

Spec == Init /\ [][Next]_vars

(* The program runs; writers need not write. *)
LiveSpec == Spec /\ WF_vars(Program)

-----------------------------------------------------------------------------
(* Properties *)

(* The places of out[f] with a line, and how often it holds a given one.     *)
Printed(f) == {i \in DOMAIN out[f] : out[f][i][1] = "line"}
Times(f, line) == Cardinality({i \in DOMAIN out[f] : out[f][i] = <<"line", line>>})

(* While files only grow, at any moment of a round: what was printed are the *)
(* lines between the size of the first stat and offset, in the order of the  *)
(* file (in which later lines have higher numbers) and each once; those      *)
(* before it were compared.  A line that arrives between stat and read_new   *)
(* is not printed by the next poll again, and one is shown twice, by         *)
(* compare() and once more, only if it came after the first stat.            *)
PrintedOnce ==
    "truncate" \notin writer.does => \A f \in Files :
        /\ base[f] <= offset[f] /\ offset[f] <= Len(cont[f])
        /\ \A i, j \in Printed(f) : i < j => out[f][i][2] < out[f][j][2]
        /\ \A k \in 1..base[f] : cont[f][k] \in compared[f]
        /\ {out[f][i][2] : i \in Printed(f)} = {cont[f][k] : k \in (base[f] + 1)..offset[f]}

(* When each writer leaves the program time for a round, every line that is  *)
(* in a file when the program goes to sleep was compared or printed once,    *)
(* across truncations and whatever happens to the other file.                *)
LinesShown ==
    writer.calm /\ pc = "sleep" => \A f \in Files : ~acted[f] =>
        \A k \in DOMAIN cont[f] :
            cont[f][k] \notin compared[f] => Times(f, cont[f][k]) = 1

(* With such writers, too, the program knows the file after a round: nothing *)
(* it will print later is old, and the next round notices a truncation or    *)
(* chmod since.                                                              *)
Settled ==
    writer.calm /\ pc = "sleep" => \A f \in Files : exists[f] /\ ~acted[f] =>
        /\ size[f] = Len(cont[f]) /\ offset[f] = size[f]
        /\ fmode[f] = mode[f]

(* While files only grow, a line written while the program watches is        *)
(* printed sooner or later, unless a file is gone.                           *)
EveryLinePrinted ==
    "truncate" \notin writer.does =>
        \A f \in Files : \A l \in (Initial + 1)..(Initial + MaxWrites) :
            (l \in ToSet(cont[f]))
                ~> (Times(f, l) > 0 \/ l \in compared[f] \/ pc = "done")
=============================================================================
