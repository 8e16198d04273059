---------------------------- MODULE ThreadBuffer ----------------------------
(* The producer-consumer server of pr_8/main.cpp: the buffer and semaphores  *)
(* of SemBuffer, shared by the threads of one process.  There is no prompt;  *)
(* a consumer whose write fails is left; and SIGPIPE, which ends one child   *)
(* of pr_9, ends all threads at once.  producer and consumer are Produce and *)
(* Consume of SemBuffer, in and out its head and tail.                       *)
EXTENDS SemBuffer

CONSTANT Blank    \* the empty lines, of which write writes 0 bytes

ASSUME ThreadBufferAssumption == Blank \subseteq Line

(* main: accept the client and create its thread. *)
StartThread(h) ==
    /\ At(h, "absent")
    /\ Goto(h, "role")
    /\ UNCHANGED <<shm, sems, line, net>>

(* To a client that is gone a write succeeds until the RST has arrived.      *)
StillUnnoticed(h) ==
    conn' \in {[conn EXCEPT ![h] = c] :
                  c \in IF conn[h] = "closed" THEN {"closed", "reset"}
                                              ELSE {conn[h]}}

(* The producer loop ignores the result of the write. *)
AnswerOK(h) ==
    /\ At(h, "writeOK")
    /\ Goto(h, "readLine")
    /\ StillUnnoticed(h)
    /\ UNCHANGED <<shm, sems, line, dead, nread, delivered, lost>>

(* The consumer loop: the line is written, to the client or to nobody.       *)
SendLine(h) ==
    /\ At(h, "writeLine") /\ line[h] \notin Blank
    /\ conn[h] # "reset"
    /\ Goto(h, "waitFull")
    /\ StillUnnoticed(h)
    /\ \/ /\ conn[h] = "open"
          /\ delivered' = [delivered EXCEPT ![h] = Append(@, line[h])]
          /\ UNCHANGED lost
       \/ /\ conn[h] # "open"
          /\ lost' = lost \cup {line[h]}
          /\ UNCHANGED delivered
    /\ UNCHANGED <<shm, sems, line, dead, nread>>

(* write returned -1 after the RST, or 0 for an empty line: break, close.    *)
LeaveConsumer(h) ==
    /\ At(h, "writeLine")
    /\ conn[h] = "reset" \/ line[h] \in Blank
    /\ Goto(h, "exited")
    /\ lost' = lost \cup {line[h]}
    /\ UNCHANGED <<shm, sems, line, conn, dead, nread, delivered>>

(* A write after the RST raises SIGPIPE, which ends the process.             *)
Sigpipe(h) ==
    /\ At(h, "writeOK") \/ At(h, "writeLine")
    /\ conn[h] = "reset"
    /\ dead' = Handlers
    /\ UNCHANGED <<shm, sems, pc, line, conn, nread, delivered, lost>>

client_handler(h) ==
    \/ StartThread(h) \/ ReadRole(h)
    \/ ReadLine(h) \/ Produce(h) \/ AnswerOK(h)
    \/ Consume(h) \/ SendLine(h) \/ LeaveConsumer(h)
    \/ Sigpipe(h)

ThreadNext == \E h \in Handlers : client_handler(h) \/ ClientClose(h)

ThreadSpec == Init /\ [][ThreadNext]_vars
=============================================================================
