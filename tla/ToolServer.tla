----------------------------- MODULE ToolServer -----------------------------
(* Two servers that fork a child per client, which in turn runs a program    *)
(* for each request: the hash server cv_6, whose child runs sha1sum and then *)
(* file and answers with what both wrote to a pipe, and the resize server    *)
(* pr_6/solutionReserve, whose child lets convert write an image straight to *)
(* the socket.  Their clients are the two socket_cl.cpp.                     *)
(*                                                                           *)
(* A request is what one read of the child returns: the names the client has *)
(* written since the last one, which are sent without a delimiter.           *)
EXTENDS Naturals, SequencesExt

CONSTANTS
    Programs,      \* the programs to check, from {"hash", "resize"}
    Clients,       \* clients, each connecting once
    Names,         \* file names each client sends to the hash server
    Kinds,         \* what names stand for, see below
    Resolutions,   \* what the clients of the resize server ask for
    Pieces,        \* writes in which convert delivers an image
    MaxFailures    \* bound: calls of pipe, fork and exec that fail, and tools
                   \* that die, for each client

(* The k-th name is <<k, kind>>.  It is that of a file or of none; "dash" is *)
(* "-", which makes sha1sum read its standard input; "close" is a name that  *)
(* begins with that word.  A resolution is one for which convert writes the  *)
(* image ("size"), one it rejects, or that finds no babi-leto.png            *)
(* ("refused"), the empty text, or "close".                                  *)
ASSUME ToolServerAssumption ==
    /\ Programs \subseteq {"hash", "resize"}
    /\ IsFiniteSet(Clients) /\ Names \in [Clients -> Nat]
    /\ Kinds \subseteq {"file", "missing", "dash", "close"}
    /\ Resolutions \subseteq {"size", "refused", "empty", "close"}
    /\ Pieces \in Nat /\ MaxFailures \in Nat

VARIABLES
    program,       \* which of the two is run; never changes
    parent,        \* the parent: "loop" or "done"
    backlog,       \* connections not accepted yet, oldest first
    holds,         \* <<process, c>>: the process has the socket to c open
    srv,           \* the child of each client
    tool,          \* the process that the child has forked, and its pipe
    cl,            \* the clients
    net,           \* what is under way on each connection
    failures       \* the failed calls of each client

vars == <<program, parent, backlog, holds, srv, tool, cl, net, failures>>

Parent == <<"parent">>
Child(c) == <<"child", c>>
Tool(c) == <<"tool", c>>

(* Texts of a buffer: what nobody wrote, the output <<stage, request>> of a  *)
(* tool, or <<stage, request, "cut">>, what is left of it before a space.    *)
Junk == <<0>>
FirstWord(text) == IF Len(text) = 2 THEN <<text[1], text[2], "cut">> ELSE text

Init ==
    /\ program \in Programs
    /\ parent = "loop" /\ backlog = <<>> /\ holds = {}
    /\ srv = [c \in Clients |->
                [at |-> "none", stage |-> 1, request |-> <<>>, buf |-> Junk,
                 word |-> Junk, ends |-> 0]]
    /\ tool = [c \in Clients |-> [at |-> "none", pipe |-> <<>>, wrote |-> 0]]
    /\ cl = [c \in Clients |-> [at |-> "start", sent |-> 0, got |-> <<>>]]
    /\ net = [c \in Clients |-> [up |-> <<>>, down |-> <<>>]]
    /\ failures = [c \in Clients |-> 0]

Ended == {"exited", "reaped", "refused"}
Zombies == {c \in Clients : srv[c].at = "exited"}
MayFail(c) ==
    failures[c] < MaxFailures /\ failures' = [failures EXCEPT ![c] = @ + 1]

-----------------------------------------------------------------------------
(* The parent *)

(* accept and fork; the parent closes its copy of the socket and reaps one   *)
(* child, if there is one to reap.                                           *)
Accept ==
    /\ parent = "loop" /\ backlog # <<>>
    /\ backlog' = Tail(backlog)
    /\ LET c == Head(backlog) IN
        \/ \E z \in IF Zombies = {} THEN {c} ELSE Zombies :
             /\ srv' = [[srv EXCEPT ![z].at = "reaped"] EXCEPT ![c].at = "poll"]
             /\ holds' = holds \cup
                  {<<Child(c), d>> : d \in {c} \cup {e \in Clients : <<Parent, e>> \in holds}}
             /\ UNCHANGED failures
        \/ /\ MayFail(c)
           /\ srv' = [srv EXCEPT ![c].at = "refused"]
           /\ UNCHANGED holds
    /\ UNCHANGED <<program, parent, tool, cl, net>>

(* "quit", or the end of the keyboard in the resize server.  Connections not *)
(* accepted are reset; init reaps the zombies.                               *)
Quit ==
    /\ parent = "loop" /\ parent' = "done"
    /\ cl' = [c \in Clients |-> IF c \in ToSet(backlog)
                                THEN [cl[c] EXCEPT !.at = "closed"] ELSE cl[c]]
    /\ backlog' = <<>>
    /\ srv' = [c \in Clients |-> IF c \in Zombies
                                 THEN [srv[c] EXCEPT !.at = "reaped"] ELSE srv[c]]
    /\ UNCHANGED <<program, holds, tool, net, failures>>

-----------------------------------------------------------------------------
(* The child: handle_client *)

(* A read returns any number of the names that wait; a client that has left  *)
(* with an answer unread resets the connection.                              *)
Read(c) ==
    /\ srv[c].at = "poll"
    /\ \E k \in 1..Len(net[c].up) :
        LET request == SubSeq(net[c].up, 1, k) IN
          /\ net' = [net EXCEPT ![c].up = SubSeq(@, k + 1, Len(@))]
          /\ srv' = [srv EXCEPT ![c].request = request, ![c].stage = 1,
                       ![c].at = IF request[1][2] = "close" THEN "close" ELSE "start"]
    /\ UNCHANGED <<program, parent, backlog, holds, tool, cl, failures>>

EndOfStream(c) ==
    /\ srv[c].at = "poll" /\ cl[c].at = "closed"
    /\ net[c].up = <<>> \/ net[c].down # <<>>
    /\ srv' = [srv EXCEPT ![c].at = "close"]
    /\ UNCHANGED <<program, parent, backlog, holds, tool, cl, net, failures>>

(* The child ends, of itself or by a signal. *)
Exit(c) ==
    /\ srv' = [srv EXCEPT ![c].at = IF parent = "done" THEN "reaped" ELSE "exited",
                          ![c].ends = 0]
    /\ holds' = {h \in holds : h[1] # Child(c)}

(* close with names unread resets the connection: answers may be lost. *)
Close(c) ==
    /\ srv[c].at = "close"
    /\ Exit(c)
    /\ net' \in {net} \cup
         (IF net[c].up # <<>> THEN {[net EXCEPT ![c].down = <<>>]} ELSE {})
    /\ UNCHANGED <<program, parent, backlog, tool, cl, failures>>

-----------------------------------------------------------------------------
(* process_batch of the hash server: stage 1 is sha1sum, stage 2 is file     *)

(* Faulty variant: the ends stay open when fork fails. *)
StartHashLeaks(c) ==
    /\ program = "hash" /\ srv[c].at = "start"
    /\ \/ /\ tool' = [tool EXCEPT ![c] = [at |-> "running", pipe |-> <<>>, wrote |-> 0]]
          /\ srv' = [srv EXCEPT ![c].at = "read", ![c].ends = 1]
          /\ UNCHANGED failures
       \/ /\ MayFail(c)
          /\ srv' = [srv EXCEPT ![c].at = "poll", ![c].ends = 2]
          /\ UNCHANGED tool
    /\ UNCHANGED <<program, parent, backlog, holds, cl, net>>

(* pipe and fork.  The child keeps the read end, its process the write end   *)
(* and no socket; when a call fails the request gets no answer.              *)
StartHash(c) ==
    /\ program = "hash" /\ srv[c].at = "start"
    /\ \/ /\ tool' = [tool EXCEPT ![c] = [at |-> "running", pipe |-> <<>>, wrote |-> 0]]
          /\ srv' = [srv EXCEPT ![c].at = "read", ![c].ends = 1]
          /\ UNCHANGED failures
       \/ /\ MayFail(c)
          /\ srv' = [srv EXCEPT ![c].at = "poll"]
          /\ UNCHANGED tool
    /\ UNCHANGED <<program, parent, backlog, holds, cl, net>>

(* Requests that are one name alone; names that were read together are the   *)
(* name of nothing.                                                          *)
Is(kind, request) == Len(request) = 1 /\ request[1][2] = kind

(* sha1sum writes a line for a file that exists and nothing otherwise, file  *)
(* always writes one; an exec that fails writes nothing.  With "-" sha1sum   *)
(* waits for the end of the pipe it holds open itself.                       *)
RunHash(c) ==
    /\ program = "hash" /\ tool[c].at = "running"
    /\ \/ /\ ~(srv[c].stage = 1 /\ Is("dash", srv[c].request))
          /\ tool' = [tool EXCEPT ![c].at = "exited",
                        ![c].pipe = IF srv[c].stage = 2 \/ Is("file", srv[c].request)
                                    THEN <<srv[c].stage, srv[c].request>> ELSE <<>>]
          /\ UNCHANGED failures
       \/ /\ MayFail(c)
          /\ tool' = [tool EXCEPT ![c].at = "exited"]
    /\ UNCHANGED <<program, parent, backlog, holds, srv, cl, net>>

(* Faulty variant: the write end stays open in the child, so that a process *)
(* that writes nothing leaves it waiting.                                    *)
ReadHashNoEOF(c) ==
    /\ srv[c].at = "read" /\ tool[c].pipe # <<>>
    /\ srv' = [srv EXCEPT ![c].at = "wait", ![c].ends = 0, ![c].buf = tool[c].pipe]
    /\ UNCHANGED <<program, parent, backlog, holds, tool, cl, net, failures>>

(* read of the pipe.  At its end nothing is stored: buf is what it was in    *)
(* this call or an earlier one, or what else was on the stack.               *)
ReadHash(c) ==
    /\ srv[c].at = "read" /\ tool[c].at = "exited"
    /\ \E text \in IF tool[c].pipe # <<>> THEN {tool[c].pipe}
                   ELSE IF srv[c].stage = 1 THEN {srv[c].buf, Junk}
                   ELSE {srv[c].buf} :
         srv' = [srv EXCEPT ![c].at = "wait", ![c].ends = 0, ![c].buf = text]
    /\ UNCHANGED <<program, parent, backlog, holds, tool, cl, net, failures>>

(* Faulty variant: the word of an earlier request is kept. *)
EndSumKeepsWord(c) ==
    /\ program = "hash" /\ srv[c].at = "wait" /\ srv[c].stage = 1
    /\ tool' = [tool EXCEPT ![c].at = "none"]
    /\ srv' = [srv EXCEPT ![c].at = "start", ![c].stage = 2, ![c].buf = FirstWord(@)]
    /\ UNCHANGED <<program, parent, backlog, holds, cl, net, failures>>

(* waitpid; the first word of the output is kept for the answer, and all     *)
(* that the buffer holds.                                                    *)
EndSum(c) ==
    /\ program = "hash" /\ srv[c].at = "wait" /\ srv[c].stage = 1
    /\ tool' = [tool EXCEPT ![c].at = "none"]
    /\ srv' = [srv EXCEPT ![c].at = "start", ![c].stage = 2,
                          ![c].word = FirstWord(srv[c].buf), ![c].buf = FirstWord(@)]
    /\ UNCHANGED <<program, parent, backlog, holds, cl, net, failures>>

(* The answer is the word and all that file wrote behind its first space.  A *)
(* buffer that was cut there, as file wrote nothing, makes strchr return     *)
(* NULL, which ends the child, as may a write to a client that has left.     *)
EndFile(c) ==
    /\ program = "hash" /\ srv[c].at = "wait" /\ srv[c].stage = 2
    /\ tool' = [tool EXCEPT ![c].at = "none"]
    /\ \/ /\ Len(srv[c].buf) = 2
          /\ srv' = [srv EXCEPT ![c].at = "poll"]
          /\ net' = [net EXCEPT ![c].down =
                       Append(@, [hash |-> srv[c].word, type |-> srv[c].buf])]
          /\ UNCHANGED holds
       \/ /\ Len(srv[c].buf) # 2 \/ cl[c].at = "closed"
          /\ Exit(c)
          /\ UNCHANGED net
    /\ UNCHANGED <<program, parent, backlog, cl, failures>>

-----------------------------------------------------------------------------
(* process_resize *)

(* An empty resolution, like a fork that fails, gets no convert and no word: *)
(* the child polls again, and the client reads on.                           *)
StartConvert(c) ==
    /\ program = "resize" /\ srv[c].at = "start"
    /\ \/ /\ srv[c].request[1][2] = "empty"
          /\ srv' = [srv EXCEPT ![c].at = "poll"]
          /\ UNCHANGED <<tool, holds, failures>>
       \/ /\ srv[c].request[1][2] # "empty"
          /\ tool' = [tool EXCEPT ![c].at = "running"]
          /\ holds' = holds \cup {<<Tool(c), c>>}
          /\ srv' = [srv EXCEPT ![c].at = "wait"]
          /\ UNCHANGED failures
       \/ /\ srv[c].request[1][2] # "empty" /\ MayFail(c)
          /\ srv' = [srv EXCEPT ![c].at = "poll"]
          /\ UNCHANGED <<tool, holds>>
    /\ UNCHANGED <<program, parent, backlog, cl, net>>

Output(c) == IF Is("size", srv[c].request) THEN Pieces ELSE 0

(* convert writes the image in pieces, if any, then ends; it ends early when *)
(* exec fails, when it dies, or when the client has left.                    *)
RunConvert(c) ==
    /\ program = "resize" /\ tool[c].at = "running"
    /\ \/ /\ tool[c].wrote < Output(c)
          /\ tool' = [tool EXCEPT ![c].wrote = @ + 1]
          /\ net' = [net EXCEPT ![c].down = Append(@, tool[c].wrote + 1)]
          /\ UNCHANGED <<holds, failures>>
       \/ /\ \/ tool[c].wrote = Output(c) /\ UNCHANGED failures
             \/ cl[c].at = "closed" /\ UNCHANGED failures
             \/ MayFail(c)
          /\ tool' = [tool EXCEPT ![c].at = "exited"]
          /\ holds' = holds \ {<<Tool(c), c>>}
          /\ UNCHANGED net
    /\ UNCHANGED <<program, parent, backlog, srv, cl>>

(* Faulty variant: the socket is left to exit(), which is not reached. *)
EndConvertNoClose(c) ==
    /\ program = "resize" /\ srv[c].at = "wait" /\ tool[c].at = "exited"
    /\ tool' = [tool EXCEPT ![c].at = "none"]
    /\ srv' = [srv EXCEPT ![c].at = "poll"]
    /\ UNCHANGED <<program, parent, backlog, holds, cl, net, failures>>

(* waitpid and close.  handle_client goes on to poll the closed descriptor:  *)
(* POLLNVAL at once, without POLLIN, for ever ("spin").                      *)
EndConvert(c) ==
    /\ program = "resize" /\ srv[c].at = "wait" /\ tool[c].at = "exited"
    /\ tool' = [tool EXCEPT ![c].at = "none"]
    /\ holds' = holds \ {<<Child(c), c>>}
    /\ srv' = [srv EXCEPT ![c].at = "spin"]
    /\ UNCHANGED <<program, parent, backlog, cl, net, failures>>

-----------------------------------------------------------------------------
(* The clients *)

Connect(c) ==
    /\ cl[c].at = "start" /\ parent = "loop"
    /\ cl' = [cl EXCEPT ![c].at = "open"]
    /\ backlog' = Append(backlog, c)
    /\ UNCHANGED <<program, parent, holds, srv, tool, net, failures>>

(* The client of the hash server sends its next name after 200 ms without an *)
(* event.                                                                    *)
SendName(c) ==
    /\ program = "hash" /\ cl[c].at = "open"
    /\ cl[c].sent < Names[c] /\ net[c].down = <<>>
    /\ \E kind \in Kinds :
         net' = [net EXCEPT ![c].up = Append(@, <<cl[c].sent + 1, kind>>)]
    /\ cl' = [cl EXCEPT ![c].sent = @ + 1]
    /\ UNCHANGED <<program, parent, backlog, holds, srv, tool, failures>>

(* That of the resize server sends its one line at once, whatever it was     *)
(* given as the resolution.                                                  *)
SendResolution(c) ==
    /\ program = "resize" /\ cl[c].at = "open" /\ cl[c].sent = 0
    /\ \E kind \in Resolutions : net' = [net EXCEPT ![c].up = Append(@, <<1, kind>>)]
    /\ cl' = [cl EXCEPT ![c].sent = 1]
    /\ UNCHANGED <<program, parent, backlog, holds, srv, tool, failures>>

(* Faulty variant: the client reads once instead of to the end. *)
ReceiveOnce(c) ==
    /\ cl[c].at = "open" /\ net[c].down # <<>>
    /\ cl' = [cl EXCEPT ![c].got = @ \o net[c].down, ![c].at = "done"]
    /\ net' = [net EXCEPT ![c].down = <<>>]
    /\ UNCHANGED <<program, parent, backlog, holds, srv, tool, failures>>

Receive(c) ==
    /\ cl[c].at = "open" /\ net[c].down # <<>>
    /\ cl' = [cl EXCEPT ![c].got = @ \o net[c].down]
    /\ net' = [net EXCEPT ![c].down = <<>>]
    /\ UNCHANGED <<program, parent, backlog, holds, srv, tool, failures>>

(* The end of the stream: no process has the other side open any more. *)
ServerGone(c) ==
    /\ cl[c].at = "open" /\ net[c].down = <<>> /\ c \notin ToSet(backlog)
    /\ \A h \in holds : h[2] # c
    /\ cl' = [cl EXCEPT ![c].at = "done"]
    /\ UNCHANGED <<program, parent, backlog, holds, srv, tool, net, failures>>

(* "close", the end of the keyboard, or a signal. *)
Leave(c) ==
    /\ cl[c].at = "open"
    /\ cl' = [cl EXCEPT ![c].at = "closed"]
    /\ UNCHANGED <<program, parent, backlog, holds, srv, tool, net, failures>>

-----------------------------------------------------------------------------
ParentStep == Accept \/ Quit
HashStep(c) == StartHash(c) \/ ReadHash(c) \/ EndSum(c) \/ EndFile(c)
ChildStep(c) ==
    \/ Read(c) \/ EndOfStream(c) \/ Close(c) \/ HashStep(c)
    \/ StartConvert(c) \/ EndConvert(c)
ToolStep(c) == RunHash(c) \/ RunConvert(c)
ClientStep(c) ==
    SendName(c) \/ SendResolution(c) \/ Receive(c) \/ ServerGone(c)

Next ==
    \/ ParentStep
    \/ \E c \in Clients :
         ChildStep(c) \/ ToolStep(c) \/ Connect(c) \/ ClientStep(c) \/ Leave(c)

Spec == Init /\ [][Next]_vars

(* Processes run and the programs they start end; nobody has to connect,     *)
(* leave or quit.                                                            *)
LiveSpec ==
    /\ Spec /\ WF_vars(Accept)
    /\ \A c \in Clients : /\ WF_vars(ChildStep(c)) /\ WF_vars(ToolStep(c))
                          /\ WF_vars(ClientStep(c))

-----------------------------------------------------------------------------
(* Properties *)

Answers(c) == cl[c].got \o net[c].down

(* Hash server: what an answer calls the type is of a request that came      *)
(* after those answered before, whatever failed.  While no call fails for    *)
(* the client, the hash is that of the one file it asked for, and where      *)
(* there is no such file, or names were read together, sha1sum writes        *)
(* nothing and what stayed in the buffer from an earlier call, which then    *)
(* gets into the answer, is never the hash of another file.                  *)
AnswerOfOneFile ==
    program = "hash" =>
        \A c \in Clients : \A i \in DOMAIN Answers(c) :
            LET request == Answers(c)[i].type[2]
                hash == Answers(c)[i].hash
            IN  /\ Answers(c)[i].type[1] = 2
                /\ \A j \in 1..i - 1 : Answers(c)[j].type[2][1][1] < request[1][1]
                /\ failures[c] = 0 =>
                      IF Is("file", request) THEN hash = <<1, request, "cut">>
                      ELSE hash[1] # 1

(* Hash server: between two requests a child has no pipe open, whatever      *)
(* failed while it worked on the last one.                                   *)
PipesReturned ==
    \A c \in Clients : srv[c].at \in {"poll", "close"} => srv[c].ends = 0

(* Hash server: each request comes to its end, also when sha1sum or file     *)
(* writes nothing, cannot be started, or the client leaves meanwhile.        *)
EveryRequestEnds ==
    \A c \in Clients :
        (program = "hash" /\ srv[c].at \in {"start", "read", "wait"}
                          /\ ~Is("dash", srv[c].request))
            ~> (srv[c].at \in {"poll"} \cup Ended)

(* Resize server: a client that saw the end of the stream has every piece    *)
(* convert wrote for it, once and in order.  That is the whole image if it   *)
(* asked for a size, unless a call failed or convert died for this very      *)
(* client; what befalls others never costs it a piece.                       *)
ImageWhole ==
    program = "resize" =>
        \A c \in Clients : cl[c].at = "done" =>
            /\ cl[c].got = [i \in 1..tool[c].wrote |-> i]
            /\ \/ tool[c].wrote = Pieces
               \/ tool[c].wrote = 0 /\ srv[c].request \in {<<<<1, "refused">>>>, <<<<1, "close">>>>}
               \/ failures[c] > 0

(* The child has read a resolution and polls again without a convert: it was *)
(* empty, or the fork of this client failed.                                 *)
Stranded(c) ==
    /\ srv[c].at = "poll" /\ srv[c].request # <<>>
    /\ srv[c].request = <<<<1, "empty">>>> \/ failures[c] > 0

(* Resize server: a client sees the end of the stream, with an image or      *)
(* without, as nobody but its child and convert has its socket open; it      *)
(* waits for ever in two cases only, when its resolution is empty or the     *)
(* fork of its own convert fails, and never because of what failed for       *)
(* another client.                                                           *)
ImageArrives ==
    \A c \in Clients :
        (program = "resize" /\ cl[c].at = "open")
            ~> (cl[c].at \in {"done", "closed"} \/ Stranded(c))

(* "handle_client exits on its own" (pr_6/solutionReserve/socket_srv.cpp,    *)
(* line 413).                                                                *)
HandlerExits ==
    \A c \in Clients :
        (program = "resize" /\ cl[c].at \in {"done", "closed"} /\ srv[c].at # "none")
            ~> (srv[c].at \in Ended)
=============================================================================
