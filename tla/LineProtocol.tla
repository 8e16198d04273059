---------------------------- MODULE LineProtocol ----------------------------
(* How one producer client (pr_9/client.cpp) and its child of the server     *)
(* (pr_9/main.cpp) cut the two byte streams of their connection into lines   *)
(* and acknowledgements.                                                     *)
(*                                                                           *)
(* A line is a sequence of chunks <<n, 1>> .. <<n, LineChunks>>; only the    *)
(* last one holds the terminating NUL.  A write arrives whole, a read takes  *)
(* what is there up to the size of its buffer: TCP keeps no boundaries.      *)
EXTENDS Naturals, Sequences, FiniteSets

CONSTANTS
    MaxLines,     \* bound: lines in the client's file
    LineChunks,   \* chunks of one line
    LineRoom,     \* chunks that fit in line[STRING_LENGTH]
    RoleRoom,     \* chunks that fit in role[] behind the role itself
    PromptRest,   \* bytes of the prompt the client's first read leaves behind
    OkRoom        \* bytes that fit in ok[]

ASSUME LineProtocolAssumption ==
    /\ MaxLines \in Nat /\ LineChunks \in Nat \ {0}
    /\ LineRoom \in Nat /\ LineRoom >= LineChunks
    /\ RoleRoom \in Nat /\ PromptRest \in 0..1
    /\ OkRoom \in Nat /\ OkRoom >= 3      \* ok[] takes a whole "OK\n"

LineText(n) == [k \in 1..LineChunks |-> <<n, k>>]
EndsLine(chunk) == chunk[2] = LineChunks
Role == <<0, 0>>
OK == <<"O", "K", "newline">>

VARIABLES
    pcClient, sent,    \* the client: where it is, lines it wrote
    wire, inbox,       \* writes under way to the server, chunks it can read
    pcServer, line,    \* the child: where it is, its line buffer
    produced,          \* the items it put in the shared buffer, in order
    answers            \* bytes the client can read

protocolVars == <<pcClient, sent, wire, inbox, pcServer, line, produced, answers>>

ProtocolInit ==
    /\ pcClient = "role" /\ sent = 0
    /\ wire = <<>> /\ inbox = <<>>
    /\ pcServer = "role" /\ line = <<>>
    /\ produced = <<>>
    /\ answers = [b \in 1..PromptRest |-> "newline"]

Least(a, b) == IF a < b THEN a ELSE b
Start(s, n) == SubSeq(s, 1, n)
Rest(s, n) == SubSeq(s, n + 1, Len(s))

-----------------------------------------------------------------------------
(* The client: producer() of pr_9/client.cpp *)

WriteRole ==
    /\ pcClient = "role"
    /\ wire' = Append(wire, <<Role>>)
    /\ pcClient' = "fgets"
    /\ UNCHANGED <<sent, inbox, pcServer, line, produced, answers>>

WriteLine ==
    /\ pcClient = "fgets" /\ sent < MaxLines
    /\ wire' = Append(wire, LineText(sent + 1))
    /\ sent' = sent + 1
    /\ pcClient' = "ok"
    /\ UNCHANGED <<inbox, pcServer, line, produced, answers>>

(* Faulty variant: the answer is read one byte at a time. *)
ReadOKByte ==
    /\ pcClient = "ok" /\ answers # <<>>
    /\ answers' = Rest(answers, 1)
    /\ pcClient' = "fgets"
    /\ UNCHANGED <<sent, wire, inbox, pcServer, line, produced>>

(* Any bytes at all count as the acknowledgement of the line just sent. *)
ReadOK ==
    /\ pcClient = "ok" /\ answers # <<>>
    /\ answers' = Rest(answers, Least(OkRoom, Len(answers)))
    /\ pcClient' = "fgets"
    /\ UNCHANGED <<sent, wire, inbox, pcServer, line, produced>>

CloseSocket ==
    /\ pcClient = "fgets" /\ sent = MaxLines
    /\ pcClient' = "closed"
    /\ UNCHANGED <<sent, wire, inbox, pcServer, line, produced, answers>>

Client == WriteRole \/ WriteLine \/ ReadOK \/ CloseSocket

-----------------------------------------------------------------------------
(* The network *)
Arrive ==
    /\ wire # <<>>
    /\ inbox' = inbox \o Head(wire)
    /\ wire' = Tail(wire)
    /\ UNCHANGED <<pcClient, sent, pcServer, line, produced, answers>>

-----------------------------------------------------------------------------
(* The child: handle_client() of pr_9/main.cpp *)

(* role[16] has room for more than the role: the beginning of the first line *)
(* is read with it and never looked at again.                                *)
ReadRole ==
    /\ pcServer = "role" /\ inbox # <<>>
    /\ inbox' = Rest(inbox, Least(1 + RoleRoom, Len(inbox)))
    /\ pcServer' = "read"
    /\ UNCHANGED <<pcClient, sent, wire, line, produced, answers>>

(* Faulty variant: bytes are looked at without being consumed (MSG_PEEK). *)
ReadLinesPeek ==
    /\ pcServer = "read" /\ inbox # <<>>
    /\ LET n == Least(LineRoom, Len(inbox)) IN
        line' = Start(inbox, n) \o Rest(line, n)
    /\ pcServer' = "produce"
    /\ UNCHANGED <<pcClient, sent, wire, inbox, produced, answers>>

(* The bytes read go to the start of the buffer, what lay behind them stays. *)
ReadLines ==
    /\ pcServer = "read" /\ inbox # <<>>
    /\ LET n == Least(LineRoom, Len(inbox)) IN
        /\ line' = Start(inbox, n) \o Rest(line, n)
        /\ inbox' = Rest(inbox, n)
    /\ pcServer' = "produce"
    /\ UNCHANGED <<pcClient, sent, wire, produced, answers>>

EndOfStream ==
    /\ pcServer = "read" /\ inbox = <<>> /\ wire = <<>> /\ pcClient = "closed"
    /\ pcServer' = "exited"
    /\ UNCHANGED <<pcClient, sent, wire, inbox, line, produced, answers>>

(* Faulty variant: the whole buffer is copied (memcpy). *)
ItemWhole(buf) == buf

(* strncpy: up to the first NUL, or the whole buffer. *)
Item(buf) ==
    LET ends == {i \in DOMAIN buf : EndsLine(buf[i])}
    IN  IF ends = {} THEN buf
        ELSE Start(buf, CHOOSE i \in ends : \A j \in ends : i <= j)

Produce ==
    /\ pcServer = "produce"
    /\ produced' = Append(produced, Item(line))
    /\ pcServer' = "ack"
    /\ UNCHANGED <<pcClient, sent, wire, inbox, line, answers>>

(* Faulty variant: an item is not acknowledged. *)
WriteOKMissing ==
    /\ pcServer = "ack"
    /\ pcServer' = "read"
    /\ UNCHANGED <<pcClient, sent, wire, inbox, line, produced, answers>>

(* A client that closed its socket with bytes unread has it reset: the write *)
(* then kills the child.                                                     *)
WriteOK ==
    /\ pcServer = "ack"
    /\ \/ answers' = answers \o OK /\ pcServer' = "read"
       \/ /\ pcClient = "closed" /\ answers # <<>>
          /\ pcServer' = "exited"
          /\ UNCHANGED answers
    /\ UNCHANGED <<pcClient, sent, wire, inbox, line, produced>>

Server == ReadRole \/ ReadLines \/ EndOfStream \/ Produce \/ WriteOK

ProtocolNext == Client \/ Arrive \/ Server

ProtocolSpec == ProtocolInit /\ [][ProtocolNext]_protocolVars

(* Both processes run, and what was written arrives.  Produce is fair as     *)
(* long as some consumer drains the shared buffer (SemBuffer).               *)
ProtocolLiveSpec ==
    /\ ProtocolSpec
    /\ WF_protocolVars(Client) /\ WF_protocolVars(Arrive) /\ WF_protocolVars(Server)

-----------------------------------------------------------------------------
(* Properties *)

(* Lines whose last chunk the server has read, and the ones among them that  *)
(* ended up in an item.                                                      *)
Pending(n) ==
    \/ \E i \in DOMAIN inbox : inbox[i] = <<n, LineChunks>>
    \/ \E i \in DOMAIN wire : wire[i] = LineText(n)
    \/ pcServer = "produce" /\ \E i \in DOMAIN Item(line) :
                                    Item(line)[i][1] = n
Produced(n) ==
    \E i \in DOMAIN produced : \E j \in DOMAIN produced[i] :
        produced[i][j][1] = n
Lost == {n \in 1..sent : ~Pending(n) /\ ~Produced(n)}

(* An item is the end of one line: the stale end of the line buffer and the *)
(* line read along with it never leak into it.  Items keep the order of the  *)
(* client's file, and no line is produced twice.                             *)
ItemsInOrder ==
    /\ \A i \in DOMAIN produced :
        \E n \in 1..MaxLines : \E k \in 1..LineChunks :
            produced[i] = SubSeq(LineText(n), k, LineChunks)
    /\ \A i, j \in DOMAIN produced :
        i < j => produced[i][1][1] < produced[j][1][1]

(* The newline left of the prompt puts the client one acknowledgement ahead, *)
(* so two lines may be read at once and the second one vanish; that uses the *)
(* advance up, so that a connection loses at most one line.                  *)
AtMostOneLost == Cardinality(Lost) <= 1

(* A lost acknowledgement never leaves client and server waiting for each    *)
(* other: the client gets through its file and the child sees the end.       *)
BothFinish == <>(pcClient = "closed" /\ pcServer = "exited")
=============================================================================
