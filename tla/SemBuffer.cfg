\* A producer of three lines, two slots, two consumers, one of which may leave;
\* the children of one of them and of the producer may be killed.  Both the
\* children of pr_9 and the threads of pr_8; their second line is empty.
SPECIFICATION MCSpec
CONSTANTS
    p1 = p1
    c1 = c1
    c2 = c2
    Producers = {p1}
    Consumers = {c1, c2}
    BUFFER_SIZE = 2
    MaxLines = 3
    Leavers = {c2}
    Killable = {p1, c2}
    NoLine = NoLine
    Blank <- MCBlank
CHECK_DEADLOCK FALSE
INVARIANTS TypeOK MutualExclusion SlotAccounting IndexesAgree ProducerOrder LinesAccounted
PROPERTIES ImplementsFIFO EveryLineArrives
