\* pr_9: 6 bytes of prompt against a read of 5, role[16], ok[3 + 1]; a line of
\* two chunks, one of which fits behind the role.
SPECIFICATION ProtocolLiveSpec
CONSTANTS
    MaxLines = 6
    LineChunks = 2
    LineRoom = 3
    RoleRoom = 1
    PromptRest = 1
    OkRoom = 3
CHECK_DEADLOCK FALSE
INVARIANTS ItemsInOrder AtMostOneLost
PROPERTIES BothFinish
