\* Two or three clients for two slots that come and go as they like, and the
\* game at rest between two inputs.
SPECIFICATION LiveSpec
CONSTANTS
    h1 = h1
    h2 = h2
    h3 = h3
    Programs = {"pr_7", "pr_7_1"}
    Handlers = {h1, h2, h3}
    MAX_CLIENTS = 2
    Calm = {TRUE, FALSE}
    Visitors <- MCVisitors
    Leavers <- MCLeavers
    MaxMessages <- MCMaxMessages
CHECK_DEADLOCK FALSE
INVARIANTS ListIsRight FullListCloses BroadcastReachesAll BoardShown
PROPERTIES HandlersEnd
