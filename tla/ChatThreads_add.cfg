\* Two clients that register at the same time.
SPECIFICATION Spec
CONSTANTS
    h1 = h1
    h2 = h2
    h3 = h3
    Programs = {"pr_7"}
    Handlers = {h1, h2, h3}
    MAX_CLIENTS = 2
    Calm = {FALSE}
    Visitors <- MCAddVisitors
    Leavers <- MCAddVisitors
    MaxMessages <- MCAddMaxMessages
CHECK_DEADLOCK FALSE
INVARIANTS AddedIsListed
