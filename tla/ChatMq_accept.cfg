\* The first message keeps the parent in its receive loop.
SPECIFICATION LiveSpec
CONSTANTS
    u1 = u1
    u2 = u2
    u3 = u3
    Clients = {u1, u2}
    MaxLines = 1
    MaxMsg = 1
    Killable = {}
CHECK_DEADLOCK FALSE
PROPERTIES ConnectionsAccepted
