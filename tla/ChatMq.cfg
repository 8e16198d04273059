\* Three clients, one of which may be killed, and a queue of one message.
SPECIFICATION LiveSpec
CONSTANTS
    u1 = u1
    u2 = u2
    u3 = u3
    Clients = {u1, u2, u3}
    MaxLines = 1
    MaxMsg = 1
    Killable = {u3}
CHECK_DEADLOCK FALSE
INVARIANTS StreamPreserved SenderIsNamed SameOrder
PROPERTIES EveryTextHandled KilledLeaves
