\* Two clients of either server that come and go, one of which sends lines;
\* one call fails; quit at any time.
SPECIFICATION LineSpec
CONSTANTS
    c1 = c1
    c2 = c2
    Clients = {c1, c2}
    MaxLines <- MCMaxLines
    MaxMessages <- MCMaxMessages
    ReadRoom = 2
    MaxFailures = 1
    Keyboard = {"quit", "other"}
CHECK_DEADLOCK FALSE
INVARIANTS GivenOnce LinesInOrder NoZombieStays
PROPERTIES ChildEnds
