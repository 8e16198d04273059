\* Two clients that send names of any kind or ask for an image of two pieces;
\* one call fails; the parent may quit at any time.
SPECIFICATION LiveSpec
CONSTANTS
    c1 = c1
    c2 = c2
    Programs = {"hash", "resize"}
    Clients = {c1, c2}
    Names <- MCNames
    Kinds = {"file", "missing", "dash", "close"}
    Resolutions = {"size", "refused", "empty", "close"}
    Pieces = 2
    MaxFailures = 1
CHECK_DEADLOCK FALSE
INVARIANTS AnswerOfOneFile PipesReturned ImageWhole
PROPERTIES EveryRequestEnds ImageArrives
