\* The resize server alone: a client gets its image, its child goes on.
SPECIFICATION LiveSpec
CONSTANTS
    c1 = c1
    c2 = c2
    Programs = {"resize"}
    Clients = {c1}
    Names <- MCNoNames
    Kinds = {"file"}
    Resolutions = {"size"}
    Pieces = 1
    MaxFailures = 0
CHECK_DEADLOCK FALSE
PROPERTIES HandlerExits
