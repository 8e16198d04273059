\* Three changes to each file while it is watched.
SPECIFICATION LiveSpec
CONSTANTS
    MaxWrites = 3
    Initial = 1
    Habits <- MCHabits
CHECK_DEADLOCK FALSE
INVARIANTS PrintedOnce LinesShown Settled
PROPERTIES EveryLinePrinted
