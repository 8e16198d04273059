\* Two rows of two numbers, one of which the filter drops; one call of pipe,
\* fork, fdopen or exec may fail.
SPECIFICATION LiveSpec
CONSTANTS
    Programs = {"cv_5", "pr_5"}
    K = 2
    N = 2
    Kept = {2}
    Capacity = 1
    MaxFailures = 1
CHECK_DEADLOCK FALSE
INVARIANTS RowTotal DescriptorsReturned
PROPERTIES Finishes
