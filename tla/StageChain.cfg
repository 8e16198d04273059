\* Three numbers, of which the second is dropped, and three names; one call
\* fails or one process is killed.
SPECIFICATION LiveSpec
CONSTANTS
    Programs = {"cv_4", "pr_4"}
    Items = 3
    Kept = {1, 3}
    Capacity = 2
    MaxFailures = 1
CHECK_DEADLOCK FALSE
INVARIANTS SumsRight NamesRight
PROPERTIES AllEnd
