SPECIFICATION Spec
CONSTANTS
    key1 = key1
    task1 = task1
    task2 = task2
    Keys = {key1}
    Tasks = {task1, task2}
    Cost = 2
    Capacity = 5
    Grace = 2
    MaxLag = 2
    MaxClock = 10
SYMMETRY Symmetry
INVARIANT AdmissionsAccounted
PROPERTY RetryAfterHonoured
\* The clock ends at MaxClock.
CHECK_DEADLOCK FALSE
