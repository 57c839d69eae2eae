CONSTANTS
    e1 = e1  e2 = e2  a1 = a1  a2 = a2
    Events = {e1, e2}
    Attempts = {a1}
    Batch = 2
    Rejected = {e1}
    MaxRestarts = 0
    None = None
SPECIFICATION FairSpec
CHECK_DEADLOCK FALSE
PROPERTIES BacklogDrains
