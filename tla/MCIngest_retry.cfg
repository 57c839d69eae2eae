CONSTANTS
    e1 = e1  e2 = e2  a1 = a1  a2 = a2
    Events = {e1, e2}
    Attempts = {a1, a2}
    Batch = 1
    Rejected = {}
    MaxRestarts = 1
    None = None
SPECIFICATION FairSpec
CHECK_DEADLOCK FALSE
INVARIANTS IngestInv OneShakeOneIncident ToldIsStored SecondRunNeedsOverlap
PROPERTIES NothingIsUnmade BacklogDrains
