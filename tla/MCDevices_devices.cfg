CONSTANTS
    d1 = d1  d2 = d2  e1 = e1  e2 = e2  r1 = r1  r2 = r2  here = here  there = there
    Ids = {d1, d2}
    Reporting = {d1}
    Emails = {e1, e2}
    Requests = {r1, r2}
    Places = {here}
    NoFix = NoFix
    Never = Never
    NoDevice = NoDevice
    Free = Free
    Retention = 1
    Longest = 2
SPECIFICATION FairSpec
INVARIANTS DevicesInv AtMostOneContactIsLost HistoryIsComplete
PROPERTIES PanicIsPlaced LoopIsFreed
