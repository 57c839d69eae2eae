CONSTANTS
    i1 = i1  i2 = i2  app = app  desk = desk  s1 = s1  s2 = s2
    Incidents = {i1, i2}
    OwnIncidents = {i1}
    Drivers = {app}
    Responders = {desk}
    Sessions = {s1, s2}
    NoCard = NoCard
    MaxLife <- TwiceOne
    MaxDrops = 1
SPECIFICATION Spec
CHECK_DEADLOCK FALSE
SYMMETRY SessionSymmetry
INVARIANTS FeedInv ShownIsPast OnlyOlderAreMissed
