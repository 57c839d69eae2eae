CONSTANTS
    a1 = a1  a2 = a2  a3 = a3  p1 = p1  q1 = q1  q2 = q2
    Units = {a1, a2, a3, p1}
    Type <- MCType
    Crow <- MCCrow
    Road <- MCRoad
    Candidates = 2
    Ttl = 2
    Desks = {q1}
    Assigners = {q2}
    Sent = {a1}
    Ready = {a2, a3}
    Severities = {0, 2}
    NoRoute = NoRoute
SPECIFICATION FairSpec
INVARIANTS AdviceInv RecommendedIsFastest
PROPERTIES EstimatesDieOut
