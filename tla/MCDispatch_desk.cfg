CONSTANTS
    i1 = i1  i2 = i2  u1 = u1  r1 = r1  r2 = r2
    Incidents = {i1, i2}
    Units = {u1}
    Requests = {r1}
    Routes = {road}
    HasFix = {i1}
    ManualActions = {"acknowledge", "assign", "on_scene", "false_alarm"}
    Reports = {"available", "dispatched", "en_route", "out_of_service"}
    PatchStatuses = {"available", "on_scene"}
    PatchActives = {TRUE, FALSE}
    NoIncident = NoIncident
    NoRoute = NoRoute
SPECIFICATION FairSpec
CHECK_DEADLOCK FALSE
INVARIANTS TypeOK StatusIsExplained
PROPERTIES ResponseArrives LifecycleSpec
