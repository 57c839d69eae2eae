CONSTANTS
    i1 = i1  i2 = i2  u1 = u1  r1 = r1  r2 = r2
    Incidents = {i1, i2}
    Units = {u1}
    Requests = {r1, r2}
    Routes = {road}
    HasFix = {i1, i2}
    ManualActions = {"resolve"}
    Reports = {"available"}
    PatchStatuses = {}
    PatchActives = {FALSE}
    NoIncident = NoIncident
    NoRoute = NoRoute
SPECIFICATION Spec
CHECK_DEADLOCK FALSE
PROPERTIES AssignmentsAreLegal
