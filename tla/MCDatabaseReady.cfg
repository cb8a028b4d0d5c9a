SPECIFICATION Spec
CONSTANTS
    Names = {n1}
    Requests = {}
    MaxIncarnations = 1
    MaxDisturbances = 1
INVARIANTS ReadyMeansUsable
CHECK_DEADLOCK FALSE
