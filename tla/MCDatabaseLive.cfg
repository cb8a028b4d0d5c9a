SPECIFICATION Spec
CONSTANTS
    Names = {n1}
    Requests = {r1}
    MaxIncarnations = 2
    MaxDisturbances = 2
PROPERTIES DeletionCompletes BecomesReady
CHECK_DEADLOCK FALSE
