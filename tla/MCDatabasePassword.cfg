SPECIFICATION Spec
CONSTANTS
    Names = {n1}
    Requests = {r1}
    MaxIncarnations = 1
    MaxDisturbances = 1
PROPERTIES PasswordChangeReachesMariaDB
CHECK_DEADLOCK FALSE
