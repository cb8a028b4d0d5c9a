SPECIFICATION Spec
CONSTANTS
    Names = {n1, n2}
    Requests = {r1}
    MaxIncarnations = 2
    MaxDisturbances = 2
INVARIANTS TypeOK NoOrphans UndisturbedReadyIsUsable LifecycleInv
PROPERTIES LifecycleSpec PasswordIsKept
CHECK_DEADLOCK FALSE
