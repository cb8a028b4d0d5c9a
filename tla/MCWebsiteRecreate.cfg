SPECIFICATION Spec
CONSTANTS
    a1 = a1
    Users = {u1}
    Aliases = {a1}
    Contents <- PlainOnly
    MaxIncarnations = 2
    MaxDisturbances = 0
PROPERTIES RunningIsRouted
CHECK_DEADLOCK FALSE
