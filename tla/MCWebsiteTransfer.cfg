SPECIFICATION Spec
CONSTANTS
    a1 = a1
    Users = {u1, u2}
    Aliases = {a1}
    Contents <- PlainOnly
    MaxIncarnations = 1
    MaxDisturbances = 1
PROPERTIES TransferCompletes
CHECK_DEADLOCK FALSE
