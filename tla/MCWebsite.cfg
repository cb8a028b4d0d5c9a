SPECIFICATION Spec
CONSTANTS
    a1 = a1
    Users = {u1, u2}
    Aliases = {a1}
    Contents <- PlainAndFull
    MaxIncarnations = 1
    MaxDisturbances = 1
INVARIANTS TypeOK SiteInv
PROPERTIES SuspensionStands NoRollback
CHECK_DEADLOCK FALSE
