SPECIFICATION Spec
CONSTANTS
    a1 = a1
    Users = {u1}
    Aliases = {a1}
    Contents <- PlainOnly
    MaxIncarnations = 1
    MaxDisturbances = 2
PROPERTIES SuspendedSiteStops SiteConverges DeletionCompletes
CHECK_DEADLOCK FALSE
