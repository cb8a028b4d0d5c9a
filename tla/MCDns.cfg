SPECIFICATION Spec
CONSTANTS
    Requests = {r1, r2}
    Users = {u1, u2}
    Admins = {u2}
    Zone <- ZoneE
    Names <- MCNames
    Types = {"A", "CNAME"}
    IPs = {"ip1", "ip2"}
    Hosts = {"e"}
    ExternalIP = "ip1"
    ZoneHost = "e"
    MaxZones = 2
    MaxRequests = 4
    MaxFaults = 1
INVARIANTS TypeOK NoDuplicateRecords SecondaryFollows EnsuredZoneExists
PROPERTIES CreateOnlyAdds AccountsKeepTheirZones
SYMMETRY RequestSymmetry
CHECK_DEADLOCK FALSE
