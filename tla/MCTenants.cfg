SPECIFICATION Spec
CONSTANTS
    Requests = {r1, r2}
    Users = {u1, u2}
    Domains = {d1, d2}
    Plans = {1, 2}
    PlanLimits <- MCPlanLimits
    MaxRequests = 3
    MaxFaults = 1
INVARIANTS TypeOK AssignedPlanApplies
PROPERTIES DomainsServedOnce UidsFitOwners QuotaHolds DisabledStaysOut SuspensionReachesSites
SYMMETRY TenantSymmetry
CHECK_DEADLOCK FALSE
