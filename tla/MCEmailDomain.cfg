SPECIFICATION Spec
CONSTANTS
    MaxIncarnations = 2
    MaxChanges = 2
    MaxFaults = 2
INVARIANTS TypeOK
PROPERTIES EditsStay ImplementsDomainPhases DomainConverges DeletionCompletes
CHECK_DEADLOCK FALSE
