SPECIFICATION Spec
CONSTANTS
    MaxIncarnations = 2
    MaxChanges = 1
    MaxFaults = 1
    MaxDomainChanges = 3
INVARIANTS TypeOK AccountsGoWithDomain
PROPERTIES EditsStay AccountConverges DeletionCompletes
CHECK_DEADLOCK FALSE
