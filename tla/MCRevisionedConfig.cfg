SPECIFICATION Spec
CONSTANTS
    v0 = v0
    v1 = v1
    v2 = v2
    Value <- MCValue
    Empty = v0
    MaxGeneration = 4
    None = None
INVARIANTS
    TypeOK
    MountedIsSelected
    AppliedIsRemembered
    RevisionNamesOneValue
