SPECIFICATION Spec
CONSTANTS
    Link = {l1, l2}
    Manifest <- MCManifest
    Size <- MCSize
    BadImage = {Bad}
    Factory = Factory
    Good = Good
    Bad = Bad
    Large = Large
    SlotChunks = 2
    SkipsBooted = TRUE
    MaxSessions = 2
    None = None
INVARIANTS
    GateClosedOnWrite
    ProgressIsOnFlash
    ActivatedIsBootable
PROPERTIES
    RunningUntouched
    SelectedWasVerified
    StagedIsNotConfirmed
