SPECIFICATION FairSpec
CONSTANTS
    Link = {l1}
    Manifest <- MCManifest
    Size <- MCSize
    BadImage = {Bad}
    Factory = Factory
    Good = Good
    Bad = Bad
    Large = Large
    SlotChunks = 2
    SkipsBooted = TRUE
    MaxSessions = 1
    None = None
PROPERTY ClosedLinkFailsTransfer
