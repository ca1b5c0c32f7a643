SPECIFICATION Spec
CONSTANTS
    Value <- MCValue
    Empty <- MCEmpty
    MaxGeneration = 4
    None = None
    Identity = {i1, i2, i3, i4}
    Capacity = 3
    Paths = 2
    HoldTicks = 1
    WindowTicks = 2
    MaxWindows = 4
INVARIANTS
    LiveIsDurable
    OneIdentityPerWindow
    ToldIsAuthorized
    MountedIsSelected
