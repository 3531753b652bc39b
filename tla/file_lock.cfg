SPECIFICATION Spec
CONSTANTS
    Scenarios = {"sharing"}
    NoFile = NoFile
    NaN = NaN
    Unset = Unset
    Torn = Torn
    Users = {"u1", "u2"}
    Names = {"ParsedIO", "lru"}
    Nobody = Nobody
    Together = {FALSE}
    MaxId = 1
    MaxCancels = 0
    MaxCrashes = 0
    MaxBuilds = 0
    StoreUsers = {1, 2}
    StoreVersion <- VersionOf
    Traces = {1, 2}
    StorePath <- Paths
    Selections <- StoreSelections
    Asked <- StoreAsked
    LbaKeys = {"Lba1", "Lba2"}
    MaxRequests = 2
    MaxEntries = 2
    Objects = {11, 12, 21}
    ProcessOf <- ObjectProcess
    Privileged = {2}
    Size <- MessageSize
    Initially = {"long"}
    MaxInodes = 2
    MaxCalls = 2
    NoObject = NoObject
    Builders = {1, 2, 3}
    Contents <- Contained
    MayBeBusy = {2}
    NoFeature = NoFeature
    Pushable <- Pushed
    MaxTraces = 3
CHECK_DEADLOCK FALSE
INVARIANT LockExcludes
