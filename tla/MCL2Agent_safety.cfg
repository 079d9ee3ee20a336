SPECIFICATION Spec
CONSTANTS
    v1 = v1
    v2 = v2
    s1 = s1
    VmPorts = {v1, v2}
    ServicePorts = {s1}
    FastRetryMisses = 1
    BindingMissLimit = 3
    DeviceFaults = FALSE
    DevdMayDrop = FALSE
    MaxServer = 3
    MaxHost = 2
    MaxFaults = 2
INVARIANTS
    TypeOK
    SettledIsUp
    SettledTracksUp
    ActiveIsDurable
    ActiveIsTracked
PROPERTY LateAnnouncementKept
SYMMETRY Symmetry
