SPECIFICATION Spec
CONSTANTS
    v1 = v1
    s1 = s1
    VmPorts = {v1}
    ServicePorts = {s1}
    FastRetryMisses = 1
    BindingMissLimit = 3
    DeviceFaults = TRUE
    DevdMayDrop = TRUE
    MaxServer = 2
    MaxHost = 2
    MaxFaults = 1
PROPERTIES
    TrackedComesUp
    ServiceFollowsEpair
    UnresolvableDropped
    ImplementsSyncLoop
