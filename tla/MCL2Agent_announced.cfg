SPECIFICATION Spec
CONSTANTS
    v1 = v1
    VmPorts = {v1}
    ServicePorts = {}
    FastRetryMisses = 1
    BindingMissLimit = 3
    DeviceFaults = FALSE
    DevdMayDrop = FALSE
    MaxServer = 2
    MaxHost = 0
    MaxFaults = 0
PROPERTY AnnouncementKept
