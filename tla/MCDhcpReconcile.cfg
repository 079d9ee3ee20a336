SPECIFICATION Spec
CONSTANTS
    n1 = n1
    n2 = n2
    p1 = p1
    p1b = p1b
    p2 = p2
    a1 = a1
    a2 = a2
    c1 = c1
    c2 = c2
    g1 = g1
    g2 = g2
    dhcp0 = dhcp0
    Off = Off
    None = None
    NoAddress = NoAddress
    Raw = Raw
    Host = Host
    Nowhere = Nowhere
    Jails = {n1, n2}
    Ifs = {p1, p1b, p2}
    JailIfs = {dhcp0}
    InJail <- MCInJail
    NameIn <- MCNameIn
    Units = {0, 1, 2, 3, 4}
    Addresses = {a1, a2}
    Configs <- MCConfigs
    Contents = {c1, c2}
    Args = {g1, g2}
    Pids = {1, 2, 3, 4}
    PidsReused = TRUE
    HalvesStay = TRUE
    MaxDesires = 1
    MaxOthers = 1
    MaxFaults = 1
INVARIANTS
    TypeOK
    CleanPassServes
    UntroubledLoads
PROPERTIES
    ServiceKept
    Converges
