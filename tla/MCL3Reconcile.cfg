SPECIFICATION Spec
CONSTANTS
    r1 = r1
    r2 = r2
    g1 = g1
    g1b = g1b
    i1 = i1
    i2 = i2
    qg = qg
    qgb = qgb
    qr = qr
    ext = ext
    int = int
    ext6 = ext6
    hopX = hopX
    hopI = hopI
    hop6 = hop6
    out = out
    out6 = out6
    e1 = e1
    e1b = e1b
    e6 = e6
    f1 = f1
    f2 = f2
    v1 = v1
    mac = mac
    sub1 = sub1
    sub2 = sub2
    sub6 = sub6
    Off = Off
    Null = Null
    NoFile = NoFile
    DefaultRoute = DefaultRoute
    Single = Single
    NoAddress = NoAddress
    Raw = Raw
    Host = Host
    Nowhere = Nowhere
    V6 <- MCV6
    Canonical <- MCCanonical
    Covers <- MCCovers
    Destinations = {DefaultRoute, out}
    NextHops = {hopX, hopI}
    Jails = {r1, r2}
    Ifs = {g1, g1b, i1, i2}
    JailIfs = {qg, qgb, qr}
    InJail <- MCInJail
    NameIn <- MCNameIn
    Units = {0, 1, 2, 3, 4}
    Addresses <- MCAddresses
    Configs <- MCConfigs
    HalvesStay = FALSE
    MaxDesires = 1
    MaxOthers = 1
    MaxFaults = 1
INVARIANTS
    TypeOK
    CleanPassReconciles
PROPERTIES
    RouterKept
    Converges
