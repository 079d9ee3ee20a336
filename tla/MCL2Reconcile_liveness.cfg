SPECIFICATION Spec
CONSTANTS
    b1 = b1
    b2 = b2
    t1 = t1
    t2 = t2
    v1 = v1
    e1 = e1
    r1 = r1
    r2 = r2
    g1 = g1
    g2 = g2
    NoIface = NoIface
    NoBridge = NoBridge
    NoPolicy = NoPolicy
    Bridges = {b1, b2}
    Taps = {t1, t2}
    Vlans = {v1}
    Attached = {e1}
    Early = {{}}
    Rules = {r1, r2}
    Tables = {g1, g2}
    Home <- MCHome
    Uplink <- MCUplink
    Configs <- MCConfigs
    Broken = {t2}
    MaxDesires = 1
    MaxOthers = 1
    MaxFaults = 1
    MovesMembers = FALSE
PROPERTY Converges
