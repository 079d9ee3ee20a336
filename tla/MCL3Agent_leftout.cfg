SPECIFICATION Spec
CONSTANTS
    r1 = r1
    r2 = r2
    f1 = f1
    f2 = f2
    Unlisted = Unlisted
    Nowhere = Nowhere
    Routers = {r1, r2}
    Fips = {f1, f2}
    PlacesOf <- MCPlacesOf
    BodiesOf <- MCBodiesOf
    MaxServer = 3
    MaxFaults = 1
INVARIANT LeftOutGoesDown
