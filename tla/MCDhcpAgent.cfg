SPECIFICATION Spec
CONSTANTS
    n1 = n1
    n2 = n2
    s1 = s1
    s2 = s2
    s3 = s3
    p1 = p1
    Unlisted = Unlisted
    Off = Off
    Networks = {n1, n2}
    Subnets = {s1, s2, s3}
    Clients = {p1}
    NetOf <- MCNetOf
    SubnetOf <- MCSubnetOf
    SubnetsOf <- MCSubnetsOf
    MaxServer = 2
    MaxFaults = 2
INVARIANTS
    TypeOK
    SettledServes
PROPERTIES
    ReadyIsReserved
    ServiceKept
    Converges
    ImplementsSyncLoop
