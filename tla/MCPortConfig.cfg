SPECIFICATION Spec
CONSTANTS
    addr = addr
    addr2 = addr2
    own6 = own6
    peer = peer
    mate = mate
    mate6 = mate6
    far = far
    any = any
    broadcast = broadcast
    null = null
    Any = any
    Broadcast = broadcast
    Null = null
    V6 <- MCV6
    AddressesIn <- MCAddressesIn
    Requests <- MCRequests
    Packets <- MCPackets
CHECK_DEADLOCK FALSE
INVARIANTS
    FilterKeepsPromises
    NothingElsePasses
    Buildable
    SegmentsRealised
