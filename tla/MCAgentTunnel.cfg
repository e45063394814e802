CONSTANTS
    LocalDev = LocalDev
    k1 = k1
    LocalEndpoint = LocalEndpoint
    NoID = NoID
    NotRegistered = NotRegistered
    NoClient = NoClient
    NoConn = NoConn
    ClusterID <- MCClusterID
    Endpoint <- MCEndpoint
    Conn = {s1, s2}
    Deadline = 3
    MaxInFlight = 1
    Faults = TRUE
SPECIFICATION FairSpec
INVARIANTS TypeOK RegistryServed ConnectedHasHandler
PROPERTIES DeadTunnelReported LiveTunnelReported
