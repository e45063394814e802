\* Symmetry in the two generated ids is sound: no operator chooses one.
CONSTANTS
    LocalDev = LocalDev
    c1 = c1
    c2 = c2
    LocalEndpoint = LocalEndpoint
    apiB = apiB
    NoID = NoID
    NotRegistered = NotRegistered
    NoClient = NoClient
    ClusterID <- MCClusterID
    Endpoint <- MCEndpoint
    Posted = {"local_kubeconfig", "service_account_token"}
    Reported = {"DISCONNECTED"}
    Current = Current
    r1 = r1
    Request <- MCRequest
SPECIFICATION RequestsSpec
SYMMETRY Generated
INVARIANTS RequestsTypeOK SelectionValid ClientOfItsCluster OperatesWhereLed
PROPERTIES LocalDevStays SelectionSpec
