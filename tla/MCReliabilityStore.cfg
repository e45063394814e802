\* Symmetry in the request slots is sound: no operator chooses one.
CONSTANTS
    LocalDev = LocalDev
    k1 = k1
    DefaultID = DefaultID
    i1 = i1
    r1 = r1
    r2 = r2
    NewID = NewID
    DefaultValue = DefaultValue
    NoRef = NoRef
    Absent = Absent
    Nobody = Nobody
    Unreadable = Unreadable
    NoRequest = NoRequest
    Free = Free
    Cluster <- MCCluster
    ID <- MCID
    Kind = {"sli", "slo"}
    Field = {f1}
    Value = {DefaultValue}
    Req = {r1, r2}
    ClientIDs = FALSE
    StopInSave = FALSE
    MaxFailures = 1
SPECIFICATION Spec
SYMMETRY Slots
INVARIANTS TypeOK FileFollowsMemory OwnershipFixed SloWithinCluster
PROPERTIES ItemStoreSpec
