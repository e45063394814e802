CONSTANTS
    LocalDev = LocalDev
    k1 = k1
    DefaultID = DefaultID
    i1 = i1
    r1 = r1
    r2 = r2
    NewID = NewID
    DefaultValue = DefaultValue
    NoRef = NoRef
    Absent = Absent
    Nobody = Nobody
    Unreadable = Unreadable
    NoRequest = NoRequest
    Free = Free
    Cluster <- MCCluster
    ID <- MCID
    Kind = {"sli"}
    Field = {target, name}
    Value = {DefaultValue, v1}
    Req = {r1, r2}
    ClientIDs = FALSE
    StopInSave = FALSE
    MaxFailures = 0
SPECIFICATION Spec
PROPERTY PatchPreserves
