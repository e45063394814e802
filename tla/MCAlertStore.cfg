CONSTANTS
    LocalDev = LocalDev
    k1 = k1
    a1 = a1
    a2 = a2
    h1 = h1
    h2 = h2
    sample = sample
    Absent = Absent
    NoNote = NoNote
    Cluster <- MCCluster
    Alert <- MCAlert
    Source <- MCSource
    Keys <- Fingerprinted
    Scoped = {a1}
    Sample = {sample}
    MaxEpisode = 2
SPECIFICATION FairSpec
INVARIANTS TypeOK AnsweredIsStored ResolvedHasEnd
PROPERTIES ResolvedClears FiringShown
