CONSTANTS
    absent      = absent
    anyNs       = anyNs
    Absent      = absent
    AnyNs       = anyNs
    Catalog     <- MCCatalog
    Objects     <- MCObjects
    Usual       <- MCUsual
    Scene       <- MCScene
    MaxResults  = 2
    MaxMoves    = 2
    MaxFailures = 1
SPECIFICATION Spec
INVARIANTS
    TypeOK
    FiguresBracketed
    EdgesAnchored
    FoundOrOutranked
    CleanBill
