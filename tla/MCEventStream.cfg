\* The server may go down, and every watch may end.
CONSTANTS
    pods = pods
    events = events
    c1 = c1
    c2 = c2
    Nobody = Nobody
    Watcher = {pods, events}
    Client = {c1, c2}
    MaxEvents <- Bounds
SPECIFICATION FairSpec
CHECK_DEADLOCK FALSE
INVARIANTS TypeOK SameStream NoOrphans
PROPERTIES Delivered
