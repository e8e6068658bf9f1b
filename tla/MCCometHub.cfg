SPECIFICATION FairSpec
CONSTANTS
    u1 = u1  u2 = u2  c1 = c1  c2 = c2  c3 = c3
    User = {u1}
    Connection = {c1, c2}
    UserOf <- MCUserOf
    QueueSize = 1
    MaxTime = 2
    Nil = Nil
INVARIANTS
    ClosedOnce
    NoOrphans
    NothingBeforeGrant
PROPERTIES
    ImplementsLife
    ClosedFinishes
    DrainCompletes
CHECK_DEADLOCK FALSE
