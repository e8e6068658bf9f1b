SPECIFICATION FairProcesses
CONSTANTS
    p1 = p1
    Partition = {p1}
    Assignment = {{}, {p1}}
    MaxGeneration = 2
    PoolLimit = 2
    h1 = h1
    h2 = h2
    Request = {h1, h2}
    c1 = c1
    Rpc = {c1}
    u1 = u1
    u2 = u2
    User = {u1, u2}
    r1 = r1
    RunId = {r1}
    Absent = Absent
    MaxPushes = 5
    MaxLetters = 2
    MaxDropped = 1
INVARIANTS ReplaySafe OwnershipFenced ClosedAfterUse
PROPERTIES NoReplacement ProcessStops
CHECK_DEADLOCK FALSE
