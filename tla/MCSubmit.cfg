SPECIFICATION SubmitFairSpec

CONSTANTS
    g = g  c1 = c1  c2 = c2  r1 = r1
    User = {1, 2, 3}
    Registered = {1, 2, 3}
    Group = {g}
    Direct = {}
    Call = {c1, c2}
    Req <- MCReq
    GapOf <- MCGapOf
    Reader = {r1}
    Reads <- MCReads
    Owner <- MCOwner
    Founders <- MCFounders
    Limit = 1
    MaxAborts = 1
    ChunkSize = 2
    Nil = Nil

INVARIANTS
    TasksMatchStore
    DispatchIsTrue

PROPERTIES
    ReadersCatchUp

CHECK_DEADLOCK FALSE
