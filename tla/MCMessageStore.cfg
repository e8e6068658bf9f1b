SPECIFICATION MCFairSpec
CONSTANTS
    u1 = u1  u2 = u2  g = g  s = s  c1 = c1  c2 = c2  c3 = c3  c4 = c4  c5 = c5  r1 = r1  r2 = r2
    User = {u1, u2}
    Registered = {u1, u2}
    Group = {g}
    Direct = {s}
    Call = {c1, c2, c3, c4, c5}
    Req <- MCReq
    GapOf <- MCGapOf
    Reader = {r1}
    Reads <- MCReads
    Owner <- MCOwner
    Founders <- MCFounders
    Limit = 1
    MaxAborts = 1
    Nil = Nil
INVARIANTS
    CursorComplete
    Idempotent
PROPERTIES
    RightsAtTheMoment
    CallsEnd
CHECK_DEADLOCK FALSE
