SPECIFICATION FairSpec
CONSTANTS
    q1 = q1  q2 = q2  t1 = t1  t2 = t2  u1 = u1  u2 = u2  old = old  new = new
    p1 = p1  p2 = p2
    Job = {p1}
    Partition = {q1, q2}
    Log <- TwoLogs
    Task <- MCTask
    TaskID = {t1, t2}
    Recipient = {u1, u2}
    Garbage = Garbage
    Raw = Raw
    Attempts = 2
    IdentityCapacity = 2
    MaxFaults = 2
PROPERTIES
    EveryRecordCommitted
CHECK_DEADLOCK FALSE
