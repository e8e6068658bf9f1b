SPECIFICATION FairSpec
CONSTANTS
    u1 = u1  i1 = i1  i2 = i2  b1 = b1  b2 = b2  c1 = c1  c2 = c2
    User = {u1}
    Instance = {i1, i2}
    Boot = {b1, b2}
    Connection = {c1, c2}
    UserOf <- MCUserOf
    BootOf <- MCBootOf
    AuthOf <- LongTokens
    InstanceOf <- TwoInstances
    InstanceTTL = 3
    RouteTTL = 3
    Margin = 1
    Skew = 0
    Slack = 0
    KickCap = 1
    MaxTime = 3
    Nil = Nil
INVARIANTS
    KicksSpareTheOwner
PROPERTIES
    SupersededCloses
ACTION_CONSTRAINT Quiet
CHECK_DEADLOCK FALSE
