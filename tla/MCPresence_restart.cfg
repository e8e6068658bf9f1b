SPECIFICATION Spec
CONSTANTS
    u1 = u1  i1 = i1  i2 = i2  b1 = b1  b2 = b2  c1 = c1  c2 = c2
    User = {u1}
    Instance = {i1}
    Boot = {b1, b2}
    Connection = {c1, c2}
    UserOf <- MCUserOf
    BootOf <- MCBootOf
    AuthOf <- ShortTokens
    InstanceOf <- SameInstance
    InstanceTTL = 3
    RouteTTL = 3
    Margin = 2
    Skew = 1
    Slack = 1
    KickCap = 1
    MaxTime = 4
    Nil = Nil
INVARIANTS
    ActiveIsReachable
    OneBootPerInstance
PROPERTIES
    ImplementsLife

CHECK_DEADLOCK FALSE
