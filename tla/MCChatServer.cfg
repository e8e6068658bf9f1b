SPECIFICATION FairSpec
CONSTANTS
    o = o  a = a  b = b  g = g  k1 = k1  k2 = k2  k3 = k3  k4 = k4  s1 = s1  s2 = s2  s3 = s3
    User = {o, a, b}
    Owner = o
    Group = g
    Call = {k1, k2, k3, k4, s1, s2, s3, kafka_consumer}
    Conn = {s1, s2, s3}
    UserOf <- MCUserOf
    Consumer = kafka_consumer
    QueueSize = 1
    MaxAllowedSessions = 2
    MaxLimit = 2
    Outbound = 1
    Nil = Nil
INVARIANTS
    RowsAgree
    StaleOnlyIfOvertaken
    StatusDeclared
    AssistantWithinRights
    TableIsLive
PROPERTIES
    ServerStops
ACTION_CONSTRAINT Steady
CHECK_DEADLOCK FALSE
