SPECIFICATION Spec
CONSTANTS
    u1 = u1  u2 = u2  i1 = i1  i2 = i2
    Recipient = {u1, u2}
    Instance = {i1, i2}
    MaxRounds = 3
    Nil = Nil
INVARIANTS
    ResultsAreTrue
    AtMostTwoCopies
PROPERTIES
    ImplementsCycle
    CallReturns
CHECK_DEADLOCK FALSE
