SPECIFICATION FairSpec

CONSTANTS
    h1 = h1  h2 = h2  i1 = i1
    Chat = {h1, h2}
    Id = {i1}
    Run = {1, 2}
    PageSize = 1
    BatchPages = 2
    MaxPending = 1
    BufferLimit = 2
    MaxLog = 2
    MaxTroubles = 1
    MaxClicks = 2
    Nil = Nil

INVARIANTS
    CursorGapFree
    SentIsShown

PROPERTIES
    CursorForward
    MessagesAppear

CHECK_DEADLOCK FALSE
