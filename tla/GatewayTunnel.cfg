\* One caller, two requests, one reply in flight, the heartbeat and Close.
SPECIFICATION FairSpec
CONSTANTS
    c1 = c1
    c2 = c2
    Callers = {c1}
    Reader = Reader
    Keeper = Keeper
    Closer = Closer
    Free = Free
    Empty = Empty
    Died = Died
    Gone = Gone
    Nobody = Nobody

    MaxRequests = 2
    MaxDown = 1
INVARIANTS
    StreamSound
    OwnReply
PROPERTIES
    NobodyHangs
