CONSTANTS
    Parts = {"net", "shm", "bridge", "term", "vm"}
    Calls = {g1, g2}
    TcpAddrs = {p}
    Paths = {u}
    Far = far
    MaxRid = 2
    MaxSock = 3
    MaxCalls = 4
    None = None
    BufferSize = 8
    Margin = 1
    Word = 44
    Sizes = {0, 1, 2, 3}
    MaxMessages = 4
    Tags = {1, 2}
    AnswerSizes = {2, 3}
    MaxRequests = 4
    Terms = {1, 2}
    TermBytes <- MCTermBytes
    Chunks <- MCChunks
    MaxTyped = 3
    MaxVm = 2
    Kinds = {k}
    Aliases = {a, b}
    Guests = {x, y}
    Workers = {w}
    MaxOffers = 2
    Nobody = Nobody
SPECIFICATION Spec
INVARIANTS StateTells NoneLost RingInOrder AnsweredOnceWhole GuestIsNewest
PROPERTY AcceptReturns
CHECK_DEADLOCK FALSE
