SPECIFICATION MCSpec
CONSTANTS
    Threads = {"h1", "h2"}
    Clients = {"c1"}
    Server = "server"
    LoopTimeout = 2
    Timeouts = {2}
    Naps <- PlainNaps
    Wants = {}
    Shared = FALSE
    WakeTimed = TRUE
    MaxNesting = 2
INVARIANTS
    NobodyLost
    TimerWatched
    ClosedAtEnd
PROPERTIES
    WaitsEnd
