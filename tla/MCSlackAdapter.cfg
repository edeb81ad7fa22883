CONSTANTS
    d1 = d1
    d2 = d2
    d3 = d3
    d4 = d4
    x = x
    y = y
    Deliveries = {d1, d2, d4}
    EventOf <- MCEventOf
    Threads = {x, y}
    ThreadOf <- MCThreadOf
    Workers = {w1, w2}
    QueueSizes = {1, 2}
    Pill = Pill
    None = None
SPECIFICATION FairSpec
INVARIANTS NoThreadStranded BeginNeverWaits QueuesAccounted EndedIsQuiet
PROPERTIES RefinesMutex Stops AcceptedIsResolved
