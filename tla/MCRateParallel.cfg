CONSTANTS
    Threads = {t1, t2}
    Actors = {a}
    EventTTL = 1
    ConversationTTL = 0
    HistoryTurns = 0
    UserLimit = 2
    UserWindow = 2
    DailyLimit = 2
    Day = 3
    PurgeRuns = TRUE
    MaxTime = 5
    MaxRequests = 6
SPECIFICATION Spec
SYMMETRY ThreadSymmetry
INVARIANTS WindowNearlyRespected TableBounded RefusalsEnd
