SPECIFICATION Spec
CONSTANTS
    None = None
    Threads = {t1, t2}
    Keys = {"k"}
    Events <- MCEvents
    Questions = {q1, q2, q3}
    Resets = {r1}
    Counts = {}
    Helps = {}
    KeyOf <- MCKeyOf
    ActorOf <- MCActorOf
    KindOf <- MCKindOf
    EventTTL = 9
    ConversationTTL = 1
    HistoryTurns = 1
    UserLimit = 4
    UserWindow = 9
    DailyLimit = 4
    Day = 9
    MaxTime = 1
    MaxDeliveries = 4
    MaxCrashes = 1
SYMMETRY ServiceSymmetry
INVARIANTS
    TypeOK
    ContextStable
    HistoryInOrder
    ContextIsPaired
    ResetIsEffective
    HistoryWasShown
    PaidOnce
