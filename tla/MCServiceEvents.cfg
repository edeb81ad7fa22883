SPECIFICATION FairSpec
CONSTANTS
    None = None
    Threads = {t1, t2}
    Keys = {"k"}
    Events <- MCEvents
    Questions = {q1, q2}
    Resets = {}
    Counts = {c1}
    Helps = {i1}
    KeyOf <- MCKeyOf
    ActorOf <- MCActorOf
    KindOf <- MCKindOf
    EventTTL = 2
    ConversationTTL = 1
    HistoryTurns = 1
    UserLimit = 1
    UserWindow = 1
    DailyLimit = 1
    Day = 2
    MaxTime = 1
    MaxDeliveries = 3
    MaxCrashes = 1
INVARIANTS
    BudgetRespected
PROPERTIES
    FulfilsContract
    Returns
