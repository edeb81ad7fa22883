CONSTANTS
    Events = {e1, e2}
    Keys = {k1}
    Scopes = {s1}
    EventTTL = 3
    ConversationTTL = 2
    HistoryTurns = 1
    Limit = 2
    Window = 2
    Day = 2
    MaxTime = 4
    MaxTurns = 4
SPECIFICATION Spec
INVARIANTS StoresAgree
