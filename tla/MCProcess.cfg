SPECIFICATION ProcessSpec
CONSTANTS
    Settings <- MCSettings
    Stop = 9
    Margin = 1
    ProviderLimit = 4
    PostLimit = 2
    TextParts = 5
    Jobs = {j1}
    Notice = notice
    Channels = {"c"}
    ChannelOf <- MCChannelOf
    Gap = 1
    StoreWait = 1
    StoreDelay = 1
    None = None
    Inodes = {i1, i2}
    MaxWrites = 1
    Nobody = nobody
    Faults = {"none", "preflight", "secret", "directory", "platform"}
    MaxCrashes = 1
INVARIANTS
    SlackEndsInTime
    StatusCleared
    ErrorIsLast
    OnePartNotCutOff
    DiscordEndsInTime
    PackIsSnapshot
    TransientsAreRetried
PROPERTIES
    PostsPaced
    MisconfiguredStops
