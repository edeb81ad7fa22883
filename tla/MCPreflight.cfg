SPECIFICATION ProcessSpec
CONSTANTS
    Settings <- MCSettings
    Stop = 9
    Margin = 1
    ProviderLimit = 4
    PostLimit = 2
    TextParts = 5
    Jobs = {j1}
    Notice = notice
    Channels = {"c"}
    ChannelOf <- MCChannelOf
    Gap = 1
    StoreWait = 1
    StoreDelay = 1
    None = None
    Inodes = {i1, i2}
    MaxWrites = 0
    Nobody = nobody
    Faults = {"none", "directory"}
    MaxCrashes = 0
PROPERTIES
    PreflightFailureStops
