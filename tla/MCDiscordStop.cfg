CONSTANTS
    m1 = m1
    m2 = m2
    m3 = m3
    m4 = m4
    x = x
    y = y
    z = z
    Mentions = {m1, m2, m3, m4}
    Channels = {x, y, z}
    ChannelOf <- MCChannelOf
    Workers = {w1, w2}
    QueueSizes = {1}
    Pill = Pill
    None = None
SPECIFICATION FairSpec
PROPERTIES StopClosesClient
