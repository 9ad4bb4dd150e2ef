SPECIFICATION ReadSpec
CONSTANTS
    p1 = p1
    p2 = p2
    c1 = c1
    c2 = c2
    v1 = v1
    Nobody = Nobody
    NoPusher = NoPusher
    Broken = Broken
    PageSize = 4
    ChunkSize = 2
    Pushers <- MCPushers
    Sizes <- MCSizes
    MaxBytes = 7
    Width = 1024
    Clients <- MCClients
    PipeSizes <- MCPipeSizes
    ReadSizes <- MCReadSizes
    BufferSize = 2
    MaxWrites = 3
    Values <- MCValues
INVARIANT NoBrokenInvariant
