SPECIFICATION LiveSpec
CONSTANTS
    Old = b1
    Once = {b2}
    Junk = Junk
    Lost = Lost
    Bytes = {b1, b2}
    Configs <- MCConfigs
    FirstConfig <- MCFirstConfig
    MaxPosition = 2
    MaxWrite = 2
    MaxSyncs = 1
    MaxBuffers = 2
INVARIANTS
    BlocksFollowTheRing
PROPERTIES
    ImplementsFile
    CallsReturn
\* The end is that the object is destroyed.
CHECK_DEADLOCK FALSE
