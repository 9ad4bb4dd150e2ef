SPECIFICATION BytesFairSpec
CONSTANTS
    w1 = w1
    w2 = w2
    NoWriter = NoWriter
    Size = 5
    Writers <- MCWriters
    Sizes <- MCSizes
    MaxPackets = 4
    Capacity = 6
    InputPacket = 2
    OutputPacket = 3
    RequiredFree = 2
    DataSizes <- MCDataSizes
    Thresholds <- MCThresholds
    MaxBytes = 12
INVARIANTS
    BytesStayApart
PROPERTIES
    BytesImplementFifo
    BytesAreTaken
