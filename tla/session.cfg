SPECIFICATION FairSpec
CONSTANTS
    HeaderSize = 1
    MaxBodyLengthBytes = 2
    MaxWriteQueuePackets = 2
    MaxWriteQueueBytes = 3
    IdleTimeout = 1
    InboundRateWindow = 2
    MaxInboundPacketsPerWindow = 1
    MaxInboundBytesPerWindow = 2
    BodyLengths <- ShortAndLongBodies
    PacketSizes <- SmallPackets
    MaxAccepted = 3
INVARIANTS
    QueueAccounted
    WritesMatchQueue
    EndReportedOnce
    AtMostOneLateDelivery
    IdleBelowTwiceTimeout
    DeliveryRateBounded
PROPERTIES
    CloseIsSilent
    PipeSpec
    AcceptedIsSent
