SPECIFICATION Spec
CONSTANTS
    Threads = {t1, t2}
    NFrames = 2
    NoThread = NoThread
    Frames = {f1, f2}
    Garbled = Garbled
    Radio = Radio
    MaxCalls = 4
SYMMETRY Symmetric
INVARIANTS
    TypeOK
    ProcedureExclusive
    BufferIsOwn
    PacketIsOwn
    AirWhitened
    LostOnlyWhenOvertaken
    ReceivedCount
    DeliveredInOrder
    DeliveredFromPacket
PROPERTIES
    ImplementsService
