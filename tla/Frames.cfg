SPECIFICATION Spec
CONSTANTS
    N_FRAMES = 2
    Senders = {35, 255}
    Receivers = {35, 83}
    Controls = {0, 32}
    Flags = {0, 32, 64}
    Extras = {0, 3}
    Lengths = {5, 20, 253, 254, 255}
    Times = {0, 4660, 65535}
    Masks = {1, 16}
    Places = {1, 4, 30}
CHECK_DEADLOCK FALSE
INVARIANTS
    TypeOK
    FieldsKept
    PacketDecodes
