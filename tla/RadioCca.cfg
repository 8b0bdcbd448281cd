SPECIFICATION Spec
CONSTANTS
    FIFO_SIZE = 6
    VALUE_FIFO_THRESH = 3
    Sizes = {1, 2, 5}
    MaxFrames = 2
INVARIANTS
    BusyMeansCarrier
