SPECIFICATION Spec
CONSTANTS
    Threads = {t1, t2}
    NFrames = 2
    NoThread = NoThread
    Frames = {f1, f2}
    Garbled = Garbled
    Radio = Radio
    MaxCalls = 3
INVARIANTS
    NoFrameLost
