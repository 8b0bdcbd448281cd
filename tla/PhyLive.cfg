SPECIFICATION FairSpec
CONSTANTS
    Threads = {t1, t2, t3}
    NFrames = 1
    NoThread = NoThread
    Frames = {f1}
    Garbled = Garbled
    Radio = Radio
    MaxCalls = 2
PROPERTIES
    StartEnters
