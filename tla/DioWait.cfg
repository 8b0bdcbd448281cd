CONSTANTS
    Threads = {main, boot}
    Callers = {main}
    Lines = {dio0, dio1}
    Rising = {dio0}
    Message = {dio0, dio1}
    Timeouts = {0, 2}
    NoTimer = NoTimer
    Modulus = 9
    MaxLate = 1
SPECIFICATION FairSpec
INVARIANTS TypeOK NoLostWakeup
PROPERTIES GivesUpRightly QuietUntilTimeout WaitsEnd
