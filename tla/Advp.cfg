SPECIFICATION Spec
CONSTANTS
    SAFE_SLEEP_WINDOW = 3
    RX_TIME = 2
    MIN_ADVP_TIME = 12
    N_FRAMES = 5
    Tfsd = 8
    Times = {3, 15}
    Bases = {0, 63980}
    MaxCsma = 5
    MaxAir = 2
    MaxConf = 1
    Modulus = 64000
    TiModulus = 64
    MaxClock = 30
CHECK_DEADLOCK FALSE
INVARIANTS
    TypeOK
    Rendezvous
    OneFrame
PROPERTY
    StartsWhenAnnounced
