CONSTANTS
    Modulus = 100000
    TiModulus = 32
    Bases = {0, 60000, 99995}
    Periods = {0, 1, 9, 40000, 99999}
    Works = {0, 3, 8, 9, 59990, 99999, 100010}
    Goals = {0, 5, 13, 20, 40}
    Holds = {0, 3}
    Airs = {2, 7}
    MaxLate = 1
    MaxCalls = 4
SPECIFICATION Spec
PROPERTIES OnTheGrid FloodsUntilEnd
CHECK_DEADLOCK FALSE
