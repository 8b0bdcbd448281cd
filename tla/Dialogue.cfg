CONSTANTS
    Nodes = {a, b, c}
    Starter = a
    Tcas = {12, 30, 90}
    Tg = 10
    Draws <- Draws44
    CLAMP = 500000
    Modulus = 1000000
    TiModulus = 500
    Bases = {0, 999750}
    MaxLate = 1
    TURN = 1
    AIR = 5
    RX_ON = 10
    Tc = 200
    Tl = 199
    Tfsd = 20
    Treceive = 400
    Begins <- Begun
    SAFE_SLEEP_WINDOW = 5
    Works = {0, 100, 389, 400}
    Holds = {0, 240}
    LAG = 1
    MaxPackets = 3
SYMMETRY Alike
SPECIFICATION Spec
INVARIANTS TypeOK ReturnsInTime AnswersCollide AnswerInWindow
PROPERTIES AnswerHeard
CHECK_DEADLOCK FALSE
