----------------------------- MODULE AdvpProofs -----------------------------
(***************************************************************************)
(* Theorems about Advp, for all windows, durations and advertising times.  *)
(***************************************************************************)
EXTENDS Advp, SequenceTheorems, TLAPS

\* Nobody is late: the clock does not pass a moment somebody waits for.
OnTime ==
    /\ Waiting(s_pc) => clock <= s_until
    /\ Waiting(r_pc) => clock <= r_until

\* The times of the call, and the end that the loop compares with.
CallInv ==
    s_pc # "idle" =>
        /\ called <= clock /\ called <= due
        /\ 1000 * (due - called) < TiModulus * 977
        /\ end = (due + base) % Modulus

\* The rows a packet will take, by the place of the sender.
RowsInv ==
    /\ s_pc = "idle" => fresh = 1
    /\ s_pc = "loop" /\ step = 0 => fresh = 1
    /\ s_pc \in {"csma", "bgsend"} => fresh = 0 /\ step = 1
    /\ s_pc = "csma" => Len(rows) = 1 /\ rows[1].added <= s_until
    /\ s_pc \in {"loop", "config"} /\ fresh = 0 =>
            refused = 1 /\ Len(rows) = 1 /\ rows[1].added <= clock
    /\ s_pc \in {"loop", "config", "csma", "bgsend"} /\ fresh = 0 =>
            Len(rows) > 0 /\ rows[1].kind = "bg"
    /\ s_pc = "bgsend" => clock <= s_until /\ rows[1].added < s_until

\* Without a wrap under way the loop ends in time.
LateInv == WithinTurn =>
    /\ s_pc = "loop" => clock < due + MaxCsma + MaxAir
    /\ s_pc = "csma" => s_until < due + MaxCsma
    /\ s_pc = "bgsend" => s_until < due + MaxCsma + MaxAir
    /\ s_pc = "config" => s_until < due + MaxCsma + MaxAir + MaxConf

\* The time is over when the foreground packet is prepared, or the clock wraps
\* before it would be, and the loop is not entered.
OverInv ==
    /\ s_pc \in {"config", "fgsend", "done"} /\ Turn(called) = Turn(due) =>
            due <= clock
    /\ s_pc # "idle" /\ Turn(called) # Turn(due) =>
            /\ step = 0 /\ s_pc \notin {"csma", "bgsend"}
            /\ s_pc = "loop" => clock = called
            /\ s_pc = "config" => s_until <= called + MaxConf

\* What a frame in the buffer or in the scanner announces.
Announced(f) ==
    /\ f.added < due /\ called <= f.added
    /\ due - f.added - 1 <= Systime(f.time) /\ Systime(f.time) <= due - f.added

AnnouncedInv ==
    WithinTurn /\ s_pc \in {"loop", "config", "csma", "bgsend"} /\ fresh = 0 =>
        Announced(rows[1])

HasHeard == r_pc \in {"config", "sleep", "turn", "listen", "receive", "missed"}

HeardInv == HasHeard =>
    /\ s_pc \notin {"idle", "csma"} /\ step = 1
    /\ WithinTurn => Announced(heard)
    /\ heard.added < heard.at /\ heard.at <= clock
    /\ r_pc = "config" => r_until <= heard.at + MaxConf

\* A prompt advertisement leaves the sender this long ...
Met == Prompt /\ WithinTurn
SenderInv == Met =>
    /\ s_pc = "loop" => clock < due + MaxAir
    /\ s_pc = "bgsend" => s_until < due + MaxAir
    /\ s_pc = "config" => s_until < due + MaxAir + MaxConf
    /\ s_pc \in {"fgsend", "done"} => r_pc = "receive"

\* ... and the scanner is on before the time is over, until then.
Start == due - SAFE_SLEEP_WINDOW - RX_TIME
ScannerInv == Met =>
    /\ r_pc = "sleep" => Start <= r_until /\ r_until <= Start + MaxAir
    /\ r_pc = "turn" => Start <= r_until /\ r_until <= Start + MaxAir + RX_TIME
    /\ r_pc = "listen" => r_until >= Start + Tfsd
    /\ r_pc # "missed"

IInv ==
    /\ TypeOK /\ OnTime /\ CallInv
    /\ RowsInv /\ OneFrame /\ LateInv /\ OverInv /\ AnnouncedInv
    /\ HeardInv /\ SenderInv /\ ScannerInv

----------------------------------------------------------------------------
(* What the types say, spelt out *)

\* The constants are numbers, and the windows cover what they are for.
LEMMA Constants ==
    /\ SAFE_SLEEP_WINDOW \in Nat /\ RX_TIME \in Nat /\ MIN_ADVP_TIME \in Nat
    /\ Tfsd \in Nat /\ MaxCsma \in Nat /\ MaxAir \in Nat /\ MaxConf \in Nat
    /\ MaxClock \in Nat
    /\ N_FRAMES \in Nat /\ N_FRAMES > 0
    /\ Modulus \in Nat /\ Modulus > 0 /\ TiModulus \in Nat /\ TiModulus > 0
    /\ TiModulus * 977 <= Modulus
    /\ 0 < MaxAir /\ MaxAir < SAFE_SLEEP_WINDOW
    /\ SAFE_SLEEP_WINDOW + RX_TIME + MaxAir + MaxConf <= Tfsd
  BY TimeAssumption, TimesAssumption, WindowsAssumption

\* The moments are numbers and the places are known.
LEMMA Moments ==
    ASSUME TypeOK
    PROVE  /\ clock \in Nat /\ s_until \in Nat /\ r_until \in Nat
           /\ end \in Nat /\ called \in Nat /\ due \in Nat /\ base \in Nat
           /\ heard.time \in Nat /\ heard.added \in Nat /\ heard.at \in Nat
           /\ s_pc \in {"idle", "loop", "csma", "bgsend", "config", "fgsend", "done"}
           /\ fresh \in {0, 1} /\ step \in {0, 1} /\ refused \in {0, 1}
           /\ rows \in Seq(Row) /\ Len(rows) \in Nat
  BY Constants, TimesAssumption DEF TypeOK

\* The frame a scanner takes from a packet is a frame.
LEMMA FirstRow ==
    ASSUME TypeOK, Len(rows) > 0
    PROVE  /\ rows[1] \in Row
           /\ rows[1].time \in Nat /\ rows[1].added \in Nat
<1>1. rows \in Seq(Row) /\ Len(rows) \in Nat
  BY DEF TypeOK
<1>2. 1 \in 1 .. Len(rows)
  BY <1>1
<1>3. rows[1] \in Row
  BY <1>1, <1>2
<1> QED
  BY <1>3 DEF Row

USE Constants

----------------------------------------------------------------------------
(* Time *)

LEMMA ModulusType == Modulus \in Nat \ {0}
BY TimeAssumption

LEMMA TiModulusType == TiModulus \in Nat \ {0}
BY TimeAssumption

LEMMA DivMod ==
    ASSUME NEW a \in Nat
    PROVE  /\ a % Modulus \in 0 .. Modulus - 1
           /\ a \div Modulus \in Int
           /\ a = Modulus * (a \div Modulus) + (a % Modulus)
BY ModulusType

LEMMA Wrapped ==
    ASSUME NEW x \in Int
    PROVE  /\ x % Modulus \in 0 .. Modulus - 1
           /\ x \in 0 .. Modulus - 1 => x % Modulus = x
           /\ x \in -Modulus .. -1 => x % Modulus = x + Modulus
BY ModulusType

LEMMA Remainder ==
    ASSUME NEW x \in Nat, NEW m \in Nat \ {0}
    PROVE  /\ x % m \in Nat /\ x % m <= x /\ x % m < m
           /\ x < m => x % m = x
OBVIOUS

LEMMA TiType ==
    ASSUME NEW y \in Int
    PROVE  Ti(y) \in Nat
<1>1. (y * 1000) % Modulus \in Nat
  BY Wrapped, ModulusType
<1>2. ((y * 1000) % Modulus) \div 977 \in Nat
  BY <1>1
<1> QED
  BY <1>2, Remainder, TiModulusType, ModulusType DEF Ti

LEMMA TurnMonotonic ==
    ASSUME NEW a \in Nat, NEW b \in Nat, a <= b
    PROVE  a \div Modulus <= b \div Modulus
<1> DEFINE qa == a \div Modulus
           qb == b \div Modulus
<1>1. /\ a % Modulus \in 0 .. Modulus - 1 /\ b % Modulus \in 0 .. Modulus - 1
      /\ qa \in Int /\ qb \in Int
      /\ a = Modulus * qa + (a % Modulus) /\ b = Modulus * qb + (b % Modulus)
  BY DivMod
<1> HIDE DEF qa, qb
<1>2. Modulus * (qa - qb) = (a - b) - ((a % Modulus) - (b % Modulus))
  BY <1>1, ModulusType
<1>3. Modulus * (qa - qb) < Modulus
  BY <1>1, <1>2, ModulusType
<1>4. qa - qb < 1
  BY <1>1, <1>3, ModulusType
<1>5. qa <= qb
  BY <1>1, <1>4
<1> QED
  BY <1>5 DEF qa, qb

LEMMA Multiple ==
    ASSUME NEW k \in Int, -Modulus < Modulus * k, Modulus * k < 2 * Modulus
    PROVE  k \in {0, 1}
BY ModulusType

LEMMA Added ==
    ASSUME NEW a \in Nat, NEW k \in 0 .. Modulus - 1
    PROVE  (a + k) % Modulus = IF (a % Modulus) + k < Modulus
                                 THEN (a % Modulus) + k ELSE ((a % Modulus) + k) - Modulus
<1> DEFINE b == a + k
           qa == a \div Modulus
           qb == b \div Modulus
           ra == a % Modulus
           rb == b % Modulus
<1>1. b \in Nat
  BY ModulusType
<1>2. /\ ra \in 0 .. Modulus - 1 /\ rb \in 0 .. Modulus - 1 /\ qa \in Int /\ qb \in Int
      /\ a = Modulus * qa + ra /\ b = Modulus * qb + rb /\ b = a + k
  BY <1>1, DivMod
<1> HIDE DEF qa, qb, ra, rb, b
<1>3. Modulus * (qb - qa) = (ra + k) - rb
  BY <1>2, ModulusType
<1>4. qb - qa \in {0, 1}
  <2>1. -Modulus < Modulus * (qb - qa) /\ Modulus * (qb - qa) < 2 * Modulus
    BY <1>2, <1>3, ModulusType
  <2> QED
    BY <1>2, <2>1, Multiple
<1>5. rb = ra + k \/ rb = (ra + k) - Modulus
  BY <1>2, <1>3, <1>4, ModulusType
<1>6. rb = IF ra + k < Modulus THEN ra + k ELSE (ra + k) - Modulus
  BY <1>2, <1>5, ModulusType
<1> QED
  BY <1>6 DEF b, ra, rb

\* Two moments of one turn compare as on a clock that does not wrap, and two less
\* than a turn apart, but of different turns, never do.
LEMMA Compare ==
    ASSUME NEW a \in Nat, NEW b \in Nat
    PROVE  /\ a \div Modulus = b \div Modulus =>
                /\ a % Modulus < b % Modulus <=> a < b
                /\ (b % Modulus) - (a % Modulus) = b - a
           /\ a <= b /\ b - a < Modulus /\ a \div Modulus # b \div Modulus =>
                ~(a % Modulus < b % Modulus)
<1> DEFINE qa == a \div Modulus
           qb == b \div Modulus
           ra == a % Modulus
           rb == b % Modulus
<1>1. /\ ra \in 0 .. Modulus - 1 /\ rb \in 0 .. Modulus - 1 /\ qa \in Int /\ qb \in Int
      /\ a = Modulus * qa + ra /\ b = Modulus * qb + rb
  BY DivMod
<1>2. a <= b => qa <= qb
  BY TurnMonotonic
<1> HIDE DEF qa, qb, ra, rb
<1>3. qa = qb => (ra < rb <=> a < b) /\ rb - ra = b - a
  BY <1>1, ModulusType
<1>4. ASSUME a <= b, b - a < Modulus, qa # qb
      PROVE  ~(ra < rb)
  <2>1. Modulus * (qb - qa) = (b - a) - (rb - ra)
    BY <1>1, ModulusType
  <2>2. qb - qa \in Int /\ qb - qa >= 1
    BY <1>1, <1>2, <1>4
  <2>3. Modulus * (qb - qa) >= Modulus
    BY <2>2, ModulusType
  <2> QED
    BY <1>1, <1>4, <2>1, <2>3, ModulusType
<1> QED
  BY <1>3, <1>4 DEF qa, qb, ra, rb

\* There and back loses a tick at most, if nothing wraps.
LEMMA Rounding ==
    ASSUME NEW y \in Nat, y * 1000 < Modulus, y * 1000 < TiModulus * 977
    PROVE  Systime(Ti(y)) \in {y - 1, y}
<1> DEFINE z == (y * 1000) \div 977
<1>1. (y * 1000) % Modulus = y * 1000
  <2>1. y * 1000 \in 0 .. Modulus - 1 /\ y * 1000 \in Int
    BY ModulusType
  <2> QED
    BY <2>1, Wrapped
<1>2. z \in Nat /\ z < TiModulus /\ (z * 977) \div 1000 \in {y - 1, y}
  BY TiModulusType
<1>3. Ti(y) = z % TiModulus
  BY <1>1 DEF Ti
<1> HIDE DEF z
<1>4. z % TiModulus = z
  BY <1>2, Remainder, TiModulusType
<1> QED
  BY <1>2, <1>3, <1>4 DEF Systime

\* A time of the protocol is a time of the kernel, and small enough for MS2ST.
LEMMA SystimeType ==
    ASSUME NEW t \in Nat
    PROVE  /\ Systime(t) \in Nat
           /\ t < TiModulus => 1000 * Systime(t) < TiModulus * 977
<1>1. (t * 977) \div 1000 \in Nat /\ 1000 * ((t * 977) \div 1000) <= t * 977
  OBVIOUS
<1>2. t < TiModulus => t * 977 < TiModulus * 977
  BY Constants
<1> QED
  BY <1>1, <1>2, Constants DEF Systime

\* A thread that sleeps x milliseconds sleeps x ticks, when x is not 0 and does
\* not overflow the product in MS2ST.
LEMMA TicksKept ==
    ASSUME NEW x \in Nat \ {0}, 1000 * x < Modulus
    PROVE  Ticks(x) = x
<1>1. x - 1 \in 0 .. Modulus - 1 /\ (x - 1) * 1000 \in 0 .. Modulus - 1
  BY Constants
<1>2. (x - 1) % Modulus = x - 1 /\ ((x - 1) * 1000) % Modulus = (x - 1) * 1000
  BY <1>1, Wrapped
<1>3. ((x - 1) * 1000) \div 1000 = x - 1
  OBVIOUS
<1> QED
  BY <1>2, <1>3 DEF Ticks

\* Any time is slept some number of ticks.
LEMMA TicksType ==
    ASSUME NEW x \in Int
    PROVE  Ticks(x) \in Nat
<1> DEFINE y == (x - 1) % Modulus
<1>1. y \in Int
  BY Wrapped, ModulusType
<1> HIDE DEF y
<1>2. (y * 1000) % Modulus \in Nat
  BY <1>1, Wrapped, ModulusType
<1>3. ((y * 1000) % Modulus) \div 1000 \in Nat
  BY <1>2
<1> QED
  BY <1>3 DEF Ticks, y

\* Now on the clock that does not wrap.
LEMMA Turns ==
    ASSUME TypeOK, NEW a \in Nat, NEW b \in Nat
    PROVE  /\ a <= b => Turn(a) <= Turn(b)
           /\ Turn(a) \in Int /\ (a + base) % Modulus \in Nat
           /\ Turn(a) = Turn(b) =>
                /\ (a + base) % Modulus < (b + base) % Modulus <=> a < b
                /\ ((b + base) % Modulus) - ((a + base) % Modulus) = b - a
           /\ a <= b /\ b - a < Modulus /\ Turn(a) # Turn(b) =>
                ~((a + base) % Modulus < (b + base) % Modulus)
<1> DEFINE x == a + base
           y == b + base
<1>1. x \in Nat /\ y \in Nat /\ (a <= b <=> x <= y) /\ (a < b <=> x < y) /\ y - x = b - a
  <2>1. base \in Nat
    BY Moments
  <2> QED
    BY <2>1
<1> HIDE DEF x, y
<1>2. x <= y => x \div Modulus <= y \div Modulus
  BY <1>1, TurnMonotonic
<1>3. x \div Modulus \in Int /\ x % Modulus \in Nat
  BY <1>1, DivMod, ModulusType
<1>4. /\ x \div Modulus = y \div Modulus =>
            /\ x % Modulus < y % Modulus <=> x < y
            /\ (y % Modulus) - (x % Modulus) = y - x
      /\ x <= y /\ y - x < Modulus /\ x \div Modulus # y \div Modulus =>
            ~(x % Modulus < y % Modulus)
  BY <1>1, Compare
<1> QED
  BY <1>1, <1>2, <1>3, <1>4 DEF Turn, x, y

\* Between two moments of a turn the turn is the same.
LEMMA Between ==
    ASSUME TypeOK, NEW a \in Nat, NEW b \in Nat, NEW c \in Nat,
           a <= b, b <= c, Turn(a) = Turn(c)
    PROVE  Turn(b) = Turn(a)
<1>1. Turn(a) <= Turn(b) /\ Turn(b) <= Turn(c)
  BY Turns
<1>2. Turn(a) \in Int /\ Turn(b) \in Int
  BY Turns
<1> QED
  BY <1>1, <1>2

\* The condition of the loop, when nothing wraps before the last frame is sent ...
LEMMA LoopInTurn ==
    ASSUME TypeOK, CallInv, LateInv, s_pc = "loop", WithinTurn
    PROVE  /\ More <=> clock < due
           /\ end - Now = due - clock /\ Turn(called) = Turn(due)
<1>1. /\ clock \in Nat /\ called \in Nat /\ due \in Nat
      /\ due + MaxCsma + MaxAir \in Nat
      /\ called <= clock /\ called <= due /\ end = (due + base) % Modulus
      /\ clock <= due + MaxCsma + MaxAir /\ due <= due + MaxCsma + MaxAir
  <2>1. clock \in Nat /\ called \in Nat /\ due \in Nat
    BY Moments
  <2>2. MaxCsma \in Nat /\ MaxAir \in Nat
    BY Constants
  <2>3. clock < due + MaxCsma + MaxAir
    BY DEF LateInv
  <2>4. called <= clock /\ called <= due /\ end = (due + base) % Modulus
    BY DEF CallInv
  <2> QED
    BY <2>1, <2>2, <2>3, <2>4
<1>2. Turn(clock) = Turn(called) /\ Turn(due) = Turn(called)
  BY <1>1, Between DEF WithinTurn
<1>3. /\ (clock + base) % Modulus < (due + base) % Modulus <=> clock < due
      /\ ((due + base) % Modulus) - ((clock + base) % Modulus) = due - clock
  BY <1>1, <1>2, Turns, SMTT(40)
<1> QED
  BY <1>1, <1>2, <1>3 DEF More, Now

\* ... when it wraps before the end ...
LEMMA LoopSkipped ==
    ASSUME TypeOK, CallInv, s_pc = "loop", clock = called, Turn(called) # Turn(due)
    PROVE  ~More
<1>1. /\ clock \in Nat /\ due \in Nat /\ clock <= due /\ due - clock < Modulus
      /\ end = (due + base) % Modulus
  BY Moments, Constants DEF CallInv
<1> QED
  BY <1>1, Turns DEF More, Now

\* ... and when it does not.
LEMMA LoopOver ==
    ASSUME TypeOK, CallInv, s_pc = "loop", ~More, Turn(called) = Turn(due)
    PROVE  due <= clock
<1>1. /\ clock \in Nat /\ due \in Nat /\ called \in Nat /\ called <= clock
      /\ end = (due + base) % Modulus
  BY Moments DEF CallInv
<1> SUFFICES ASSUME clock < due PROVE FALSE
  BY <1>1
<1>2. Turn(clock) = Turn(due)
  BY <1>1, Between
<1>3. (clock + base) % Modulus < (due + base) % Modulus
  BY <1>1, <1>2, Turns
<1> QED
  BY <1>1, <1>3 DEF More, Now

\* The scanner sleeps until its windows begin, when there is time left then.
LEMMA SleepTicks ==
    ASSUME TypeOK
    PROVE  /\ Ticks(SleepTime) \in Nat
           /\ LET x == Systime(heard.time) - (clock - heard.at) - SAFE_SLEEP_WINDOW - RX_TIME
              IN  x > 0 /\ 1000 * x < Modulus => Ticks(SleepTime) = x
<1> DEFINE x == Systime(heard.time) - (clock - heard.at) - SAFE_SLEEP_WINDOW - RX_TIME
<1>1. x \in Int
  <2>1. /\ heard.time \in Nat /\ clock \in Nat /\ heard.at \in Nat
        /\ SAFE_SLEEP_WINDOW \in Nat /\ RX_TIME \in Nat
    BY Moments, Constants
  <2>2. Systime(heard.time) \in Nat
    BY <2>1, SystimeType
  <2> QED
    BY <2>1, <2>2
<1>2. SleepTime = x % Modulus
  BY DEF SleepTime
<1> HIDE DEF x
<1>3. SleepTime \in Int
  BY <1>1, <1>2, Wrapped
<1>4. Ticks(SleepTime) \in Nat
  BY <1>3, TicksType
<1>5. ASSUME x > 0, 1000 * x < Modulus
      PROVE  Ticks(SleepTime) = x
  <2>1. x \in 0 .. Modulus - 1
    BY <1>1, <1>5
  <2>2. SleepTime = x
    BY <1>1, <1>2, <2>1, Wrapped
  <2> QED
    BY <1>1, <1>5, <2>2, TicksKept
<1> USE DEF x
<1> QED
  BY <1>4, <1>5

----------------------------------------------------------------------------
(* The buffer *)

\* A frame is alone in a new packet, and comes after the one already there.
LEMMA AddStep ==
    ASSUME TypeOK, NEW row \in Row, Add(row)
    PROVE  /\ rows' \in Seq(Row) /\ Len(rows') <= N_FRAMES /\ fresh' = 0
           /\ fresh = 1 => Len(rows') = 1 /\ rows'[1] = row
           /\ fresh = 0 /\ Len(rows) = 1 =>
                Len(rows') \in {1, 2} /\ rows'[1] = rows[1]
<1>1. rows \in Seq(Row) /\ Len(rows) <= N_FRAMES /\ fresh \in {0, 1}
  BY DEF TypeOK
<1>2. fresh' = 0
  BY DEF Add
<1>3. CASE fresh = 1
  <2>1. rows' = <<row>>
    BY <1>3 DEF Add
  <2> QED
    BY <1>2, <1>3, <2>1
<1>4. CASE fresh = 0 /\ Len(rows) < N_FRAMES
  <2>1. rows' = Append(rows, row)
    BY <1>4 DEF Add
  <2>2. Append(rows, row) \in Seq(Row) /\ Len(Append(rows, row)) = Len(rows) + 1
    BY <1>1
  <2>3. \A i \in 1 .. Len(rows) : Append(rows, row)[i] = rows[i]
    <3>1. rows \in Seq(Row) /\ row \in Row
      BY <1>1
    <3>2. ASSUME NEW S, NEW q \in Seq(S), NEW e \in S
          PROVE  \A i \in 1 .. Len(q) : Append(q, e)[i] = q[i]
      BY AppendProperties
    <3> QED
      BY <3>1, <3>2
  <2>4. Len(rows') <= N_FRAMES
    BY <1>1, <1>4, <2>1, <2>2
  <2>5. ASSUME Len(rows) = 1
        PROVE  Len(rows') = 2 /\ rows'[1] = rows[1]
    <3>1. 1 \in 1 .. Len(rows)
      BY <2>5
    <3> QED
      BY <2>1, <2>2, <2>3, <2>5, <3>1
  <2>6. rows' \in Seq(Row)
    BY <2>1, <2>2
  <2> QED
    BY <1>2, <1>4, <2>4, <2>5, <2>6
<1>5. CASE fresh = 0 /\ ~(Len(rows) < N_FRAMES)
  <2>1. rows' = rows
    BY <1>5 DEF Add
  <2> QED
    BY <1>1, <1>2, <1>5, <2>1
<1> QED
  BY <1>1, <1>3, <1>4, <1>5

----------------------------------------------------------------------------
(* Types *)

\* The clock is read in the width of a systime_t.
LEMMA NowType ==
    ASSUME TypeOK
    PROVE  Now \in 0 .. Modulus - 1
<1>1. clock + base \in Nat
  BY Moments
<1> QED
  BY <1>1, Wrapped DEF Now

\* The time asked for, or the least, is one of the protocol.
LEMMA Spans ==
    ASSUME NEW time \in Times, Advertise(time)
    PROVE  \E t \in Nat : /\ due' = clock + Systime(t) /\ t < TiModulus
                         /\ end' = (Now + Systime(t)) % Modulus
<1> DEFINE t == IF time < MIN_ADVP_TIME THEN MIN_ADVP_TIME ELSE time
<1>1. t \in Nat /\ t < TiModulus
  BY TimesAssumption, TiModulusType
<1>2. due' = clock + Systime(t) /\ end' = (Now + Systime(t)) % Modulus
  BY DEF Advertise
<1> QED
  BY <1>1, <1>2, Zenon

\* Every step keeps the types.
LEMMA TypeStep ==
    ASSUME IInv, [Next]_vars
    PROVE  TypeOK'
<1>0. Now \in Int /\ clock \in Nat
  BY NowType, Moments DEF IInv
<1>s. \A t \in Nat : Systime(t) \in Nat
  BY SystimeType
<1> USE DEF IInv, TypeOK
<1> USE Moments
<1>1. CASE UNCHANGED vars
  BY <1>1 DEF vars, sender, call, scanner
<1>2. CASE Tick
  BY <1>2 DEF Tick, sender, call, scanner
<1>3. ASSUME NEW time \in Times, Advertise(time)
      PROVE  TypeOK'
  <2>1. PICK t \in Nat : /\ due' = clock + Systime(t) /\ t < TiModulus
                         /\ end' = (Now + Systime(t)) % Modulus
    BY <1>3, Spans
  <2>2. due' \in Nat /\ end' \in Nat
    <3>1. Systime(t) \in Nat /\ Now \in Int /\ clock \in Nat
      BY <1>0, <1>s, Zenon
    <3>2. Now + Systime(t) \in Int
      BY <3>1
    <3>3. (Now + Systime(t)) % Modulus \in Nat
      BY <3>2, Wrapped
    <3>4. due' = clock + Systime(t) /\ end' = (Now + Systime(t)) % Modulus
      BY <2>1, Zenon
    <3>5. clock + Systime(t) \in Nat
      BY ONLY <3>1
    <3> QED
      BY <3>3, <3>4, <3>5, Zenon
  <2> QED
    BY <1>3, <2>2 DEF Advertise, scanner
<1>4. CASE BgFrame
  <2>1. Add([kind |-> "bg", time |-> Ti(end - Now), added |-> clock])
    BY <1>4 DEF BgFrame
  <2>2. Ti(end - Now) \in Nat
    <3>1. end - Now \in Int
      BY <1>0
    <3> QED
      BY <3>1, TiType
  <2>3. [kind |-> "bg", time |-> Ti(end - Now), added |-> clock] \in Row
    BY <2>2 DEF Row
  <2>4. rows' \in Seq(Row) /\ Len(rows') <= N_FRAMES /\ fresh' = 0
    BY <2>1, <2>3, AddStep
  <2> QED
    BY <1>4, <2>4, SMTT(40) DEF BgFrame, scanner, call
<1>5. CASE CsmaSends
  BY <1>5 DEF CsmaSends, sender, call, scanner
<1>6. CASE CsmaRefuses
  BY <1>6 DEF CsmaRefuses, sender, call, scanner
<1>7. CASE BgSent
  <2>1. s_pc = "bgsend" /\ rows \in Seq(Row) /\ Len(rows) > 0
    BY <1>7 DEF BgSent, RowsInv
  <2>3. rows[1].time \in Nat /\ rows[1].added \in Nat
    BY <2>1, FirstRow
  <2>4. UNCHANGED <<clock, s_until, step, end, base, called, due, rows, refused>>
    BY <1>7 DEF BgSent, call
  <2>5. s_pc' = "loop" /\ fresh' = 1
    BY <1>7 DEF BgSent
  <2>6. CASE UNCHANGED scanner
    BY <2>4, <2>5, <2>6 DEF scanner
  <2>7. CASE /\ heard' = [time |-> rows[1].time, added |-> rows[1].added, at |-> clock]
             /\ r_pc' = "config"
             /\ \E d \in 0 .. MaxConf : r_until' = clock + d
    BY <2>3, <2>4, <2>5, <2>7
  <2> QED
    BY <1>7, <2>6, <2>7 DEF BgSent
<1>8. CASE ToForeground
  BY <1>8 DEF ToForeground, sender, call, scanner
<1>9. CASE FgSend
  <2>1. [kind |-> "fg", time |-> 0, added |-> clock] \in Row
    BY DEF Row
  <2>2. rows' \in Seq(Row) /\ Len(rows') <= N_FRAMES /\ fresh' = 0
    BY <1>9, <2>1, AddStep DEF FgSend, call
  <2> QED
    BY <1>9, <2>2 DEF FgSend, call
<1>10. CASE FgSent
  BY <1>10 DEF FgSent, sender, call, scanner
<1>11. CASE Scan
  BY <1>11 DEF Scan, sender, call, scanner
<1>12. CASE ScanFails
  BY <1>12 DEF ScanFails, sender, call, scanner
<1>13. CASE Sleep
  <2>3. Ticks(SleepTime) \in Nat
    BY SleepTicks
  <2> QED
    BY <1>13, <2>3 DEF Sleep, sender, call
<1>14. CASE Wake
  BY <1>14 DEF Wake, sender, call, scanner
<1>15. CASE Listen
  BY <1>15 DEF Listen, sender, call, scanner
<1>16. CASE ListenTimeout
  BY <1>16 DEF ListenTimeout, sender, call, scanner
<1> QED
  BY <1>1, <1>2, <1>3, <1>4, <1>5, <1>6, <1>7, <1>8, <1>9, <1>10, <1>11, <1>12, <1>13, <1>14, <1>15, <1>16 DEF Next

----------------------------------------------------------------------------
(* The sender *)

\* The sender is left alone by time and by the scanner, and no time passes at the
\* head of its loop.
LEMMA OthersSteps ==
    ASSUME IInv,
           \/ UNCHANGED vars \/ Tick \/ Scan \/ ScanFails \/ Sleep \/ Wake
           \/ Listen \/ ListenTimeout
    PROVE  /\ UNCHANGED <<s_pc, s_until, step, end, base, called, due, rows, fresh,
                          refused>>
           /\ clock' \in Nat /\ clock <= clock'
           /\ s_pc = "loop" => clock' = clock
<1>1. clock \in Nat
  BY Moments DEF IInv
<1> QED
  BY <1>1 DEF vars, sender, scanner, call, Tick, Scan, ScanFails, Sleep, Wake,
              Listen, ListenTimeout

\* The turns of a call last as long as it does.
LEMMA TurnsKept ==
    ASSUME UNCHANGED <<base, called, due>>
    PROVE  /\ WithinTurn' <=> WithinTurn
           /\ (Turn(called) = Turn(due))' <=> Turn(called) = Turn(due)
  BY DEF WithinTurn, Turn

LEMMA CallKept ==
    ASSUME TypeOK, CallInv, clock' \in Nat, clock <= clock',
           UNCHANGED <<base, called, due, end>>, s_pc # "idle"
    PROVE  CallInv'
<1>1. called \in Nat /\ clock \in Nat
  BY Moments
<1> QED
  BY <1>1 DEF CallInv

LEMMA CallStep ==
    ASSUME IInv, [Next]_vars
    PROVE  CallInv'
<1>0. TypeOK /\ CallInv
  BY DEF IInv
<1>1. CASE \/ UNCHANGED vars \/ Tick \/ Scan \/ ScanFails \/ Sleep \/ Wake
            \/ Listen \/ ListenTimeout
  <2>1. /\ UNCHANGED <<s_pc, end, base, called, due>>
        /\ clock' \in Nat /\ clock <= clock'
    BY <1>1, OthersSteps
  <2>2. CASE s_pc = "idle"
    BY <2>1, <2>2 DEF CallInv
  <2>3. CASE s_pc # "idle"
    BY <1>0, <2>1, <2>3, CallKept
  <2> QED
    BY <2>2, <2>3
<1>2. ASSUME NEW time \in Times, Advertise(time)
      PROVE  CallInv'
  <2>1. PICK t \in Nat : /\ due' = clock + Systime(t) /\ t < TiModulus
                         /\ end' = (Now + Systime(t)) % Modulus
    BY <1>2, Spans
  <2>2. called' = clock /\ clock' = clock /\ base' = base
    BY <1>2 DEF Advertise
  <2>3. Systime(t) \in Nat /\ 1000 * Systime(t) < TiModulus * 977
    BY <2>1, SystimeType
  <2>4. clock \in Nat /\ base \in Nat
    BY <1>0, Moments
  <2>5. (Now + Systime(t)) % Modulus = ((clock + Systime(t)) + base) % Modulus
    <3> DEFINE k == Systime(t)
               a == clock + base
    <3>1. k \in 0 .. Modulus - 1
      <4>1. k \in Nat /\ 1000 * k < TiModulus * 977
        BY <2>3
      <4> HIDE DEF k
      <4> QED
        BY <4>1, Constants
    <3>2. a \in Nat /\ (clock + k) + base = a + k
      BY <2>3, <2>4
    <3>3. Now = a % Modulus
      BY DEF Now
    <3> HIDE DEF a, k
    <3>4. a % Modulus \in 0 .. Modulus - 1
      BY <3>2, DivMod
    <3>5. (a % Modulus) % Modulus = a % Modulus
      BY <3>4, Wrapped
    <3>6. ((a % Modulus) + k) % Modulus =
            IF (a % Modulus) + k < Modulus
              THEN (a % Modulus) + k ELSE ((a % Modulus) + k) - Modulus
      <4> DEFINE b == a % Modulus
      <4>1. b \in Nat /\ b % Modulus = b
        BY <3>4, <3>5, ModulusType
      <4> HIDE DEF b
      <4>2. (b + k) % Modulus = IF (b % Modulus) + k < Modulus
                 THEN (b % Modulus) + k ELSE ((b % Modulus) + k) - Modulus
        BY <3>1, <4>1, Added
      <4> QED
        BY <4>1, <4>2 DEF b
    <3>7. (a + k) % Modulus = IF (a % Modulus) + k < Modulus
              THEN (a % Modulus) + k ELSE ((a % Modulus) + k) - Modulus
      BY <3>1, <3>2, Added
    <3> QED
      BY <3>2, <3>3, <3>6, <3>7 DEF k
  <2>6. due' - called' = Systime(t) /\ called' <= due' /\ called' <= clock'
    BY <2>1, <2>2, <2>3, <2>4
  <2>7. 1000 * (due' - called') < TiModulus * 977
    <3> DEFINE k == Systime(t)
               d == due' - called'
    <3>1. k \in Nat /\ 1000 * k < TiModulus * 977
      BY <2>3
    <3>2. d = k
      BY <2>6
    <3> HIDE DEF k, d
    <3>3. 1000 * d < TiModulus * 977
      BY <3>1, <3>2
    <3> QED
      BY <3>3 DEF d
  <2>8. end' = (due' + base') % Modulus
    BY <2>1, <2>2, <2>5, ZenonT(40)
  <2> QED
    BY <2>6, <2>7, <2>8, ZenonT(40) DEF CallInv
<1>3. CASE BgFrame \/ CsmaSends \/ CsmaRefuses \/ BgSent \/ ToForeground
            \/ FgSend \/ FgSent
  <2>1. s_pc # "idle" /\ UNCHANGED <<clock, end, base, called, due>>
    BY <1>3 DEF BgFrame, CsmaSends, CsmaRefuses, BgSent, ToForeground, FgSend,
                FgSent, call
  <2> QED
    BY <1>0, <2>1, CallKept, Moments
<1> QED
  BY <1>1, <1>2, <1>3 DEF Next

\* Every step keeps what is known of the sender.
LEMMA SenderStep ==
    ASSUME IInv, [Next]_vars
    PROVE  OnTime' /\ RowsInv' /\ OneFrame'
<1> DEFINE Kept == OnTime' /\ RowsInv' /\ OneFrame'
<1>0. TypeOK /\ OnTime /\ RowsInv /\ OneFrame
  BY DEF IInv
<1> USE <1>0, Moments DEF OnTime, RowsInv, OneFrame, Waiting
<1>1. CASE UNCHANGED vars
  BY <1>1 DEF vars, sender, scanner
<1>2. CASE Tick
  <2>1. /\ clock' = clock + 1 /\ UNCHANGED <<sender, scanner>> /\ s_pc # "loop"
        /\ Waiting(s_pc) => clock < s_until
        /\ Waiting(r_pc) => clock < r_until
    BY <1>2 DEF Tick
  <2>3. RowsInv'
    BY <2>1, FirstRow DEF sender
  <2> QED
    BY <2>1, <2>3 DEF sender, scanner
<1>3. ASSUME NEW time \in Times, Advertise(time)
      PROVE  Kept
  BY <1>3 DEF Advertise, scanner
<1>4. CASE BgFrame
  <2> DEFINE row == [kind |-> "bg", time |-> Ti(end - Now), added |-> clock]
  <2>1. Add(row)
    BY <1>4 DEF BgFrame
  <2>2. /\ s_pc = "loop" /\ step' = 1
        /\ UNCHANGED <<clock, refused, scanner>>
        /\ \/ step = 0 /\ s_pc' = "csma" /\ \E d \in 0 .. MaxCsma : s_until' = clock + d
           \/ step # 0 /\ s_pc' = "bgsend" /\ \E d \in 1 .. MaxAir : s_until' = clock + d
    BY <1>4 DEF BgFrame
  <2>3. row \in Row /\ row.kind = "bg" /\ row.added = clock
    <3>1. end - Now \in Int
      BY NowType
    <3>2. Ti(end - Now) \in Nat
      BY <3>1, TiType
    <3> QED
      BY <3>2 DEF Row
  <2> HIDE DEF row
  <2>4. /\ rows' \in Seq(Row) /\ Len(rows') <= N_FRAMES /\ fresh' = 0
        /\ fresh = 1 => Len(rows') = 1 /\ rows'[1] = row
        /\ fresh = 0 /\ Len(rows) = 1 => Len(rows') \in {1, 2} /\ rows'[1] = rows[1]
    BY <2>1, <2>3, AddStep
  <2>5. /\ rows'[1].kind = "bg" /\ rows'[1].added <= clock
        /\ Len(rows') = 1 \/ (refused = 1 /\ Len(rows') = 2)
        /\ step = 0 => Len(rows') = 1
    <3>1. CASE fresh = 1
      BY <2>3, <2>4, <3>1
    <3>2. CASE fresh = 0
      BY <2>2, <2>4, <3>2
    <3> QED
      BY <3>1, <3>2
  <2>6. rows'[1].added \in Nat
    <3>1. CASE fresh = 1
      BY <2>3, <2>4, <3>1
    <3>2. CASE fresh = 0
      BY <2>2, <2>4, <3>2, FirstRow
    <3> QED
      BY <3>1, <3>2
  <2>7. clock' = clock /\ clock \in Nat /\ s_until' \in Nat /\ clock <= s_until'
        /\ (s_pc' = "bgsend" => clock < s_until')
    BY <2>2, SMTT(40)
  <2>8. OneFrame'
    BY <2>2, <2>5
  <2>9. OnTime'
    BY <2>2, <2>7 DEF scanner
  <2>10. RowsInv'
    <3>1. /\ s_pc' \in {"csma", "bgsend"} /\ step' = 1 /\ fresh' = 0
          /\ clock' = clock
          /\ s_pc' = "csma" => step = 0
      BY <2>2, <2>4
    <3>3. rows'[1].added <= s_until' /\ (s_pc' = "bgsend" => rows'[1].added < s_until')
      <4>1. rows'[1].added <= clock
        BY <2>5
      <4> HIDE <1>0
      <4> QED
        BY <2>6, <2>7, <4>1
    <3>4. Len(rows') > 0 /\ clock <= s_until'
      BY <2>5, <2>7
    <3> QED
      BY <3>1, <3>3, <3>4, <2>5
  <2> QED
    BY <2>8, <2>9, <2>10
<1>5. CASE CsmaSends
  <2>1. PICK d \in 1 .. MaxAir : s_until' = clock + d
    BY <1>5 DEF CsmaSends
  <2>2. /\ s_pc = "csma" /\ clock = s_until /\ s_pc' = "bgsend"
        /\ UNCHANGED <<clock, step, rows, fresh, refused, scanner>>
    BY <1>5 DEF CsmaSends
  <2>3. s_until' \in Nat /\ clock < s_until'
    BY <2>1, SMTT(40)
  <2>4. rows[1].added \in Nat /\ rows[1].added <= clock
    BY <2>2, FirstRow
  <2>5. OnTime' /\ OneFrame'
    BY <2>2, <2>3 DEF scanner
  <2>6. fresh = 0 /\ step = 1 /\ Len(rows) = 1 /\ rows[1].kind = "bg"
    BY <2>2
  <2>7. rows[1].added < s_until' /\ clock <= s_until'
    BY <2>3, <2>4, SMTT(40)
  <2>8. RowsInv'
    <3>1. s_pc' \in {"csma", "bgsend"} => fresh' = 0 /\ step' = 1
      BY <2>2, <2>6
    <3>2. Len(rows') > 0 /\ rows'[1].kind = "bg"
      <4>1. Len(rows) > 0 /\ rows[1].kind = "bg"
        BY <2>6
      <4> QED
        BY <2>2, <4>1, Zenon
    <3>3. clock' <= s_until' /\ rows'[1].added < s_until'
      BY <2>2, <2>7
    <3> QED
      BY <2>2, <3>1, <3>2, <3>3
  <2> QED
    BY <2>5, <2>8
<1>6. CASE CsmaRefuses
  BY <1>6, FirstRow DEF CsmaRefuses, scanner
<1>7. CASE BgSent
  BY <1>7 DEF BgSent, scanner
<1>8. CASE ToForeground
  BY <1>8 DEF ToForeground, scanner
<1>9. CASE FgSend
  <2> DEFINE row == [kind |-> "fg", time |-> 0, added |-> clock]
  <2>1. row \in Row
    BY DEF Row
  <2>2. /\ fresh = 1 => Len(rows') = 1 /\ rows'[1] = row
        /\ fresh = 0 /\ Len(rows) = 1 => Len(rows') \in {1, 2} /\ rows'[1] = rows[1]
    BY <1>9, <2>1, AddStep DEF FgSend
  <2>3. s_pc = "config" /\ refused' = refused
    BY <1>9 DEF FgSend
  <2>4. OneFrame'
    BY <2>2, <2>3
  <2>5. OnTime' /\ RowsInv'
    BY <1>9 DEF FgSend
  <2> QED
    BY <2>4, <2>5
<1>10. CASE FgSent
  BY <1>10 DEF FgSent, scanner
<1>11. CASE Scan
  BY <1>11 DEF Scan, sender
<1>12. CASE ScanFails
  BY <1>12 DEF ScanFails, sender
<1>13. CASE Sleep
  BY <1>13, SleepTicks DEF Sleep, sender
<1>14. CASE Wake
  BY <1>14 DEF Wake, sender
<1>15. CASE Listen
  BY <1>15 DEF Listen, sender
<1>16. CASE ListenTimeout
  BY <1>16 DEF ListenTimeout, sender
<1> QED
  BY <1>1, <1>2, <1>3, <1>4, <1>5, <1>6, <1>7, <1>8, <1>9, <1>10, <1>11, <1>12, <1>13, <1>14, <1>15, <1>16 DEF Next

\* Every step keeps the sender in time with the end.
LEMMA LateStep ==
    ASSUME IInv, [Next]_vars
    PROVE  LateInv' /\ OverInv'
<1>0. TypeOK /\ OnTime /\ CallInv /\ LateInv /\ OverInv
  BY DEF IInv
<1>a. /\ clock \in Nat /\ s_until \in Nat /\ called \in Nat /\ due \in Nat
      /\ s_pc \in {"idle", "loop", "csma", "bgsend", "config", "fgsend", "done"}
      /\ s_pc # "idle" => called <= clock
      /\ Waiting(s_pc) => clock <= s_until
  BY <1>0, Moments DEF CallInv, OnTime
<1>1. CASE \/ UNCHANGED vars \/ Tick \/ Scan \/ ScanFails \/ Sleep \/ Wake
            \/ Listen \/ ListenTimeout
  <2>1. /\ UNCHANGED <<s_pc, s_until, step, base, called, due>>
        /\ clock' \in Nat /\ clock <= clock'
        /\ s_pc = "loop" => clock' = clock
    BY <1>1, OthersSteps
  <2>2. /\ WithinTurn' <=> WithinTurn
        /\ (Turn(called) = Turn(due))' <=> Turn(called) = Turn(due)
    BY <2>1, TurnsKept
  <2>3. LateInv'
    BY <1>0, <2>1, <2>2 DEF LateInv
  <2>4. due <= clock => due' <= clock'
    BY <1>a, <2>1
  <2> QED
    BY <1>0, <2>1, <2>2, <2>3, <2>4, Zenon DEF OverInv
<1>2. ASSUME NEW time \in Times, Advertise(time)
      PROVE  LateInv' /\ OverInv'
  <2>1. PICK t \in Nat : due' = clock + Systime(t)
    BY <1>2, Spans
  <2>2. s_pc' = "loop" /\ clock' = clock /\ called' = clock /\ step' = 0
    BY <1>2 DEF Advertise
  <2>3. Systime(t) \in Nat
    BY SystimeType
  <2>4. clock' < due' + MaxCsma + MaxAir
    BY <1>a, <2>1, <2>2, <2>3
  <2> QED
    BY <2>2, <2>4 DEF LateInv, OverInv
<1>3. ASSUME s_pc # "idle", UNCHANGED <<clock, base, called, due>>,
             s_pc' \in {"csma", "bgsend", "loop"},
             s_pc \in {"csma", "bgsend"} \/ (s_pc = "loop" /\ More),
             WithinTurn =>
                /\ s_pc' = "loop" => clock < due + MaxCsma + MaxAir
                /\ s_pc' = "csma" => s_until' < due + MaxCsma
                /\ s_pc' = "bgsend" => s_until' < due + MaxCsma + MaxAir
      PROVE  LateInv' /\ OverInv'
  <2>1. Turn(called) = Turn(due)
    BY <1>0, <1>3, LoopSkipped DEF OverInv
  <2>2. /\ WithinTurn' <=> WithinTurn
        /\ (Turn(called) = Turn(due))'
    BY <1>3, <2>1, TurnsKept
  <2> QED
    BY <1>3, <2>2 DEF LateInv, OverInv
<1>4. CASE BgFrame
  <2>1. /\ s_pc = "loop" /\ More /\ UNCHANGED <<clock, base, called, due>>
        /\ \/ s_pc' = "csma" /\ \E d \in 0 .. MaxCsma : s_until' = clock + d
           \/ s_pc' = "bgsend" /\ \E d \in 1 .. MaxAir : s_until' = clock + d
    BY <1>4 DEF BgFrame, call
  <2>2. WithinTurn => clock < due
    BY <1>0, <2>1, LoopInTurn
  <2> QED
    BY <1>3, <1>a, <2>1, <2>2
<1>5. CASE CsmaSends
  <2>1. /\ s_pc = "csma" /\ clock = s_until /\ UNCHANGED <<clock, base, called, due>>
        /\ s_pc' = "bgsend" /\ \E d \in 1 .. MaxAir : s_until' = clock + d
    BY <1>5 DEF CsmaSends, call
  <2>2. WithinTurn => s_until < due + MaxCsma
    BY <1>0, <2>1 DEF LateInv
  <2> QED
    BY <1>3, <1>a, <2>1, <2>2
<1>6. CASE CsmaRefuses
  <2>1. /\ s_pc = "csma" /\ clock = s_until /\ UNCHANGED <<clock, base, called, due>>
        /\ s_pc' = "loop"
    BY <1>6 DEF CsmaRefuses, call
  <2>2. WithinTurn => s_until < due + MaxCsma
    BY <1>0, <2>1 DEF LateInv
  <2> QED
    BY <1>3, <1>a, <2>1, <2>2
<1>7. CASE BgSent
  <2>1. /\ s_pc = "bgsend" /\ clock = s_until /\ UNCHANGED <<clock, base, called, due>>
        /\ s_pc' = "loop"
    BY <1>7 DEF BgSent, call
  <2>2. WithinTurn => s_until < due + MaxCsma + MaxAir
    BY <1>0, <2>1 DEF LateInv
  <2> QED
    BY <1>3, <2>1, <2>2
<1>8. CASE ToForeground
  <2>1. /\ s_pc = "loop" /\ ~More /\ UNCHANGED <<clock, base, called, due, step>>
        /\ s_pc' = "config" /\ \E d \in 0 .. MaxConf : s_until' = clock + d
    BY <1>8 DEF ToForeground, call
  <2>2. /\ WithinTurn' <=> WithinTurn
        /\ (Turn(called) = Turn(due))' <=> Turn(called) = Turn(due)
    BY <2>1, TurnsKept
  <2>3. s_until' <= clock + MaxConf
    BY <1>a, <2>1
  <2>4. LateInv'
    <3>1. WithinTurn => clock < due + MaxCsma + MaxAir
      BY <1>0, <2>1 DEF LateInv
    <3>2. WithinTurn => s_until' < due + MaxCsma + MaxAir + MaxConf
      BY <1>a, <2>1, <3>1
    <3> QED
      BY <2>1, <2>2, <3>2 DEF LateInv
  <2>5. OverInv'
    <3>1. Turn(called) = Turn(due) => due <= clock
      BY <1>0, <2>1, LoopOver
    <3>2. Turn(called) # Turn(due) => step = 0 /\ clock = called
      BY <1>0, <2>1 DEF OverInv
    <3> QED
      BY <2>1, <2>2, <2>3, <3>1, <3>2 DEF OverInv
  <2> QED
    BY <2>4, <2>5
<1>9. CASE FgSend \/ FgSent
  <2>1. /\ s_pc \in {"config", "fgsend"} /\ s_pc' \in {"fgsend", "done"}
        /\ UNCHANGED <<clock, base, called, due, step>>
    BY <1>9 DEF FgSend, FgSent, call
  <2>2. /\ WithinTurn' <=> WithinTurn
        /\ (Turn(called) = Turn(due))' <=> Turn(called) = Turn(due)
    BY <2>1, TurnsKept
  <2> QED
    BY <1>0, <2>1, <2>2 DEF LateInv, OverInv
<1> QED
  BY <1>1, <1>2, <1>4, <1>5, <1>6, <1>7, <1>8, <1>9 DEF Next

\* Every step keeps what the first row announces.
LEMMA AnnounceStep ==
    ASSUME IInv, [Next]_vars
    PROVE  AnnouncedInv'
<1>0. TypeOK /\ CallInv /\ RowsInv /\ LateInv /\ AnnouncedInv
  BY DEF IInv
<1>1. ASSUME UNCHANGED <<base, called, due, rows, fresh>>,
             s_pc' \in {"loop", "config", "csma", "bgsend"} =>
                s_pc \in {"loop", "config", "csma", "bgsend"}
      PROVE  AnnouncedInv'
  <2>1. WithinTurn' <=> WithinTurn
    BY <1>1, TurnsKept
  <2>2. Announced(rows[1]) => Announced(rows[1])'
    BY <1>1 DEF Announced
  <2> QED
    BY <1>0, <1>1, <2>1, <2>2, Zenon DEF AnnouncedInv
<1>2. CASE \/ UNCHANGED vars \/ Tick \/ Scan \/ ScanFails \/ Sleep \/ Wake
            \/ Listen \/ ListenTimeout
  BY <1>1, <1>2, OthersSteps
<1>3. CASE CsmaSends \/ CsmaRefuses \/ ToForeground
  <2>1. /\ UNCHANGED <<base, called, due, rows, fresh>>
        /\ s_pc \in {"loop", "csma"}
    BY <1>3 DEF CsmaSends, CsmaRefuses, ToForeground, call
  <2> QED
    BY <1>1, <2>1
<1>4. CASE BgSent \/ FgSend \/ FgSent \/ \E time \in Times : Advertise(time)
  <2>1. fresh' = 1 \/ s_pc' = "fgsend"
    BY <1>4 DEF BgSent, FgSend, FgSent, Advertise
  <2> QED
    BY <2>1 DEF AnnouncedInv
<1>5. CASE BgFrame
  <2> DEFINE row == [kind |-> "bg", time |-> Ti(end - Now), added |-> clock]
  <2>1. Add(row) /\ s_pc = "loop" /\ More /\ UNCHANGED <<clock, base, called, due>>
    BY <1>5 DEF BgFrame, call
  <2> SUFFICES ASSUME WithinTurn PROVE Announced(rows[1])'
    BY <2>1, TurnsKept DEF AnnouncedInv
  <2>2. clock < due /\ end - Now = due - clock
    BY <1>0, <2>1, LoopInTurn
  <2>3. clock \in Nat /\ called \in Nat /\ due \in Nat /\ called <= clock
        /\ 1000 * (due - called) < TiModulus * 977
    BY <1>0, <2>1, Moments DEF CallInv
  <2>4. Systime(Ti(due - clock)) \in {due - clock - 1, due - clock}
    <3> DEFINE y == due - clock
    <3>1. y \in Nat /\ y * 1000 < TiModulus * 977
      BY <2>2, <2>3
    <3>2. y * 1000 < Modulus
      BY <3>1
    <3> HIDE DEF y
    <3>3. Systime(Ti(y)) \in {y - 1, y}
      BY <3>1, <3>2, Rounding
    <3> QED
      BY <3>3 DEF y
  <2>5. row \in Row /\ row.time = Ti(due - clock) /\ row.added = clock
    <3>1. Ti(end - Now) \in Nat
      <4>1. end - Now \in Int
        BY <1>0, NowType, Moments
      <4> QED
        BY <4>1, TiType
    <3> QED
      BY <2>2, <2>3, <3>1 DEF Row
  <2> HIDE DEF row
  <2>6. /\ fresh = 1 => rows'[1] = row
        /\ fresh = 0 /\ Len(rows) = 1 => rows'[1] = rows[1]
    BY <1>0, <2>1, <2>5, AddStep
  <2>7. CASE fresh = 1
    <3>1. rows'[1].time = Ti(due - clock) /\ rows'[1].added = clock
      BY <2>5, <2>6, <2>7, Zenon
    <3>2. Systime(rows'[1].time) \in {due - clock - 1, due - clock}
      BY <2>4, <3>1, Zenon
    <3> QED
      BY <2>1, <2>2, <2>3, <3>1, <3>2 DEF Announced, Systime
  <2>8. CASE fresh = 0
    <3>1. Len(rows) = 1 /\ Announced(rows[1])
      BY <1>0, <2>1, <2>8 DEF RowsInv, AnnouncedInv
    <3>2. rows'[1] = rows[1]
      BY <2>6, <2>8, <3>1
    <3> QED
      BY <2>1, <3>1, <3>2 DEF Announced
  <2>9. fresh \in {0, 1}
    BY <1>0, Moments
  <2> QED
    BY <2>7, <2>8, <2>9
<1> QED
  BY <1>2, <1>3, <1>4, <1>5 DEF Next

----------------------------------------------------------------------------
(* The scanner *)

\* A call, once made, keeps its times; and nothing turns the clock back.
LEMMA CallFixed ==
    ASSUME IInv, [Next]_vars
    PROVE  /\ clock \in Nat /\ clock' \in Nat /\ clock <= clock'
           /\ s_pc # "idle" =>
                UNCHANGED <<base, called, due>> /\ (WithinTurn' <=> WithinTurn)
<1>0. clock \in Nat
  BY Moments DEF IInv
<1>1. /\ clock' \in Nat /\ clock <= clock'
      /\ s_pc # "idle" => UNCHANGED <<base, called, due>>
  BY <1>0 DEF Next, vars, sender, call, Tick, Advertise, BgFrame, CsmaSends, CsmaRefuses,
              BgSent, ToForeground, FgSend, FgSent, Scan, ScanFails, Sleep, Wake,
              Listen, ListenTimeout
<1> QED
  BY <1>0, <1>1, TurnsKept

\* Every step keeps what the scanner has heard in agreement with the sender.
LEMMA HeardStep ==
    ASSUME IInv, [Next]_vars
    PROVE  HeardInv'
<1>0. TypeOK /\ OnTime /\ RowsInv /\ AnnouncedInv /\ HeardInv
  BY DEF IInv
<1>a. /\ clock \in Nat /\ clock' \in Nat /\ clock <= clock'
      /\ s_pc # "idle" =>
            UNCHANGED <<base, called, due>> /\ (WithinTurn' <=> WithinTurn)
  BY CallFixed
<1>b. heard.at \in Nat
  BY <1>0, Moments
<1>1. ASSUME HasHeard' => HasHeard /\ heard' = heard,
             HasHeard => s_pc' \notin {"idle", "csma"} /\ step' = 1,
             r_pc' = "config" => r_pc = "config" /\ r_until' = r_until
      PROVE  HeardInv'
  <2> SUFFICES ASSUME HasHeard'
               PROVE  /\ s_pc' \notin {"idle", "csma"} /\ step' = 1
                      /\ WithinTurn' => Announced(heard)'
                      /\ heard'.added < heard'.at /\ heard'.at <= clock'
                      /\ r_pc' = "config" => r_until' <= heard'.at + MaxConf
    BY DEF HeardInv
  <2>1. HasHeard /\ heard' = heard
    BY <1>1
  <2>2. /\ s_pc \notin {"idle", "csma"} /\ step = 1
        /\ WithinTurn => Announced(heard)
        /\ heard.added < heard.at /\ heard.at <= clock
        /\ r_pc = "config" => r_until <= heard.at + MaxConf
    BY <1>0, <2>1 DEF HeardInv
  <2>3. UNCHANGED <<called, due>> /\ (WithinTurn' <=> WithinTurn)
    BY <1>a, <2>2
  <2>4. Announced(heard) => Announced(heard)'
    BY <2>1, <2>3 DEF Announced
  <2>5. heard.at <= clock'
    BY <1>a, <1>b, <2>2
  <2> QED
    BY <1>1, <2>1, <2>2, <2>3, <2>4, <2>5
<1>c. HasHeard => s_pc \notin {"idle", "csma"} /\ step = 1
  BY <1>0 DEF HeardInv
<1>2. CASE \/ UNCHANGED vars \/ Tick \/ Scan \/ ScanFails \/ Sleep \/ Wake
            \/ Listen \/ ListenTimeout
  <2>1. UNCHANGED <<s_pc, step>>
    BY <1>2, OthersSteps
  <2>2. /\ HasHeard' => HasHeard /\ heard' = heard
        /\ r_pc' = "config" => r_pc = "config" /\ r_until' = r_until
    BY <1>2 DEF HasHeard, vars, scanner, Tick, Scan, ScanFails, Sleep, Wake, Listen,
                ListenTimeout
  <2> QED
    BY <1>1, <1>c, <2>1, <2>2
<1>3. CASE \/ \E time \in Times : Advertise(time)
           \/ BgFrame \/ CsmaSends \/ CsmaRefuses \/ ToForeground \/ FgSent
  <2>1. UNCHANGED scanner
    BY <1>3 DEF Advertise, BgFrame, CsmaSends, CsmaRefuses, ToForeground, FgSent
  <2>2. HasHeard => s_pc' \notin {"idle", "csma"} /\ step' = 1
    BY <1>3, <1>c DEF Advertise, BgFrame, CsmaSends, CsmaRefuses, ToForeground, FgSent
  <2> QED
    BY <1>1, <2>1, <2>2 DEF scanner, HasHeard
<1>4. CASE FgSend
  <2>1. /\ s_pc' = "fgsend" /\ step' = step /\ UNCHANGED <<r_until, heard>>
        /\ r_pc' = IF r_pc = "listen" THEN "receive" ELSE r_pc
    BY <1>4 DEF FgSend
  <2> QED
    BY <1>1, <1>c, <2>1 DEF HasHeard
<1>5. CASE BgSent
  <2>1. /\ s_pc = "bgsend" /\ clock = s_until /\ s_pc' = "loop"
        /\ clock' = clock /\ step' = step
    BY <1>5 DEF BgSent
  <2>2. CASE UNCHANGED scanner
    BY <1>1, <1>c, <2>1, <2>2 DEF scanner, HasHeard
  <2>3. CASE r_pc = "scan" /\ r_pc' = "config"
    <3>1. /\ heard' = [time |-> rows[1].time, added |-> rows[1].added, at |-> clock]
          /\ \E d \in 0 .. MaxConf : r_until' = clock + d
      BY <1>5, <2>3 DEF BgSent, scanner
    <3>2. /\ heard'.time = rows[1].time /\ heard'.added = rows[1].added
          /\ heard'.at = clock /\ r_until' <= clock + MaxConf
      BY <1>a, <3>1
    <3>3. /\ WithinTurn => Announced(rows[1])
          /\ rows[1].added < clock /\ step = 1
      BY <1>0, <2>1 DEF RowsInv, AnnouncedInv
    <3>4. UNCHANGED <<called, due>> /\ (WithinTurn' <=> WithinTurn)
      BY <1>a, <2>1
    <3>5. WithinTurn' => Announced(heard)'
      <4>1. WithinTurn' => Announced(rows[1])
        BY <3>3, <3>4, Zenon
      <4> QED
        BY <3>2, <3>4, <4>1 DEF Announced
    <3>6. heard'.added < heard'.at /\ heard'.at <= clock'
      BY <1>a, <2>1, <3>2, <3>3
    <3>7. s_pc' \notin {"idle", "csma"} /\ step' = 1
      BY <2>1, <3>3
    <3>8. r_until' <= heard'.at + MaxConf
      BY <3>2
    <3> QED
      BY <3>5, <3>6, <3>7, <3>8, Zenon DEF HeardInv
  <2> QED
    BY <1>5, <2>2, <2>3 DEF BgSent
<1>6. \/ UNCHANGED vars \/ Tick \/ BgFrame \/ CsmaSends \/ CsmaRefuses \/ BgSent
      \/ ToForeground \/ FgSend \/ FgSent \/ Scan \/ ScanFails \/ Sleep \/ Wake
      \/ Listen \/ ListenTimeout
      \/ \E time \in Times : Advertise(time)
  BY DEF Next
<1> QED
  BY <1>2, <1>3, <1>4, <1>5, <1>6, Zenon

\* What a prompt advertisement fixes: how the announced moment lies to the end
\* of the time, and how far the sender and the scanner can be.
LEMMA Bounds ==
    ASSUME IInv, Met
    PROVE  /\ s_pc \in {"loop", "bgsend", "config", "fgsend", "done"} /\ step = 1
           /\ due <= heard.at + Systime(heard.time)
           /\ heard.at + Systime(heard.time) <= due + MaxAir
           /\ heard.at <= clock
           /\ 1000 * Systime(heard.time) < Modulus
           /\ s_pc \in {"loop", "bgsend", "config"} => clock < due + MaxAir + MaxConf
           /\ r_pc \in {"config", "sleep", "turn"} => clock < due
           /\ r_pc = "config" => r_until <= heard.at + MaxConf
<1> DEFINE left == Systime(heard.time)
<1>0. TypeOK /\ OnTime /\ CallInv /\ HeardInv /\ SenderInv /\ ScannerInv
  BY DEF IInv
<1>1. /\ s_pc \notin {"idle", "csma"} /\ step = 1
      /\ Announced(heard) /\ heard.added < heard.at /\ heard.at <= clock
      /\ r_pc = "config" => r_until <= heard.at + MaxConf
  BY <1>0 DEF HeardInv, HasHeard, Prompt, Met
<1>2. /\ heard.at - heard.added <= MaxAir
      /\ left > MaxConf + SAFE_SLEEP_WINDOW + RX_TIME
  BY DEF Prompt, Met
<1>t. /\ due \in Nat /\ called \in Nat /\ heard.added \in Nat /\ heard.at \in Nat
      /\ clock \in Nat /\ r_until \in Nat /\ s_until \in Nat
  BY <1>0, Moments
<1>n. left \in Nat
  <2>1. heard.time \in Nat
    BY <1>0, Moments
  <2> QED
    BY <2>1, SystimeType
<1>u. /\ called <= heard.added
      /\ due - heard.added - 1 <= left /\ left <= due - heard.added
      /\ 1000 * (due - called) < TiModulus * 977
  BY <1>0, <1>1 DEF Announced, CallInv
<1> HIDE DEF left
<1>3. /\ due <= heard.at + left /\ heard.at + left <= due + MaxAir
      /\ 1000 * left < Modulus
  <2>1. heard.added + 1 <= heard.at /\ heard.at <= heard.added + MaxAir
    BY <1>t, <1>1, <1>2
  <2>2. left <= due - called
    BY <1>t, <1>n, <1>u
  <2>3. 1000 * left < Modulus
    BY <1>t, <1>n, <1>u, <2>2
  <2> QED
    BY <1>t, <1>n, <1>u, <2>1, <2>3
<1>4. s_pc \in {"loop", "bgsend", "config"} => clock < due + MaxAir + MaxConf
  BY <1>0, <1>t DEF SenderInv, OnTime, Waiting
<1>5. ASSUME r_pc = "config"
      PROVE  clock < due
  <2>2. clock <= r_until /\ r_until <= heard.at + MaxConf
    BY <1>0, <1>1, <1>5 DEF OnTime, Waiting
  <2> QED
    BY <1>t, <1>n, <1>2, <1>3, <2>2
<1>6. r_pc \in {"sleep", "turn"} => clock < due
  BY <1>0, <1>t DEF ScannerInv, Start, OnTime, Waiting
<1>7. s_pc \in {"loop", "bgsend", "config", "fgsend", "done"}
  BY <1>0, <1>1, Moments
<1> QED
  BY <1>1, <1>3, <1>4, <1>5, <1>6, <1>7 DEF left

\* A step that makes no advertisement prompt keeps the meeting as it was.
LEMMA MetKept ==
    ASSUME IInv, [Next]_vars, Prompt' => Prompt
    PROVE  /\ Met' => Met
           /\ Met => due' = due
<1>1. Prompt => s_pc # "idle"
  BY DEF IInv, HeardInv, HasHeard, Prompt
<1> QED
  BY <1>1, CallFixed DEF Met

\* Every step keeps the sender and the scanner in step.
LEMMA MeetStep ==
    ASSUME IInv, [Next]_vars
    PROVE  SenderInv' /\ ScannerInv'
<1> DEFINE Kept == SenderInv' /\ ScannerInv'
<1>0. /\ TypeOK /\ OnTime /\ CallInv /\ LateInv /\ OverInv /\ SenderInv /\ ScannerInv
  BY DEF IInv
<1>k. ASSUME Prompt' => Prompt
      PROVE  (Met' => Met) /\ (Met => due' = due)
  BY <1>k, MetKept
<1>m. Met => WithinTurn /\ Prompt
  BY DEF Met
<1>s. \A t \in Nat : Systime(t) \in Nat
  BY SystimeType
<1> USE <1>0, Moments DEF SenderInv, ScannerInv, Start
<1>1. CASE UNCHANGED vars
  <2>1. UNCHANGED <<clock, s_pc, s_until, r_pc, r_until, heard>>
    BY <1>1 DEF vars, sender, scanner
  <2>2. Prompt' => Prompt
    BY <2>1 DEF Prompt
  <2> QED
    BY <1>k, <2>1, <2>2
<1>2. CASE Tick
  <2>1. /\ clock' = clock + 1 /\ s_pc # "loop"
        /\ UNCHANGED <<s_pc, s_until, r_pc, r_until, heard>>
    BY <1>2 DEF Tick, sender, scanner
  <2>2. Prompt' => Prompt
    BY <2>1 DEF Prompt
  <2> QED
    BY <1>k, <2>1, <2>2
<1>3. ASSUME NEW time \in Times, Advertise(time)
      PROVE  Kept
  <2>1. s_pc = "idle" /\ UNCHANGED scanner
    BY <1>3 DEF Advertise
  <2>2. Prompt' => Prompt
    BY <2>1 DEF Prompt, scanner
  <2>3. ~Met
    BY <2>1, Bounds
  <2> QED
    BY <1>k, <2>2, <2>3
<1>4. CASE BgFrame
  <2>1. /\ s_pc = "loop" /\ More /\ UNCHANGED <<clock, r_pc, r_until, heard>>
        /\ \/ step = 0
           \/ s_pc' = "bgsend" /\ \E d \in 1 .. MaxAir : s_until' = clock + d
    BY <1>4 DEF BgFrame, scanner
  <2>2. Prompt' => Prompt
    BY <2>1 DEF Prompt
  <2>3. Met => step = 1
    BY Bounds
  <2>4. Met => clock < due
    BY <1>m, <2>1, LoopInTurn
  <2> QED
    BY <1>k, <2>1, <2>2, <2>3, <2>4, SMTT(40)
<1>5. CASE CsmaSends \/ CsmaRefuses
  <2>1. s_pc = "csma" /\ UNCHANGED scanner
    BY <1>5 DEF CsmaSends, CsmaRefuses
  <2>2. Prompt' => Prompt
    BY <2>1 DEF Prompt, scanner
  <2>3. ~Met
    BY <2>1, Bounds
  <2> QED
    BY <1>k, <2>2, <2>3
<1>7. CASE BgSent
  <2>1. /\ s_pc = "bgsend" /\ clock = s_until /\ s_pc' = "loop"
        /\ clock' = clock
    BY <1>7 DEF BgSent
  <2>2. CASE r_pc = "scan" /\ r_pc' = "config"
    <3>1. heard' = [time |-> rows[1].time, added |-> rows[1].added, at |-> clock]
      BY <1>7, <2>2 DEF BgSent, scanner
    <3>2. heard'.added = rows[1].added /\ heard'.at = clock
      BY <3>1
    <3>3. /\ UNCHANGED <<base, called, due>> /\ (WithinTurn' <=> WithinTurn)
      BY <2>1, CallFixed
    <3>4. Len(rows) > 0 /\ (WithinTurn => rows[1].added < due)
      BY <2>1 DEF IInv, RowsInv, AnnouncedInv, Announced
    <3>5. rows[1].added \in Nat
      BY <3>4, FirstRow
    <3>6. Met' => clock - rows[1].added <= MaxAir /\ WithinTurn
      BY <3>2, <3>3 DEF Prompt, Met
    <3> QED
      BY <2>1, <2>2, <3>3, <3>4, <3>5, <3>6
  <2>3. CASE UNCHANGED scanner
    <3>1. Prompt' => Prompt
      BY <2>3 DEF scanner, Prompt
    <3>2. UNCHANGED <<r_pc, r_until>>
      BY <2>3 DEF scanner
    <3> QED
      BY <1>k, <2>1, <3>1, <3>2
  <2> QED
    BY <1>7, <2>2, <2>3 DEF BgSent
<1>8. CASE ToForeground
  <2>1. /\ s_pc = "loop" /\ s_pc' = "config"
        /\ UNCHANGED <<clock, r_pc, r_until, heard>>
        /\ \E d \in 0 .. MaxConf : s_until' = clock + d
    BY <1>8 DEF ToForeground, scanner
  <2>2. Prompt' => Prompt
    BY <2>1 DEF Prompt
  <2> QED
    BY <1>k, <2>1, <2>2, SMTT(40)
<1>9. CASE FgSend
  <2>1. /\ s_pc = "config" /\ clock = s_until /\ s_pc' = "fgsend"
        /\ r_pc' = (IF r_pc = "listen" THEN "receive" ELSE r_pc)
        /\ UNCHANGED <<clock, r_until, heard>>
    BY <1>9 DEF FgSend
  <2>2. Prompt' => Prompt
    BY <2>1 DEF Prompt
  <2>3. Met => due <= clock
    <3>1. WithinTurn => Turn(called) = Turn(due)
      <4>1. /\ called \in Nat /\ due \in Nat /\ due + MaxCsma + MaxAir \in Nat
            /\ called <= due /\ due <= due + MaxCsma + MaxAir
        <5>1. called \in Nat /\ due \in Nat /\ MaxCsma \in Nat /\ MaxAir \in Nat
          BY Constants
        <5>2. called <= due
          BY <2>1 DEF CallInv
        <5> QED
          BY ONLY <5>1, <5>2
      <4> QED
        BY <4>1, Between DEF WithinTurn
    <3> QED
      BY <1>m, <2>1, <3>1 DEF OverInv
  <2>4. Met => r_pc \notin {"config", "sleep", "turn"}
    BY <2>3, Bounds
  <2>5. Met => r_pc \in {"listen", "receive"}
    BY <2>4 DEF Met, Prompt
  <2>6. Met => r_pc' = "receive"
    BY <2>1, <2>5
  <2> QED
    BY <1>k, <2>1, <2>2, <2>6
<1>10. CASE FgSent
  <2>1. /\ s_pc = "fgsend" /\ s_pc' = "done" /\ UNCHANGED <<clock, r_pc, r_until, heard>>
    BY <1>10 DEF FgSent, scanner
  <2>2. Prompt' => Prompt
    BY <2>1 DEF Prompt
  <2> QED
    BY <1>k, <2>1, <2>2
<1>11. CASE Scan \/ ScanFails
  <2>1. r_pc' \in {"scan", "idle"}
    BY <1>11 DEF Scan, ScanFails
  <2>2. ~Met'
    BY <2>1 DEF Prompt, Met
  <2> QED
    BY <2>2
<1>13. CASE Sleep
  <2>1. /\ r_pc = "config" /\ clock = r_until /\ r_pc' = "sleep"
        /\ r_until' = clock + Ticks(SleepTime)
        /\ UNCHANGED <<clock, s_pc, s_until, heard>>
    BY <1>13 DEF Sleep, sender
  <2>2. Prompt' => Prompt
    BY <2>1 DEF Prompt
  <2> DEFINE left == Systime(heard.time)
             x == left - (clock - heard.at) - SAFE_SLEEP_WINDOW - RX_TIME
  <2>3. Met => /\ x \in Int /\ x > 0 /\ 1000 * x < Modulus
               /\ Start <= clock + x /\ clock + x <= Start + MaxAir
    <3> SUFFICES ASSUME Met
                 PROVE  /\ x \in Int /\ x > 0 /\ 1000 * x < Modulus
                        /\ Start <= clock + x /\ clock + x <= Start + MaxAir
      OBVIOUS
    <3>1. /\ left > MaxConf + SAFE_SLEEP_WINDOW + RX_TIME
          /\ heard.at <= clock /\ clock <= heard.at + MaxConf
          /\ due <= heard.at + left /\ heard.at + left <= due + MaxAir
          /\ 1000 * left < Modulus
      BY <2>1, Bounds DEF Prompt, Met
    <3>2. /\ clock \in Nat /\ due \in Nat /\ heard.time \in Nat /\ heard.at \in Nat
      BY Moments
    <3>n. left \in Nat
      BY <1>s, <3>2, Zenon
    <3> HIDE <1>0, Moments
    <3> HIDE DEF left
    <3>3. x \in Int /\ x > 0 /\ 1000 * x < Modulus
      BY <3>1, <3>2, <3>n
    <3> QED
      BY <3>1, <3>2, <3>n, <3>3
  <2>5. Met => Ticks(SleepTime) = x
    <3>1. TypeOK
      BY <1>0
    <3>2. x > 0 /\ 1000 * x < Modulus => Ticks(SleepTime) = x
      BY <3>1, SleepTicks, ZenonT(40) DEF x, left
    <3> HIDE DEF x
    <3> QED
      BY <2>3, <3>2
  <2> HIDE DEF x
  <2>6. Met => Start <= r_until' /\ r_until' <= Start + MaxAir
    BY <2>1, <2>3, <2>5
  <2>7. Met => s_pc \notin {"fgsend", "done"}
    BY <2>1
  <2> QED
    BY <1>k, <2>1, <2>2, <2>6, <2>7
<1>14. CASE Wake
  <2>1. /\ r_pc = "sleep" /\ clock = r_until /\ r_pc' = "turn"
        /\ \E d \in 0 .. RX_TIME : r_until' = clock + d
        /\ UNCHANGED <<clock, s_pc, s_until, heard>>
    BY <1>14 DEF Wake, sender
  <2>2. Prompt' => Prompt
    BY <2>1 DEF Prompt
  <2>3. clock <= r_until' /\ r_until' <= clock + RX_TIME
    BY <2>1
  <2>4. Met => Start <= r_until' /\ r_until' <= Start + MaxAir + RX_TIME
    <3>1. Met => Start <= r_until /\ r_until <= Start + MaxAir /\ clock = r_until
      BY <2>1
    <3>2. Start \in Int /\ r_until' \in Nat /\ clock \in Nat
      BY <2>1, Constants, SMTT(40)
    <3> HIDE <1>0, Moments DEF Start
    <3> QED
      BY <2>3, <3>1, <3>2, Constants
  <2>5. Met => s_pc \notin {"fgsend", "done"}
    BY <2>1
  <2> QED
    BY <1>k, <2>1, <2>2, <2>4, <2>5
<1>15. CASE Listen
  <2>1. /\ r_pc = "turn" /\ clock = r_until /\ r_pc' = "listen"
        /\ r_until' = clock + Tfsd /\ UNCHANGED <<clock, s_pc, s_until, heard>>
    BY <1>15 DEF Listen, sender
  <2>2. Prompt' => Prompt
    BY <2>1 DEF Prompt
  <2>4. Met => r_until' >= Start + Tfsd
    BY <2>1
  <2>5. Met => s_pc \notin {"fgsend", "done"}
    BY <2>1
  <2> QED
    BY <1>k, <2>1, <2>2, <2>4, <2>5
<1>16. CASE ListenTimeout
  <2>1. /\ r_pc = "listen" /\ clock = r_until /\ r_pc' = "missed"
        /\ UNCHANGED <<clock, heard>>
    BY <1>16 DEF ListenTimeout
  <2>2. Prompt' => Prompt
    BY <2>1 DEF Prompt
  <2>3. Met => clock >= due + MaxAir + MaxConf
    BY <2>1, SMTT(40)
  <2>4. Met => s_pc \in {"fgsend", "done"}
    BY <2>3, Bounds
  <2>5. ~Met
    BY <2>1, <2>4
  <2> QED
    BY <1>k, <2>2, <2>5
<1> QED
  BY <1>1, <1>2, <1>3, <1>4, <1>5, <1>7, <1>8, <1>9, <1>10, <1>11, <1>13, <1>14, <1>15, <1>16 DEF Next

----------------------------------------------------------------------------
(* Theorems *)

\* IInv holds in every reachable state.
THEOREM Invariance == Spec => []IInv
<1>1. Init => IInv
  <2> SUFFICES ASSUME Init PROVE IInv
    OBVIOUS
  <2>1. TypeOK
    BY TimesAssumption DEF Init, TypeOK, Nothing
  <2>2. s_pc = "idle" /\ r_pc = "idle" /\ fresh = 1
    BY DEF Init
  <2>3. OnTime /\ CallInv /\ RowsInv /\ OneFrame /\ HeardInv
    BY <2>2 DEF OnTime, CallInv, RowsInv, OneFrame, HeardInv, HasHeard, Waiting
  <2>4. LateInv /\ OverInv /\ AnnouncedInv
    BY <2>2 DEF LateInv, OverInv, AnnouncedInv
  <2>5. SenderInv /\ ScannerInv
    BY <2>2 DEF SenderInv, ScannerInv, Met, Prompt
  <2> QED
    BY <2>1, <2>3, <2>4, <2>5 DEF IInv
<1>2. IInv /\ [Next]_vars => IInv'
  BY TypeStep, CallStep, SenderStep, LateStep, AnnounceStep, HeardStep, MeetStep DEF IInv
<1> QED
  BY <1>1, <1>2, PTL DEF Spec

\* Every time, row and counter of the advertisement keeps its type, whatever the
\* times and durations (bg_frame.c:66-117).
THEOREM TypeCorrect == Spec => []TypeOK
<1>1. IInv => TypeOK
  BY DEF IInv
<1> QED
  BY Invariance, <1>1, PTL

\* How the foreground packet starts against the moment announced, for every width
\* of the counter, every moment of it at the call and all durations: in time if
\* nothing wraps, and at once if `end' does (bg_frame.c:87-104).
THEOREM StartsOnTime == Spec => StartsWhenAnnounced
<1> DEFINE OnCue == FgSend =>
        /\ WithinTurn => clock < due + MaxCsma + MaxAir + MaxConf
        /\ IF Turn(called) = Turn(due)
             THEN due <= clock
             ELSE step = 0 /\ clock <= called + MaxConf
<1>1. IInv => OnCue
  <2> SUFFICES ASSUME IInv, FgSend
               PROVE  /\ WithinTurn => clock < due + MaxCsma + MaxAir + MaxConf
                      /\ IF Turn(called) = Turn(due)
                           THEN due <= clock
                           ELSE step = 0 /\ clock <= called + MaxConf
    OBVIOUS
  <2>1. s_pc = "config" /\ clock = s_until
    BY DEF FgSend
  <2>2. LateInv /\ OverInv
    BY DEF IInv
  <2> QED
    BY <2>1, <2>2 DEF LateInv, OverInv
<1>2. IInv /\ [Next]_vars => [OnCue]_vars
  BY <1>1
<1> QED
  BY Invariance, <1>2, PTL DEF StartsWhenAnnounced, Spec

\* Only a refused first background packet shares its packet with another frame,
\* for every size of the buffer (bg_frame.c:93-104, phy.c:188).
THEOREM SharedOnlyWhenRefused == Spec => []OneFrame
<1>1. IInv => OneFrame
  BY DEF IInv
<1> QED
  BY Invariance, <1>1, PTL

\* A scanner that heard a prompt advertisement receives the packet, if the
\* windows cover the durations they are for and the clock does not wrap before
\* the last frame is sent (bg_frame.c:43-57).
THEOREM Meeting == Spec => []Rendezvous
<1>1. IInv => Rendezvous
  BY DEF IInv, SenderInv, Met, Rendezvous
<1> QED
  BY Invariance, <1>1, PTL

=============================================================================
