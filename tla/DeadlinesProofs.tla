--------------------------- MODULE DeadlinesProofs ---------------------------
(***************************************************************************)
(* Theorems about Deadlines, for every width of the counters and all       *)
(* periods, deadlines and durations.                                       *)
(***************************************************************************)
EXTENDS Deadlines, TLAPS

----------------------------------------------------------------------------
(* The arithmetic of the times, for counters of every width. *)

LEMMA ModulusType == Modulus \in Nat \ {0}
BY TimeAssumption

LEMMA TiModulusType == TiModulus \in Nat \ {0}
BY TimeAssumption

LEMMA DivMod ==
    ASSUME NEW a \in Nat
    PROVE  /\ a % Modulus \in 0 .. Modulus - 1
           /\ a \div Modulus \in Int
           /\ a = Modulus * (a \div Modulus) + (a % Modulus)
BY ModulusType

LEMMA Multiple ==
    ASSUME NEW k \in Int, -Modulus < Modulus * k, Modulus * k < 2 * Modulus
    PROVE  k \in {0, 1}
BY ModulusType

LEMMA Wrapped ==
    ASSUME NEW x \in Int
    PROVE  /\ x % Modulus \in 0 .. Modulus - 1
           /\ x \in 0 .. Modulus - 1 => x % Modulus = x
           /\ x \in -Modulus .. -1 => x % Modulus = x + Modulus
BY ModulusType

LEMMA Remainder ==
    ASSUME NEW x \in Nat, NEW m \in Nat \ {0}
    PROVE  /\ x % m \in Nat /\ x % m <= x /\ x % m < m
           /\ x < m => x % m = x
OBVIOUS

LEMMA TiType ==
    ASSUME NEW y \in Int
    PROVE  Ti(y) \in Nat
<1>1. (y * 1000) % Modulus \in Nat
  BY Wrapped, ModulusType
<1>2. ((y * 1000) % Modulus) \div 977 \in Nat
  BY <1>1
<1> QED
  BY <1>2, Remainder, TiModulusType, ModulusType DEF Ti

LEMMA TurnMonotonic ==
    ASSUME NEW a \in Nat, NEW b \in Nat, a <= b
    PROVE  a \div Modulus <= b \div Modulus
<1> DEFINE qa == a \div Modulus
           qb == b \div Modulus
<1>1. /\ a % Modulus \in 0 .. Modulus - 1 /\ b % Modulus \in 0 .. Modulus - 1
      /\ qa \in Int /\ qb \in Int
      /\ a = Modulus * qa + (a % Modulus) /\ b = Modulus * qb + (b % Modulus)
  BY DivMod
<1> HIDE DEF qa, qb
<1>2. Modulus * (qa - qb) = (a - b) - ((a % Modulus) - (b % Modulus))
  BY <1>1, ModulusType
<1>3. Modulus * (qa - qb) < Modulus
  BY <1>1, <1>2, ModulusType
<1>4. qa - qb < 1
  BY <1>1, <1>3, ModulusType
<1>5. qa <= qb
  BY <1>1, <1>4
<1> QED
  BY <1>5 DEF qa, qb

----------------------------------------------------------------------------

\* What the registers of the two loops say on the clock that does not wrap.
Periodic == pc \in {"work", "call"} => due <= clock /\ previous = (due + base) % Modulus

Flooding ==
    /\ pc \in {"rsvp", "flood"} => end = (due + base) % Modulus
    /\ pc = "flood" => now = (clock + base) % Modulus

IInv == TypeOK /\ Periodic /\ Flooding

----------------------------------------------------------------------------
(* Arithmetic *)

LEMMA Added ==
    ASSUME NEW a \in Nat, NEW k \in 0 .. Modulus - 1
    PROVE  (a + k) % Modulus = IF (a % Modulus) + k < Modulus
                                 THEN (a % Modulus) + k ELSE ((a % Modulus) + k) - Modulus
<1> DEFINE b == a + k
           qa == a \div Modulus
           qb == b \div Modulus
           ra == a % Modulus
           rb == b % Modulus
<1>1. b \in Nat
  BY ModulusType
<1>2. /\ ra \in 0 .. Modulus - 1 /\ rb \in 0 .. Modulus - 1 /\ qa \in Int /\ qb \in Int
      /\ a = Modulus * qa + ra /\ b = Modulus * qb + rb /\ b = a + k
  BY <1>1, DivMod
<1> HIDE DEF qa, qb, ra, rb, b
<1>3. Modulus * (qb - qa) = (ra + k) - rb
  BY <1>2, ModulusType
<1>4. qb - qa \in {0, 1}
  <2>1. -Modulus < Modulus * (qb - qa) /\ Modulus * (qb - qa) < 2 * Modulus
    BY <1>2, <1>3, ModulusType
  <2> QED
    BY <1>2, <2>1, Multiple
<1>5. rb = ra + k \/ rb = (ra + k) - Modulus
  BY <1>2, <1>3, <1>4, ModulusType
<1>6. rb = IF ra + k < Modulus THEN ra + k ELSE (ra + k) - Modulus
  BY <1>2, <1>5, ModulusType
<1> QED
  BY <1>6 DEF b, ra, rb

\* There and back loses a tick at most, if nothing wraps.
LEMMA Rounding ==
    ASSUME NEW y \in Nat, y * 1000 < Modulus, y * 1000 < TiModulus * 977
    PROVE  Systime(Ti(y)) \in {y - 1, y}
<1> DEFINE z == (y * 1000) \div 977
<1>1. (y * 1000) % Modulus = y * 1000
  <2>1. y * 1000 \in 0 .. Modulus - 1 /\ y * 1000 \in Int
    BY ModulusType
  <2> QED
    BY <2>1, Wrapped
<1>2. z \in Nat /\ z < TiModulus /\ (z * 977) \div 1000 \in {y - 1, y}
  BY TiModulusType
<1>3. Ti(y) = z % TiModulus
  BY <1>1 DEF Ti
<1> HIDE DEF z
<1>4. z % TiModulus = z
  BY <1>2, Remainder, TiModulusType
<1> QED
  BY <1>2, <1>3, <1>4 DEF Systime

----------------------------------------------------------------------------
(* The inductive invariant *)

LEMMA VariableTypes ==
    ASSUME TypeOK
    PROVE  /\ clock \in Nat /\ due \in Nat /\ base \in Nat
           /\ period \in 0 .. Modulus - 1 /\ previous \in 0 .. Modulus - 1
           /\ end \in 0 .. Modulus - 1 /\ now \in 0 .. Modulus - 1
BY DeadlineAssumption DEF TypeOK

LEMMA NowType ==
    ASSUME NEW moment \in Nat, NEW offset \in Nat
    PROVE  (moment + offset) % Modulus \in 0 .. Modulus - 1
<1>1. moment + offset \in Int
  OBVIOUS
<1> QED
  BY <1>1, Wrapped

\* Within a turn MustDelay compares as on a clock that does not wrap, and the
\* difference is what is left of the period.
LEMMA DelayIsExact ==
    ASSUME TypeOK, Periodic, pc = "call"
    PROVE  /\ Future = ((due + period) + base) % Modulus /\ Future \in 0 .. Modulus - 1
           /\ clock - due < Modulus =>
                /\ MustDelay <=> clock < due + period
                /\ clock < due + period => (Future - Now) % Modulus = (due + period) - clock
<1> DEFINE a == due + base
           x == clock - due
           f == Future
           n == Now
<1>1. /\ clock \in Nat /\ due \in Nat /\ base \in Nat /\ due <= clock
      /\ period \in 0 .. Modulus - 1 /\ previous \in 0 .. Modulus - 1
      /\ previous = a % Modulus
  BY VariableTypes DEF Periodic
<1>2. a \in Nat /\ x \in Nat /\ (due + period) + base = a + period /\ clock + base = a + x
  BY <1>1, ModulusType
<1>3. f = IF previous + period < Modulus THEN previous + period ELSE (previous + period) - Modulus
  <2>1. previous \in Nat /\ previous % Modulus = previous
    BY <1>1, Wrapped, ModulusType
  <2> QED
    BY <1>1, <2>1, Added DEF Future
<1>4. (a + period) % Modulus = f
  BY <1>1, <1>2, <1>3, Added
<1>5. f \in 0 .. Modulus - 1
  BY <1>1, <1>3, ModulusType
<1>6. ASSUME x < Modulus
      PROVE  /\ MustDelay <=> x < period
             /\ x < period => (f - n) % Modulus = period - x
  <2>1. n = IF previous + x < Modulus THEN previous + x ELSE (previous + x) - Modulus
    <3>1. x \in 0 .. Modulus - 1
      BY <1>2, <1>6, ModulusType
    <3>2. n = (a + x) % Modulus
      BY <1>2 DEF Now
    <3> QED
      BY <1>1, <1>2, <3>1, <3>2, Added
  <2>2. MustDelay <=> \/ n < previous /\ n < f /\ f < previous
                      \/ ~(n < previous) /\ (n < f \/ f < previous)
    BY DEF MustDelay
  <2> HIDE DEF a, x, f, n
  <2>3. MustDelay <=> x < period
    <3>1. (\/ n < previous /\ n < f /\ f < previous
           \/ ~(n < previous) /\ (n < f \/ f < previous)) <=> x < period
      BY <1>1, <1>2, <1>3, <1>6, <2>1, ModulusType
    <3> QED
      BY <2>2, <3>1
  <2>4. ASSUME x < period PROVE (f - n) % Modulus = period - x
    <3>1. f - n = period - x \/ f - n = (period - x) - Modulus
      BY <1>1, <1>2, <1>3, <1>6, <2>1, <2>4, ModulusType
    <3>2. /\ f - n \in Int /\ period - x \in 0 .. Modulus - 1
          /\ (period - x) - Modulus \in -Modulus .. -1
      BY <1>1, <1>2, <1>5, <1>6, <2>1, <2>4, <3>1, ModulusType
    <3>3. CASE f - n = period - x
      BY <3>2, <3>3, Wrapped
    <3>4. CASE f - n = (period - x) - Modulus
      <4>1. (f - n) % Modulus = (f - n) + Modulus
        BY <3>2, <3>4, Wrapped
      <4> QED
        BY <1>1, <1>2, <3>4, <4>1, ModulusType
    <3> QED
      BY <3>1, <3>3, <3>4
  <2> QED
    BY <2>3, <2>4
<1>7. /\ x < period <=> clock < due + period
      /\ period - x = (due + period) - clock
  BY <1>1, ModulusType
<1> QED
  BY <1>2, <1>4, <1>5, <1>6, <1>7

\* What a call of sleepUntil makes of the clock.
LEMMA Sleeps ==
    ASSUME TypeOK, Periodic, SleepUntil, pc' = "work"
    PROVE  /\ clock' \in Nat /\ clock <= clock'
           /\ clock - due < Modulus =>
                IF clock < due' THEN due' <= clock' /\ clock' <= due' + MaxLate
                                ELSE clock' = clock
<1> DEFINE delay == (Future - Now) % Modulus
<1>1. pc = "call" /\ due' = due + period
  BY DEF SleepUntil
<1>2. /\ clock \in Nat /\ due \in Nat /\ period \in Nat /\ MaxLate \in Nat
  BY VariableTypes, DeadlineAssumption, ModulusType
<1>3. /\ Future \in 0 .. Modulus - 1
      /\ clock - due < Modulus =>
           /\ MustDelay <=> clock < due + period
           /\ clock < due + period => delay = (due + period) - clock
  BY <1>1, DelayIsExact
<1>4. delay \in Nat
  <2>1. Future - Now \in Int
    BY <1>2, <1>3, NowType, VariableTypes DEF Now
  <2> QED
    BY <2>1, Wrapped, ModulusType
<1>5. CASE MustDelay
  <2>1. PICK late \in 0 .. MaxLate : clock' = clock + delay + late
    BY <1>5 DEF SleepUntil, Slept
  <2> HIDE DEF delay
  <2>2. late \in Nat /\ late <= MaxLate
    BY <1>2, <2>1
  <2> QED
    BY <1>1, <1>2, <1>3, <1>4, <1>5, <2>1, <2>2
<1>6. CASE ~MustDelay
  <2>1. clock' = clock
    BY <1>6 DEF SleepUntil
  <2> QED
    BY <1>1, <1>2, <1>3, <1>6, <2>1
<1> QED
  BY <1>5, <1>6

LEMMA InitInv == Init => IInv
<1> SUFFICES ASSUME Init PROVE IInv
  OBVIOUS
<1>1. /\ clock = 0 /\ clock \in Nat /\ base \in Nat /\ due \in Nat /\ calls \in Nat /\ called \in Nat
      /\ time \in Nat /\ base \in Bases /\ period \in Periods
  <2>1. base \in Bases /\ (due = 0 \/ due \in Goals)
    BY DEF Init
  <2>2. Bases \subseteq Nat /\ Goals \subseteq Nat
    BY DeadlineAssumption
  <2>3. base \in Nat
    BY <2>1, <2>2, Zenon
  <2>4. due \in Nat
    <3>1. CASE due = 0
      BY <3>1
    <3>2. CASE due \in Goals
      BY <2>2, <3>2, Zenon
    <3> QED
      BY <2>1, <3>1, <3>2, Zenon
  <2> QED
    BY <2>3, <2>4 DEF Init
<1>2. previous \in 0 .. Modulus - 1 /\ previous = (0 + base) % Modulus
  BY <1>1, NowType DEF Init, Now
<1>3. now \in 0 .. Modulus - 1 /\ end \in 0 .. Modulus - 1
  <2>1. (due + base) % Modulus \in 0 .. Modulus - 1 /\ 0 \in 0 .. Modulus - 1
    BY <1>1, NowType, ModulusType
  <2> QED
    BY <2>1 DEF Init
<1>4. TypeOK
  BY <1>1, <1>2, <1>3 DEF TypeOK, Init
<1>5. Periodic /\ Flooding
  BY <1>1, <1>2 DEF Periodic, Flooding, Init
<1> QED
  BY <1>4, <1>5 DEF IInv

LEMMA TypeStep ==
    ASSUME IInv, Next
    PROVE  TypeOK'
<1>1. TypeOK /\ Periodic
  BY DEF IInv
<1>2. /\ clock \in Nat /\ due \in Nat /\ calls \in Nat /\ called \in Nat /\ time \in Nat
      /\ base \in Bases /\ period \in Periods /\ base \in Nat /\ period \in 0 .. Modulus - 1
      /\ previous \in 0 .. Modulus - 1 /\ end \in 0 .. Modulus - 1 /\ now \in 0 .. Modulus - 1
      /\ pc \in {"work", "call", "forever", "rsvp", "flood", "returned"}
  BY <1>1, VariableTypes DEF TypeOK
<1>3. SUFFICES /\ clock' \in Nat /\ due' \in Nat /\ calls' \in Nat /\ called' \in Nat /\ time' \in Nat
               /\ base' \in Bases /\ period' \in Periods
               /\ previous' \in 0 .. Modulus - 1 /\ end' \in 0 .. Modulus - 1
               /\ now' \in 0 .. Modulus - 1
               /\ pc' \in {"work", "call", "forever", "rsvp", "flood", "returned"}
  BY DEF TypeOK
<1>4. CASE Work
  <2>1. PICK work \in Works : clock' = clock + work
    BY <1>4 DEF Work
  <2>2. clock' \in Nat
    BY <1>2, <2>1, DeadlineAssumption
  <2> QED
    BY <1>2, <1>4, <2>2 DEF Work, arguments
<1>5. CASE SleepUntil
  <2>1. Future \in 0 .. Modulus - 1
    BY <1>1, <1>5, DelayIsExact DEF SleepUntil
  <2>2. pc' \in {"work", "forever"} /\ (pc' # "work" => clock' = clock)
    BY <1>5 DEF SleepUntil, Slept
  <2>3. clock' \in Nat
    BY <1>1, <1>2, <1>5, <2>2, Sleeps
  <2>4. due' \in Nat
    BY <1>2, <1>5, ModulusType DEF SleepUntil
  <2> QED
    BY <1>2, <1>5, <2>1, <2>2, <2>3, <2>4 DEF SleepUntil, arguments
<1>6. CASE Configure
  <2>1. PICK hold \in Holds : clock' = clock + hold
    BY <1>6 DEF Configure
  <2>2. clock' \in Nat
    BY <1>2, <2>1, DeadlineAssumption
  <2>3. (clock' + base) % Modulus \in 0 .. Modulus - 1
    BY <1>2, <2>2, NowType
  <2> QED
    BY <1>2, <1>6, <2>2, <2>3 DEF Configure, arguments
<1>7. CASE Flood
  <2>1. PICK air \in Airs : clock' = clock + air
    BY <1>7 DEF Flood
  <2>2. clock' \in Nat
    BY <1>2, <2>1, DeadlineAssumption
  <2>3. (clock' + base) % Modulus \in 0 .. Modulus - 1
    BY <1>2, <2>2, NowType
  <2>4. Announced \in Nat
    <3>1. end - now \in Int
      BY <1>2, ModulusType
    <3>2. (end - now) % Modulus \in Int
      BY <3>1, Wrapped
    <3> QED
      BY <3>2, TiType DEF Announced
  <2> QED
    BY <1>2, <1>7, <2>2, <2>3, <2>4 DEF Flood, arguments
<1>8. CASE Return
  BY <1>2, <1>8 DEF Return, arguments
<1> QED
  BY <1>4, <1>5, <1>6, <1>7, <1>8 DEF Next

LEMMA InvStep == IInv /\ [Next]_vars => IInv'
<1> SUFFICES ASSUME IInv, [Next]_vars PROVE IInv'
  OBVIOUS
<1>1. CASE UNCHANGED vars
  BY <1>1 DEF vars, arguments, IInv, TypeOK, Periodic, Flooding
<1>2. CASE Next
  <2>1. TypeOK /\ Periodic /\ Flooding
    BY DEF IInv
  <2>2. TypeOK'
    BY <1>2, TypeStep
  <2>3. Periodic'
    <3>1. CASE Work
      <4>1. PICK work \in Works : clock' = clock + work
        BY <3>1 DEF Work
      <4>2. due <= clock /\ due <= clock'
        BY <2>1, <3>1, <4>1, VariableTypes, DeadlineAssumption DEF Work, Periodic
      <4> QED
        BY <2>1, <3>1, <4>2 DEF Work, arguments, Periodic
    <3>2. CASE SleepUntil
      <4> SUFFICES ASSUME pc' = "work" PROVE due' <= clock' /\ previous' = (due' + base') % Modulus
        BY <3>2 DEF Periodic, SleepUntil, Slept
      <4>1. /\ clock' \in Nat /\ clock <= clock'
            /\ clock - due < Modulus =>
                IF clock < due' THEN due' <= clock' ELSE clock' = clock
        BY <2>1, <3>2, Sleeps
      <4>2. due' = due + period /\ base' = base /\ previous' = Future
        BY <3>2 DEF SleepUntil, arguments
      <4>3. due' <= clock'
        BY <2>1, <4>1, <4>2, VariableTypes, ModulusType
      <4>4. Future = ((due + period) + base) % Modulus
        BY <2>1, <3>2, DelayIsExact DEF SleepUntil
      <4> QED
        BY <4>2, <4>3, <4>4
    <3>3. CASE Configure \/ Flood \/ Return
      BY <3>3 DEF Configure, Flood, Return, Periodic
    <3> QED
      BY <1>2, <3>1, <3>2, <3>3 DEF Next
  <2>4. Flooding'
    BY <1>2, <2>1 DEF Next, Work, SleepUntil, Slept, Configure, Flood, Return, arguments, Flooding
  <2> QED
    BY <2>2, <2>3, <2>4 DEF IInv
<1> QED
  BY <1>1, <1>2

----------------------------------------------------------------------------
(* Theorems *)

\* The registers of the two loops mean what they should, whatever wraps.
THEOREM Invariance == Spec => []IInv
BY InitInv, InvStep, PTL DEF Spec

\* A thread that calls sleepUntil waits for the end of its period and no
\* longer, wherever the clock wraps (sleep_until.c:11-15).
THEOREM SleepsToTheGrid == Spec => OnTheGrid
<1> DEFINE Step == SleepUntil /\ pc' = "work" /\ clock - due < Modulus =>
        IF clock < due' THEN due' <= clock' /\ clock' <= due' + MaxLate
                        ELSE clock' = clock
<1>1. IInv /\ [Next]_vars => [Step]_vars
  BY Sleeps DEF IInv
<1> QED
  BY <1>1, Invariance, PTL DEF Spec, OnTheGrid

LEMMA TurnType ==
    ASSUME NEW moment \in Nat, NEW offset \in Nat
    PROVE  /\ (moment + offset) \div Modulus \in Int
           /\ moment + offset = Modulus * ((moment + offset) \div Modulus) + ((moment + offset) % Modulus)
<1>1. moment + offset \in Nat
  OBVIOUS
<1> QED
  BY <1>1, DivMod

\* Readings of one turn differ as the moments do.
LEMMA SameTurn ==
    ASSUME NEW a \in Nat, NEW b \in Nat, NEW offset \in Nat,
           (a + offset) \div Modulus = (b + offset) \div Modulus
    PROVE  a - b = ((a + offset) % Modulus) - ((b + offset) % Modulus)
<1> DEFINE q == (a + offset) \div Modulus
           ra == (a + offset) % Modulus
           rb == (b + offset) % Modulus
<1>1. ra \in Int /\ rb \in Int /\ q \in Int
  BY NowType, TurnType, ModulusType
<1>2. a + offset = Modulus * q + ra /\ b + offset = Modulus * q + rb
  BY TurnType
<1> HIDE DEF q, ra, rb
<1>3. Modulus * q \in Int
  BY <1>1, ModulusType
<1>4. a - b = ra - rb
  BY <1>1, <1>2, <1>3
<1> QED
  BY <1>4 DEF ra, rb

\* rsvp floods the channel until its deadline, and its frames announce it, if
\* the clock does not wrap meanwhile (bg_frame.c:132-143).
THEOREM FloodsTheChannel == Spec => FloodsUntilEnd
<1> DEFINE Step ==
        /\ Flood /\ Turn(clock') = Turn(0) /\ Turn(due) = Turn(0) =>
            /\ clock < due
            /\ (due - clock) * 1000 < TiModulus * 977 /\ (due - clock) * 1000 < Modulus =>
                  Systime(time') \in {due - clock - 1, due - clock}
        /\ Return /\ Turn(clock) = Turn(0) /\ Turn(due) = Turn(0) => due <= clock
<1>1. ASSUME IInv, [Next]_vars PROVE Step
  <2>1. TypeOK /\ Flooding
    BY <1>1 DEF IInv
  <2>2. clock \in Nat /\ due \in Nat /\ base \in Nat /\ end \in Int /\ now \in Int
    BY <2>1, VariableTypes, ModulusType
  <2>3. ASSUME Flood, Turn(clock') = Turn(0), Turn(due) = Turn(0)
        PROVE  /\ clock < due
               /\ (due - clock) * 1000 < TiModulus * 977 /\ (due - clock) * 1000 < Modulus =>
                    Systime(time') \in {due - clock - 1, due - clock}
    <3>1. PICK air \in Airs : clock' = clock + air
      BY <2>3 DEF Flood
    <3>2. clock <= clock' /\ clock' \in Nat
      BY <2>2, <3>1, DeadlineAssumption
    <3>3. (clock + base) \div Modulus = (0 + base) \div Modulus
      <4>1. /\ 0 + base \in Nat /\ clock + base \in Nat /\ clock' + base \in Nat
            /\ 0 + base <= clock + base /\ clock + base <= clock' + base
        <5>1. clock \in Nat /\ base \in Nat /\ clock' \in Nat /\ clock <= clock'
          BY <2>2, <3>2
        <5>2. \A a, b, c \in Nat : a <= c => /\ 0 + b \in Nat /\ a + b \in Nat /\ c + b \in Nat
                                            /\ 0 + b <= a + b /\ a + b <= c + b
          OBVIOUS
        <5> QED
          BY <5>1, <5>2, Zenon
      <4>2. /\ (0 + base) \div Modulus <= (clock + base) \div Modulus
            /\ (clock + base) \div Modulus <= (clock' + base) \div Modulus
        BY <4>1, TurnMonotonic
      <4>3. (0 + base) \div Modulus \in Int /\ (clock + base) \div Modulus \in Int
        BY <2>2, TurnType
      <4>4. (clock' + base) \div Modulus = (0 + base) \div Modulus
        BY <2>3 DEF Turn, Flood, arguments
      <4> QED
        BY <4>2, <4>3, <4>4
    <3>4. due - clock = end - now
      <4>1. (due + base) \div Modulus = (clock + base) \div Modulus
        BY <2>3, <3>3 DEF Turn
      <4>2. end = (due + base) % Modulus /\ now = (clock + base) % Modulus
        BY <2>1, <2>3 DEF Flooding, Flood
      <4> QED
        BY <2>2, <4>1, <4>2, SameTurn
    <3>5. clock < due
      BY <2>2, <2>3, <3>4 DEF Flood
    <3>6. ASSUME (due - clock) * 1000 < TiModulus * 977, (due - clock) * 1000 < Modulus
          PROVE  Systime(time') \in {due - clock - 1, due - clock}
      <4> DEFINE y == due - clock
      <4>1. y \in Nat /\ y \in 0 .. Modulus - 1
        BY <2>2, <3>5, <3>6, ModulusType
      <4>2. (end - now) % Modulus = y
        BY <3>4, <4>1, Wrapped
      <4>3. time' = Ti(y)
        BY <2>3, <4>2 DEF Flood, Announced
      <4>4. Systime(Ti(y)) \in {y - 1, y}
        <5>1. y * 1000 < Modulus /\ y * 1000 < TiModulus * 977
          BY <3>6
        <5> HIDE DEF y
        <5> QED
          BY <4>1, <5>1, Rounding
      <4> QED
        BY <4>3, <4>4
    <3> QED
      BY <3>5, <3>6
  <2>4. ASSUME Return, Turn(clock) = Turn(0), Turn(due) = Turn(0)
        PROVE  due <= clock
    <3>1. (due + base) \div Modulus = (clock + base) \div Modulus
      BY <2>4 DEF Turn
    <3>2. end = (due + base) % Modulus /\ now = (clock + base) % Modulus
      BY <2>1, <2>4 DEF Flooding, Return
    <3>3. due - clock = end - now
      BY <2>2, <3>1, <3>2, SameTurn
    <3> QED
      BY <2>2, <2>4, <3>3 DEF Return
  <2> QED
    BY <2>3, <2>4
<1>2. IInv /\ [Next]_vars => [Step]_vars
  BY <1>1
<1> QED
  BY <1>2, Invariance, PTL DEF Spec, FloodsUntilEnd

=============================================================================
