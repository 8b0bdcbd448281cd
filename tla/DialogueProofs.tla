--------------------------- MODULE DialogueProofs ---------------------------
(***************************************************************************)
(* Theorems about Dialogue, for any number of nodes, all times and draws   *)
(* and every width of the counters.                                        *)
(***************************************************************************)
EXTENDS Dialogue, TLAPS

----------------------------------------------------------------------------
(* The arithmetic of the times, for counters of every width. *)

LEMMA ModulusType == Modulus \in Nat \ {0}
BY TimeAssumption

LEMMA TiModulusType == TiModulus \in Nat \ {0}
BY TimeAssumption

LEMMA DivMod ==
    ASSUME NEW a \in Nat
    PROVE  /\ a % Modulus \in 0 .. Modulus - 1
           /\ a \div Modulus \in Int
           /\ a = Modulus * (a \div Modulus) + (a % Modulus)
BY ModulusType

LEMMA Multiple ==
    ASSUME NEW k \in Int, -Modulus < Modulus * k, Modulus * k < 2 * Modulus
    PROVE  k \in {0, 1}
BY ModulusType

LEMMA Wrapped ==
    ASSUME NEW x \in Int
    PROVE  /\ x % Modulus \in 0 .. Modulus - 1
           /\ x \in 0 .. Modulus - 1 => x % Modulus = x
           /\ x \in -Modulus .. -1 => x % Modulus = x + Modulus
BY ModulusType

\* The difference of two readings is that of the moments, if it is less than
\* a turn; more may be added to it.
LEMMA Difference ==
    ASSUME NEW a \in Nat, NEW b \in Nat, NEW k \in 0 .. Modulus - 1,
           b <= a, (a - b) + k < Modulus
    PROVE  (((a % Modulus) + k) - (b % Modulus)) % Modulus = (a - b) + k
<1> DEFINE qa == a \div Modulus
           qb == b \div Modulus
           ra == a % Modulus
           rb == b % Modulus
<1>1. /\ ra \in 0 .. Modulus - 1 /\ rb \in 0 .. Modulus - 1 /\ qa \in Int /\ qb \in Int
      /\ a = Modulus * qa + ra /\ b = Modulus * qb + rb
  BY DivMod
<1> HIDE DEF qa, qb, ra, rb
<1>2. Modulus * (qa - qb) = (a - b) - (ra - rb)
  BY <1>1, ModulusType
<1>3. qa - qb \in {0, 1}
  <2>1. -Modulus < Modulus * (qa - qb) /\ Modulus * (qa - qb) < 2 * Modulus
    BY <1>1, <1>2, ModulusType
  <2> QED
    BY <1>1, <2>1, Multiple
<1>4. CASE qa - qb = 0
  <2>1. (ra + k) - rb = (a - b) + k /\ (a - b) + k \in 0 .. Modulus - 1
    BY <1>1, <1>2, <1>4, ModulusType
  <2>2. ((a - b) + k) % Modulus = (a - b) + k
    BY <2>1, Wrapped
  <2> QED
    BY <2>1, <2>2 DEF ra, rb
<1>5. CASE qa - qb = 1
  <2>1. (ra + k) - rb = ((a - b) + k) - Modulus
    BY <1>1, <1>2, <1>5, ModulusType
  <2>2. ((a - b) + k) - Modulus \in -Modulus .. -1 /\ ((a - b) + k) - Modulus \in Int
    BY ModulusType
  <2>3. (((a - b) + k) - Modulus) % Modulus = (((a - b) + k) - Modulus) + Modulus
    BY <2>2, Wrapped
  <2>4. (((a - b) + k) - Modulus) + Modulus = (a - b) + k
    BY ModulusType
  <2> QED
    BY <2>1, <2>3, <2>4 DEF ra, rb
<1> QED
  BY <1>3, <1>4, <1>5

\* d7_ti_to_systime
LEMMA SystimeLess ==
    ASSUME NEW x \in Nat
    PROVE  Systime(x) \in Nat /\ Systime(x) <= x
BY DEF Systime

LEMMA SystimeMonotonic ==
    ASSUME NEW x \in Nat, NEW y \in Nat, x <= y
    PROVE  Systime(x) <= Systime(y)
BY DEF Systime

LEMMA Remainder ==
    ASSUME NEW x \in Nat, NEW m \in Nat \ {0}
    PROVE  /\ x % m \in Nat /\ x % m <= x /\ x % m < m
           /\ x < m => x % m = x
OBVIOUS

LEMMA TiType ==
    ASSUME NEW y \in Int
    PROVE  Ti(y) \in Nat
<1>1. (y * 1000) % Modulus \in Nat
  BY Wrapped, ModulusType
<1>2. ((y * 1000) % Modulus) \div 977 \in Nat
  BY <1>1
<1> QED
  BY <1>2, Remainder, TiModulusType, ModulusType DEF Ti

\* There and back loses time.
LEMMA ThereAndBack ==
    ASSUME NEW y \in Nat, 1000 * y < Modulus
    PROVE  Ti(y) \in Nat /\ Systime(Ti(y)) <= y
<1> DEFINE z == (y * 1000) \div 977
<1>1. (y * 1000) % Modulus = y * 1000
  <2>1. y * 1000 \in 0 .. Modulus - 1 /\ y * 1000 \in Int
    BY ModulusType
  <2> QED
    BY <2>1, Wrapped
<1>2. z \in Nat /\ (z * 977) \div 1000 <= y
  OBVIOUS
<1>3. Ti(y) = z % TiModulus
  BY <1>1 DEF Ti
<1> HIDE DEF z
<1>4. z % TiModulus \in Nat /\ z % TiModulus <= z
  BY <1>2, Remainder, TiModulusType
<1>5. Systime(z % TiModulus) <= Systime(z)
  BY <1>2, <1>4, SystimeMonotonic
<1>6. Systime(z) <= y /\ Systime(z) \in Nat /\ Systime(z % TiModulus) \in Nat
  BY <1>2, <1>4, SystimeLess DEF Systime
<1> QED
  BY <1>3, <1>4, <1>5, <1>6

LEMMA TicksOf ==
    ASSUME NEW ms \in Int
    PROVE  /\ Ticks(ms) \in Nat
           /\ 0 < ms /\ 1000 * ms < Modulus => Ticks(ms) = ms
<1>1. (ms - 1) % Modulus \in 0 .. Modulus - 1
  BY Wrapped
<1>2. (((ms - 1) % Modulus) * 1000) % Modulus \in Nat
  BY <1>1, Wrapped, ModulusType
<1>3. Ticks(ms) \in Nat
  BY <1>2 DEF Ticks
<1>4. ASSUME 0 < ms, 1000 * ms < Modulus PROVE Ticks(ms) = ms
  <2>1. (ms - 1) % Modulus = ms - 1
    <3>1. ms - 1 \in Int /\ ms - 1 \in 0 .. Modulus - 1
      BY <1>4, ModulusType
    <3> QED
      BY <3>1, Wrapped
  <2>2. ((ms - 1) * 1000) % Modulus = (ms - 1) * 1000
    <3>1. (ms - 1) * 1000 \in Int /\ (ms - 1) * 1000 \in 0 .. Modulus - 1
      BY <1>4, ModulusType
    <3> QED
      BY <3>1, Wrapped
  <2> QED
    BY <2>1, <2>2 DEF Ticks
<1> QED
  BY <1>3, <1>4

\* The sleep of sx_mode(RX) is not shortened by the conversion.
LEMMA RxTicks == RX_ON \in Nat /\ 0 < RX_ON /\ Ticks(RX_ON) = RX_ON
<1>1. RX_ON \in Nat /\ RX_ON \in Int /\ 0 < RX_ON /\ 1000 * RX_ON < Modulus
  BY SendAssumption
<1> QED
  BY <1>1, TicksOf

LEMMA TurnMonotonic ==
    ASSUME NEW a \in Nat, NEW b \in Nat, a <= b
    PROVE  a \div Modulus <= b \div Modulus
<1> DEFINE qa == a \div Modulus
           qb == b \div Modulus
<1>1. /\ a % Modulus \in 0 .. Modulus - 1 /\ b % Modulus \in 0 .. Modulus - 1
      /\ qa \in Int /\ qb \in Int
      /\ a = Modulus * qa + (a % Modulus) /\ b = Modulus * qb + (b % Modulus)
  BY DivMod
<1> HIDE DEF qa, qb
<1>2. Modulus * (qa - qb) = (a - b) - ((a % Modulus) - (b % Modulus))
  BY <1>1, ModulusType
<1>3. Modulus * (qa - qb) < Modulus
  BY <1>1, <1>2, ModulusType
<1>4. qa - qb < 1
  BY <1>1, <1>3, ModulusType
<1>5. qa <= qb
  BY <1>1, <1>4
<1> QED
  BY <1>5 DEF qa, qb

----------------------------------------------------------------------------

\* data_send_packet began at s, and its guard break at g, on the clock that
\* does not wrap; neither goes on for longer than its time.
InTime(n, s) ==
    /\ s <= clock /\ start[n] = (s + conf.base) % Modulus
    /\ until[n] - s <= conf.tca + MaxLate + TurnOn(n)
    /\ pc[n] = "csma" => until[n] - s < conf.tca

InGuardTime(n, s, g) ==
    /\ s <= g /\ g <= clock /\ guard[n].start = (g + conf.base) % Modulus
    /\ guard[n].max + (g - s) <= conf.tca
    /\ until[n] - g <= guard[n].max + MaxLate

SendsInTime(n, s) == InTime(n, s) /\ (pc[n] = "guard" => \E g \in Nat : InGuardTime(n, s, g))

SendInv == \A n \in Nodes \ hung : pc[n] \in Contending => \E s \in Nat : SendsInTime(n, s)

\* Who is not at rest goes on later.
ClockInv == \A n \in Nodes : pc[n] \notin Resting => clock <= until[n]

\* The turn of the counter at a moment.
Turn(moment) == (moment + conf.base) \div Modulus

AnswerInv ==
    \A n \in Nodes : LET end == heard[n].back IN
        /\ pc[n] = "hearing" => until[n] = end
        /\ pc[n] = "heard" => end <= clock /\ time[n] = (end + conf.base) % Modulus
        /\ pc[n] = "ready" => end + Systime(Tc) <= until[n]
        /\ pc[n] = "ready" /\ n \notin hung /\ Turn(end) = Turn(until[n]) =>
             until[n] <= end + Systime(Tc + Tl) + MaxLate

IInv == TypeOK /\ ClockInv /\ SendInv /\ AnswerInv

----------------------------------------------------------------------------
(* Arithmetic *)

LEMMA ConstantTypes ==
    /\ Tg \in Nat /\ CLAMP \in Nat /\ MaxLate \in Nat /\ TURN \in Nat /\ AIR \in Nat
    /\ RX_ON \in Nat
    /\ \A x \in Tcas : x \in Nat
    /\ \A x \in Bases : x \in Nat
BY SendAssumption

LEMMA DrawTypes == Len(Draws) \in Nat /\ \A k \in 1 .. Len(Draws) : Draws[k] \in Nat
<1>1. Draws \in Seq(Nat)
  BY Zenon, SendAssumption
<1> QED
  BY ONLY <1>1

LEMMA TcaBounds ==
    \A t \in Tcas : /\ Tg <= t /\ t < TiModulus /\ t <= CLAMP
                    /\ 1000 * t < Modulus /\ CLAMP + t + RX_ON + 2 * MaxLate < Modulus
BY SendAssumption, SMTT(40)

----------------------------------------------------------------------------
(* Types *)

LEMMA VariableTypes ==
    ASSUME TypeOK
    PROVE  /\ clock \in Nat /\ pc \in [Nodes -> Places] /\ until \in [Nodes -> Nat]
           /\ start \in [Nodes -> 0 .. Modulus - 1] /\ time \in [Nodes -> 0 .. Modulus - 1]
           /\ sent \in [Nodes -> Nat] /\ began \in [Nodes -> Nat] /\ opened \in [Nodes -> Nat]
BY DEF TypeOK

LEMMA CalledType ==
    ASSUME TypeOK
    PROVE  called \in [Nodes -> {"late", "punctual"}] /\ pc \in [Nodes -> Places] /\ until \in [Nodes -> Nat]
BY DEF TypeOK

LEMMA NowType ==
    ASSUME TypeOK, NEW n \in Nodes
    PROVE  Now(n) \in 0 .. Modulus - 1
<1>1. clock + conf.base \in Int
  BY ConstantTypes DEF TypeOK
<1> QED
  BY <1>1, Wrapped DEF Now

LEMMA NodeTypes ==
    ASSUME TypeOK, NEW n \in Nodes
    PROVE  /\ clock \in Nat /\ conf.base \in Nat /\ conf.tca \in Nat /\ conf.tca \in Tcas
           /\ until[n] \in Nat /\ start[n] \in 0 .. Modulus - 1 /\ time[n] \in 0 .. Modulus - 1
           /\ guard[n].max \in Nat /\ guard[n].start \in 0 .. Modulus - 1
           /\ heard[n].at \in Nat /\ heard[n].back \in Nat /\ heard[n].from \in Nodes
           /\ drawn[n] \in 0 .. Len(Draws)
BY ConstantTypes DEF TypeOK

LEMMA ElapsedType ==
    ASSUME TypeOK, NEW n \in Nodes
    PROVE  Elapsed(n) \in 0 .. Modulus - 1
<1>1. Now(n) - start[n] \in Int
  BY NowType, NodeTypes
<1> QED
  BY <1>1, Wrapped DEF Elapsed

LEMMA DialogueTypes ==
    /\ Systime(Tc) \in Nat /\ Systime(Tc + Tl) \in Nat /\ Systime(Tfsd) \in Nat
    /\ Systime(Treceive) \in Nat /\ LAG \in Nat /\ SAFE_SLEEP_WINDOW \in Nat
    /\ \A work \in Works : work \in Nat
    /\ \A hold \in Holds : hold \in Nat
<1>1. /\ Tc \in Nat /\ Tl \in Nat /\ Tfsd \in Nat /\ Treceive \in Nat
      /\ LAG \in Nat /\ SAFE_SLEEP_WINDOW \in Nat
      /\ \A work \in Works : work \in Nat
      /\ \A hold \in Holds : hold \in Nat
  BY DialogueAssumption
<1>2. Tc + Tl \in Nat
  BY <1>1
<1>3. Systime(Tc) \in Nat /\ Systime(Tc + Tl) \in Nat
  BY <1>1, <1>2, SystimeLess
<1>4. Systime(Tfsd) \in Nat /\ Systime(Treceive) \in Nat
  BY <1>1, SystimeLess
<1> QED
  BY <1>1, <1>3, <1>4

LEMMA WaitTypes ==
    ASSUME TypeOK, NEW n \in Nodes
    PROVE  Away(n) \in Int /\ UntilDue(n) \in Int
<1>1. /\ time[n] + Systime(Tc) - Now(n) - SAFE_SLEEP_WINDOW \in Int
      /\ time[n] + Systime(Tc) - Now(n) \in Int
  BY NowType, NodeTypes, DialogueTypes
<1> QED
  BY <1>1, Wrapped DEF Away, UntilDue

LEMMA DelayType ==
    ASSUME TypeOK, NEW n \in Nodes, drawn[n] < Len(Draws),
           NEW delay \in Remainders(Draws[drawn[n] + 1], Systime(Ti(TimeDiff(n))))
    PROVE  delay \in Nat /\ drawn[n] + 1 \in 0 .. Len(Draws) /\ Draws[drawn[n] + 1] \in Nat
<1> DEFINE span == Systime(Ti(TimeDiff(n)))
<1>1. drawn[n] + 1 \in 1 .. Len(Draws) /\ drawn[n] + 1 \in 0 .. Len(Draws)
  <2>1. drawn[n] \in 0 .. Len(Draws) /\ Len(Draws) \in Nat
    BY NodeTypes, DrawTypes
  <2> QED
    BY <2>1
<1>2. Draws[drawn[n] + 1] \in Nat
  BY <1>1, DrawTypes
<1>3. span \in Nat
  <2>1. conf.tca - Tg \in Int
    BY ConstantTypes, NodeTypes
  <2>2. Systime(conf.tca - Tg) \in Int
    BY <2>1 DEF Systime
  <2>3. Systime(conf.tca - Tg) - Elapsed(n) \in Int
    BY <2>2, ElapsedType
  <2>4. TimeDiff(n) \in Int
    BY <2>3, Wrapped DEF TimeDiff
  <2> QED
    BY <2>4, TiType, SystimeLess
<1> HIDE DEF span
<1>4. delay \in Nat
  <2>1. delay \in Remainders(Draws[drawn[n] + 1], span)
    BY DEF span
  <2> QED
    BY <1>2, <1>3, <2>1, Remainder DEF Remainders
<1> QED
  BY <1>1, <1>2, <1>4

\* What a wait does to the variables it changes.
LEMMA GoesType ==
    ASSUME TypeOK, NEW n \in Nodes, NEW where, NEW when \in Nat,
           where \in Places,
           GoesAt(n, where, when) \/ Goes(n, where)
    PROVE  /\ pc' \in [Nodes -> Places]
           /\ until' \in [Nodes -> Nat]
BY VariableTypes DEF GoesAt, Goes

LEMMA SleepsType ==
    ASSUME TypeOK, NEW n \in Nodes, NEW where, NEW ms \in Int,
           where \in Places,
           Sleeps(n, where, ms)
    PROVE  /\ pc' \in [Nodes -> Places]
           /\ until' \in [Nodes -> Nat] /\ hung' \subseteq Nodes
<1>1. PICK late \in 0 .. MaxLate : GoesAt(n, where, clock + Ticks(ms) + late)
  BY DEF Sleeps
<1>2. clock + Ticks(ms) + late \in Nat
  <2>1. clock \in Nat /\ Ticks(ms) \in Nat /\ late \in Nat
    BY <1>1, TicksOf, ConstantTypes, VariableTypes
  <2> QED
    BY <2>1
<1>3. hung' \subseteq Nodes
  BY DEF Sleeps, TypeOK
<1> QED
  BY <1>1, <1>2, <1>3, GoesType

LEMMA BackAtIs ==
    ASSUME TypeOK, NEW m \in Nodes
    PROVE  /\ BackAt(m) \in Nat /\ clock + AIR + LAG <= BackAt(m)
           /\ BackAt(m) = clock + AIR + LAG \/ (pc[m] # "listen" /\ BackAt(m) = until[m])
<1>1. clock \in Nat /\ until[m] \in Nat /\ AIR \in Nat /\ LAG \in Nat
  BY NodeTypes, ConstantTypes, DialogueAssumption
<1> QED
  BY <1>1 DEF BackAt

LEMMA InitInv == Init => IInv
<1> SUFFICES ASSUME Init PROVE IInv
  OBVIOUS
<1>1. 1 \in 0 .. Len(Draws) /\ 0 \in 0 .. Len(Draws)
  BY SendAssumption
<1>2. drawn \in [Nodes -> 0 .. Len(Draws)]
  BY <1>1 DEF Init
<1>3. guard \in [Nodes -> [max : Nat, start : 0 .. Modulus - 1]]
  BY ModulusType DEF Init, NoGuard
<1>4. heard \in [Nodes -> [from : Nodes, at : Nat, back : Nat]]
  BY DialogueAssumption DEF Init, NoPacket
<1>5. /\ clock \in Nat /\ conf \in [tca : Tcas, csma : {0, 1}, base : Bases]
      /\ pc \in [Nodes -> Places] /\ until \in [Nodes -> Nat]
      /\ start \in [Nodes -> 0 .. Modulus - 1] /\ time \in [Nodes -> 0 .. Modulus - 1]
      /\ sent \in [Nodes -> Nat] /\ began \in [Nodes -> Nat] /\ opened \in [Nodes -> Nat]
      /\ hung \subseteq Nodes /\ putoff \subseteq Nodes /\ guarded \subseteq Nodes
      /\ called \in [Nodes -> {"late", "punctual"}] /\ packets \in Nat
  BY DialogueAssumption, ModulusType DEF Init, Places
<1>6. TypeOK
  BY <1>2, <1>3, <1>4, <1>5 DEF TypeOK
<1>7. ClockInv /\ SendInv /\ AnswerInv
  <2>1. \A n \in Nodes : pc[n] = "idle" /\ clock <= until[n]
    BY <1>5 DEF Init
  <2> QED
    BY <2>1 DEF ClockInv, SendInv, AnswerInv, Contending
<1> QED
  BY <1>6, <1>7 DEF IInv

LEMMA TypeSend ==
    ASSUME TypeOK, NEW n \in Nodes, Send(n)
    PROVE  TypeOK'
<1> DEFINE Sent ==
                   /\ pc' \in [Nodes -> Places]
                   /\ until' \in [Nodes -> Nat]
                   /\ start' \in [Nodes -> 0 .. Modulus - 1]
                   /\ guard' \in [Nodes -> [max : Nat, start : 0 .. Modulus - 1]]
                   /\ drawn' \in [Nodes -> 0 .. Len(Draws)]
                   /\ hung' \subseteq Nodes /\ putoff' \subseteq Nodes
<1>1. SUFFICES Sent /\ UNCHANGED <<clock, conf, time, history>>
  BY DEF TypeOK, history
<1>2. UNCHANGED <<clock, conf, time, history>>
  BY DEF Send, Sending, SendLoop, GuardBreak, Guard, ReceiverOn, Assess
<1>3. /\ clock \in Nat /\ Elapsed(n) \in Nat /\ Systime(conf.tca) \in Nat
      /\ GuardTime(n) \in Nat /\ Systime(GuardTime(n)) \in Nat
      /\ 0 \in 0 .. Modulus - 1 /\ NoGuard \in [max : Nat, start : 0 .. Modulus - 1]
  <2>2. Elapsed(n) \in Nat
    BY ElapsedType, ModulusType
  <2>3. conf.tca - Elapsed(n) \in Int
    BY <2>2, NodeTypes
  <2>4. (conf.tca - Elapsed(n)) % Modulus \in Nat
    BY <2>3, Wrapped, ModulusType
  <2>5. ((conf.tca - Elapsed(n)) % Modulus) % TiModulus \in Nat
    BY <2>4, Remainder, TiModulusType
  <2>6. GuardTime(n) \in Nat
    BY <2>5, SystimeLess, TiType DEF GuardTime
  <2>7. /\ clock \in Nat /\ Systime(conf.tca) \in Nat /\ Systime(GuardTime(n)) \in Nat
    BY <2>6, SystimeLess, NodeTypes
  <2>8. 0 \in 0 .. Modulus - 1 /\ NoGuard \in [max : Nat, start : 0 .. Modulus - 1]
    BY ModulusType DEF NoGuard
  <2> QED
    BY <2>2, <2>6, <2>7, <2>8
<1>4. TURN \in Nat /\ Tg \in Nat /\ MaxLate \in Nat /\ RX_ON \in Int
  BY ConstantTypes
<1> USE DEF Places, Contending, Resting
<1>5. ASSUME SendLoop(n) PROVE Sent
  <2>1. CASE TimesOut(n)
    <3>1. pc' \in [Nodes -> Places] /\ until' \in [Nodes -> Nat]
      BY <1>3, <2>1, GoesType DEF TimesOut
    <3> QED
      BY <1>3, <1>5, <2>1, <3>1 DEF TimesOut, Returns, SendLoop, TypeOK
  <2>2. CASE NoCsma(n)
    <3>1. pc' \in [Nodes -> Places] /\ until' \in [Nodes -> Nat]
      <4>1. clock + TURN \in Nat
        BY <1>3, <1>4
      <4> QED
        BY <2>2, <4>1, GoesType DEF NoCsma, Transmit
    <3> QED
      BY <1>3, <1>5, <2>2, <3>1 DEF NoCsma, Returns, SendLoop, TypeOK
  <2>3. CASE Spins(n)
    <3>1. pc' \in [Nodes -> Places] /\ until' \in [Nodes -> Nat]
      <4>1. clock + Systime(conf.tca) - Elapsed(n) \in Nat
        BY <1>3, <2>3 DEF Spins
      <4> QED
        BY <2>3, <4>1, GoesType DEF Spins
    <3> QED
      BY <1>5, <2>3, <3>1 DEF Spins, SendLoop, TypeOK
  <2>4. CASE Csma(n)
    <3>1. PICK delay \in Remainders(Draws[drawn[n] + 1], Systime(Ti(TimeDiff(n)))), late \in 0 .. MaxLate :
             GoesAt(n, "csma", clock + Ticks(delay) + late)
      BY <2>4 DEF Csma
    <3>2. delay \in Nat /\ drawn[n] + 1 \in 0 .. Len(Draws)
      <4>1. drawn[n] < Len(Draws)
        BY <2>4 DEF Csma
      <4> QED
        BY <3>1, <4>1, DelayType
    <3>6. clock + Ticks(delay) + late \in Nat
      <4>1. Ticks(delay) \in Nat /\ late \in Nat /\ clock \in Nat
        BY <1>3, <1>4, <3>1, <3>2, TicksOf
      <4> QED
        BY <4>1
    <3>7. pc' \in [Nodes -> Places] /\ until' \in [Nodes -> Nat]
      BY <3>1, <3>6, GoesType
    <3>8. drawn' \in [Nodes -> 0 .. Len(Draws)]
      BY <2>4, <3>2 DEF Csma, TypeOK
    <3>9. hung' \subseteq Nodes
      BY <2>4 DEF Csma, TypeOK
    <3> QED
      BY <1>5, <2>4, <3>7, <3>8, <3>9 DEF Csma, SendLoop, TypeOK
  <2> QED
    BY <1>5, <2>1, <2>2, <2>3, <2>4 DEF SendLoop
<1>6. ASSUME GuardBreak(n) PROVE Sent
  <2>1. pc' \in [Nodes -> Places] /\ until' \in [Nodes -> Nat]
    BY <1>3, <1>6, GoesType DEF GuardBreak
  <2>2. guard' \in [Nodes -> [max : Nat, start : 0 .. Modulus - 1]]
    BY <1>3, <1>6, NowType DEF GuardBreak, TypeOK
  <2> QED
    BY <1>6, <2>1, <2>2 DEF GuardBreak, TypeOK
<1>7. ASSUME Guard(n) PROVE Sent
  <2>1. Systime(Tg) \in Int
    BY <1>4, SystimeLess
  <2>2. /\ pc' \in [Nodes -> Places] /\ until' \in [Nodes -> Nat] /\ hung' \subseteq Nodes
    <3>1. CASE Sleeps(n, "clear", Systime(Tg))
      BY <2>1, <3>1, SleepsType
    <3>2. CASE Sleeps(n, "guard", Systime(Tg))
      BY <2>1, <3>2, SleepsType
    <3>3. CASE Goes(n, "send") /\ UNCHANGED hung
      BY <1>3, <3>3, GoesType DEF TypeOK
    <3> QED
      BY <1>7, <3>1, <3>2, <3>3 DEF Guard
  <2>3. putoff' \subseteq Nodes
    BY <1>7 DEF Guard, TypeOK
  <2> QED
    BY <1>7, <2>2, <2>3 DEF Guard, TypeOK
<1>8. ASSUME Assess(n) PROVE Sent
  <2>1. pc' \in [Nodes -> Places] /\ until' \in [Nodes -> Nat]
    <3>1. clock + TURN \in Nat
      BY <1>3, <1>4
    <3> QED
      BY <1>8, <3>1, GoesType DEF Assess, Transmit
  <2> QED
    BY <1>3, <1>8, <2>1 DEF Assess, Returns, TypeOK
<1>9. ASSUME ReceiverOn(n) PROVE Sent
  <2>1. pc' \in [Nodes -> Places] /\ until' \in [Nodes -> Nat] /\ hung' \subseteq Nodes
    BY <1>4, <1>9, SleepsType DEF ReceiverOn
  <2> QED
    BY <1>9, <2>1 DEF ReceiverOn, TypeOK
<1> QED
  BY <1>2, <1>5, <1>6, <1>7, <1>8, <1>9 DEF Send, Sending

LEMMA TypeLink ==
    ASSUME TypeOK, NEW n \in Nodes, Link(n)
    PROVE  TypeOK'
<1> DEFINE Moves == pc' \in [Nodes -> Places] /\ until' \in [Nodes -> Nat]
<1>1. /\ clock \in Nat /\ 0 \in Nat /\ 0 \in 0 .. Modulus - 1
      /\ AIR \in Nat /\ TURN \in Nat /\ LAG \in Nat /\ packets \in Nat
      /\ Now(n) \in 0 .. Modulus - 1 /\ 0 \in 0 .. Len(Draws)
      /\ Systime(Tc) \in Nat /\ Systime(Tfsd) \in Nat /\ Systime(Treceive) \in Nat
      /\ RX_ON \in Int
  <2>1. Tc \in Nat /\ Tfsd \in Nat /\ Treceive \in Nat /\ LAG \in Nat
    BY DialogueAssumption
  <2>2. Systime(Tc) \in Nat /\ Systime(Tfsd) \in Nat /\ Systime(Treceive) \in Nat
    BY <2>1, SystimeLess
  <2>3. clock \in Nat /\ packets \in Nat
    BY DEF TypeOK
  <2>4. Now(n) \in 0 .. Modulus - 1 /\ 0 \in 0 .. Modulus - 1
    BY NowType, ModulusType
  <2>5. AIR \in Nat /\ TURN \in Nat /\ RX_ON \in Int /\ 0 \in 0 .. Len(Draws)
    BY ConstantTypes, SendAssumption
  <2> QED
    BY <2>1, <2>2, <2>3, <2>4, <2>5
<1> DEFINE Kept == /\ start' \in [Nodes -> 0 .. Modulus - 1] /\ time' \in [Nodes -> 0 .. Modulus - 1]
                   /\ sent' \in [Nodes -> Nat] /\ began' \in [Nodes -> Nat]
                   /\ opened' \in [Nodes -> Nat]
           Others == /\ drawn' \in [Nodes -> 0 .. Len(Draws)]
                     /\ guard' \in [Nodes -> [max : Nat, start : 0 .. Modulus - 1]]
                     /\ hung' \subseteq Nodes /\ putoff' \subseteq Nodes /\ guarded' \subseteq Nodes
                     /\ heard' \in [Nodes -> [from : Nodes, at : Nat, back : Nat]]
                     /\ called' \in [Nodes -> {"late", "punctual"}]
                     /\ packets' \in Nat
<1>0. ASSUME UNCHANGED <<clock, conf>>, Moves, Kept, Others PROVE TypeOK'
  BY <1>0 DEF TypeOK
<1> HIDE DEF Kept, Others
<1> USE DEF Places, Contending, Resting
<1>2. CASE Start(n)
  <2>1. Moves /\ hung' \subseteq Nodes
    <3>1. CASE Goes(n, "configured") /\ UNCHANGED hung
      BY <1>1, <3>1, GoesType DEF TypeOK
    <3>2. CASE Sleeps(n, "first", RX_ON)
      BY <1>1, <3>2, SleepsType
    <3> QED
      BY <1>2, <3>1, <3>2 DEF Start
  <2>2. drawn' \in [Nodes -> 0 .. Len(Draws)]
    BY <1>1, <1>2 DEF TypeOK, Start, Config
  <2>8. Kept
    BY <1>1, <1>2, VariableTypes DEF Kept, Start, history
  <2>9. Others
    BY <1>1, <1>2, <2>1, <2>2 DEF Others, TypeOK, Start, history
  <2> QED
    BY <1>0, <1>2, <2>1, <2>8, <2>9 DEF Start, history
<1>3. CASE Request(n)
  <2>1. Moves
    BY <1>1, <1>3, GoesType DEF Request, SendPacket
  <2>8. Kept
    BY <1>1, <1>3, VariableTypes DEF Kept, Request, SendPacket, history
  <2>9. Others
    BY <1>1, <1>3, <2>1 DEF Others, TypeOK, Request, SendPacket, history
  <2> QED
    BY <1>0, <1>3, <2>1, <2>8, <2>9 DEF Request, SendPacket, history
<1>4. CASE AirStart(n)
  <2>1. clock + AIR \in Nat /\ packets + 1 \in Nat /\ \A m \in Nodes : BackAt(m) \in Nat
    BY <1>1, BackAtIs
  <2>2. Moves
    BY <1>4, <2>1, VariableTypes DEF AirStart
  <2>3. heard' \in [Nodes -> [from : Nodes, at : Nat, back : Nat]]
    BY <1>4, <2>1 DEF AirStart, TypeOK
  <2>8. Kept
    BY <1>1, <1>4, VariableTypes DEF Kept, AirStart, sending
  <2>9. Others
    BY <1>1, <1>4, <2>1, <2>2, <2>3 DEF Others, TypeOK, AirStart, sending
  <2> QED
    BY <1>0, <1>4, <2>1, <2>2, <2>3, <2>8, <2>9 DEF AirStart, sending
<1>5. ASSUME NEW where \in Places, Returned(n, where) PROVE Moves
  <2>1. CASE Goes(n, "done")
    BY <1>1, <2>1, GoesType
  <2>2. CASE \E work \in Works : GoesAt(n, where, clock + work)
    <3>1. PICK work \in Works : GoesAt(n, where, clock + work)
      BY <2>2
    <3>2. clock + work \in Nat
      BY <1>1, <3>1, DialogueTypes
    <3> QED
      BY <3>1, <3>2, GoesType
  <2> QED
    BY <1>5, <2>1, <2>2 DEF Returned
<1>6. CASE AirEnd(n)
  <2>1. Moves
    BY <1>5, <1>6 DEF AirEnd
  <2>8. Kept
    BY <1>1, <1>6, VariableTypes DEF Kept, AirEnd, Returned, sending
  <2>9. Others
    BY <1>1, <1>6, <2>1 DEF Others, TypeOK, AirEnd, Returned, sending
  <2> QED
    BY <1>0, <1>6, <2>1, <2>8, <2>9 DEF AirEnd, Returned, sending
<1>7. CASE Heard(n)
  <2>1. Moves
    BY <1>5, <1>7 DEF Heard
  <2>8. Kept
    BY <1>1, <1>7, VariableTypes DEF Kept, Heard, Returned, sending
  <2>9. Others
    BY <1>1, <1>7, <2>1 DEF Others, TypeOK, Heard, Returned, sending
  <2> QED
    BY <1>0, <1>7, <2>1, <2>8, <2>9 DEF Heard, Returned, sending
<1>8. CASE Unheard(n)
  <2>1. Moves
    BY <1>1, <1>8, GoesType DEF Unheard
  <2>8. Kept
    BY <1>1, <1>8, VariableTypes DEF Kept, Unheard, sending, history
  <2>9. Others
    BY <1>1, <1>8, <2>1 DEF Others, TypeOK, Unheard, sending, history
  <2> QED
    BY <1>0, <1>8, <2>1, <2>8, <2>9 DEF Unheard, sending, history
<1>9. CASE Leave(n)
  <2>1. Away(n) \in Int
    <3>1. time[n] + Systime(Tc) - Now(n) - SAFE_SLEEP_WINDOW \in Int
      BY <1>1, NodeTypes, NowType, DialogueTypes
    <3> QED
      BY <3>1, Wrapped DEF Away
  <2>2. Moves /\ hung' \subseteq Nodes
    <3>1. CASE Sleeps(n, "away", Away(n))
      BY <2>1, <3>1, SleepsType
    <3>2. CASE Goes(n, "done") /\ UNCHANGED hung
      BY <1>1, <3>2, GoesType DEF TypeOK
    <3> QED
      BY <1>9, <3>1, <3>2 DEF Leave
  <2>8. Kept
    BY <1>1, <1>9, VariableTypes DEF Kept, Leave, history
  <2>9. Others
    BY <1>1, <1>9, <2>2 DEF Others, TypeOK, Leave, history
  <2> QED
    BY <1>0, <1>9, <2>2, <2>8, <2>9 DEF Leave, history
<1>10. CASE Reenter(n)
  <2>1. Moves
    <3>1. PICK hold \in Holds : GoesAt(n, "back", clock + hold)
      BY <1>10 DEF Reenter
    <3>2. clock \in Nat /\ hold \in Nat
      BY <1>1, <3>1, DialogueAssumption
    <3>3. clock + hold \in Nat
      BY <3>2
    <3> QED
      BY <3>1, <3>3, GoesType
  <2>8. Kept
    BY <1>1, <1>10, VariableTypes DEF Kept, Reenter, Config, history
  <2>9. Others
    BY <1>1, <1>10, <2>1 DEF Others, TypeOK, Reenter, Config, history
  <2> QED
    BY <1>0, <1>10, <2>1, <2>8, <2>9 DEF Reenter, Config, history
<1>11. CASE Listen(n)
  <2>1. Moves /\ hung' \subseteq Nodes
    <3>1. CASE Sleeps(n, "again", RX_ON)
      BY <1>1, <3>1, SleepsType
    <3>2. CASE Goes(n, "done") /\ UNCHANGED hung
      BY <1>1, <3>2, GoesType DEF TypeOK
    <3> QED
      BY <1>11, <3>1, <3>2 DEF Listen
  <2>8. Kept
    BY <1>1, <1>11, VariableTypes DEF Kept, Listen
  <2>9. Others
    BY <1>1, <1>11, <2>1 DEF Others, TypeOK, Listen
  <2> QED
    BY <1>0, <1>11, <2>1, <2>8, <2>9 DEF Listen
<1>12. CASE AnswerTime(n)
  <2>1. UntilDue(n) \in Int
    <3>1. time[n] + Systime(Tc) - Now(n) \in Int
      BY <1>1, NodeTypes
    <3> QED
      BY <3>1, Wrapped DEF UntilDue
  <2>2. Moves /\ hung' \subseteq Nodes
    <3>1. CASE Sleeps(n, "ready", UntilDue(n))
      BY <2>1, <3>1, SleepsType
    <3>2. CASE Goes(n, "done") /\ UNCHANGED hung
      BY <1>1, <3>2, GoesType DEF TypeOK
    <3>3. CASE Goes(n, "ready") /\ UNCHANGED hung
      BY <1>1, <3>3, GoesType DEF TypeOK
    <3> QED
      BY <1>12, <3>1, <3>2, <3>3 DEF AnswerTime
  <2>3. called' \in [Nodes -> {"late", "punctual"}]
    BY <1>12 DEF AnswerTime, TypeOK
  <2>8. Kept
    BY <1>1, <1>12, VariableTypes DEF Kept, AnswerTime
  <2>9. Others
    BY <1>1, <1>12, <2>2, <2>3 DEF Others, TypeOK, AnswerTime
  <2> QED
    BY <1>0, <1>12, <2>2, <2>3, <2>8, <2>9 DEF AnswerTime
<1>13. CASE Answer(n)
  <2>1. Moves
    <3>1. clock + TURN \in Nat
      BY <1>1
    <3> QED
      BY <1>1, <1>13, <3>1, GoesType DEF Answer, SendPacket, SendProtected, Transmit
  <2>8. Kept
    BY <1>1, <1>13, VariableTypes DEF Kept, Answer, SendPacket, SendProtected, Transmit, sending
  <2>9. Others
    BY <1>1, <1>13, <2>1 DEF Others, TypeOK, Answer, SendPacket, SendProtected, Transmit, sending
  <2> QED
    BY <1>0, <1>13, <2>1, <2>8, <2>9 DEF Answer, SendPacket, SendProtected, Transmit, sending
<1>14. CASE Ready(n)
  <2>1. Moves
    <3>1. clock + Systime(Treceive) \in Nat /\ clock + Systime(Tfsd) \in Nat
      BY <1>1
    <3> QED
      BY <1>1, <1>14, <3>1, GoesType DEF Ready
  <2>8. Kept
    BY <1>1, <1>14, VariableTypes DEF Kept, Ready, sending, history
  <2>9. Others
    BY <1>1, <1>14, <2>1 DEF Others, TypeOK, Ready, sending, history
  <2> QED
    BY <1>0, <1>14, <2>1, <2>8, <2>9 DEF Ready, sending, history
<1> QED
  BY <1>2, <1>3, <1>4, <1>6, <1>7, <1>8, <1>9, <1>10, <1>11, <1>12, <1>13, <1>14 DEF Link

LEMMA TypeElapse ==
    ASSUME TypeOK, Elapse
    PROVE  TypeOK'
<1>1. clock' \in Nat
  BY VariableTypes DEF Elapse
<1> QED
  BY <1>1 DEF Elapse, sending, history, TypeOK

LEMMA TypeStep == TypeOK /\ [Next]_vars => TypeOK'
<1> SUFFICES ASSUME TypeOK, [Next]_vars PROVE TypeOK'
  OBVIOUS
<1>1. CASE UNCHANGED vars
  BY <1>1 DEF vars, sending, history, TypeOK
<1> QED
  BY <1>1, TypeLink, TypeSend, TypeElapse DEF Next

----------------------------------------------------------------------------
(* What a step leaves of the other nodes *)

LEMMA Frame ==
    ASSUME TypeOK, NEW n \in Nodes, NEW u \in Nodes \ {n}, Link(n) \/ Send(n)
    PROVE  /\ clock' = clock /\ conf' = conf
           /\ start'[u] = start[u] /\ guard'[u] = guard[u] /\ time'[u] = time[u]
           /\ u \in hung' <=> u \in hung
           /\ \/ pc'[u] = pc[u] /\ until'[u] = until[u] /\ heard'[u] = heard[u]
              \/ /\ pc[u] \in Tuned /\ pc'[u] = "hearing" /\ until'[u] = BackAt(u)
                 /\ heard'[u].at = clock + AIR /\ heard'[u].back = BackAt(u)
              \/ /\ pc[u] = "hearing" /\ pc'[u] = "garbled"
                 /\ until'[u] = until[u] /\ heard'[u] = heard[u]
<1> DEFINE Same == pc'[u] = pc[u] /\ until'[u] = until[u]
           Rest == /\ clock' = clock /\ conf' = conf
                   /\ start'[u] = start[u] /\ guard'[u] = guard[u] /\ time'[u] = time[u]
                   /\ u \in hung' <=> u \in hung
<1>1. ASSUME NEW where, Goes(n, where) PROVE Same
  BY <1>1, VariableTypes DEF Goes
<1>2. ASSUME NEW where, NEW when, GoesAt(n, where, when) PROVE Same
  BY <1>2, VariableTypes DEF GoesAt
<1>3. ASSUME NEW where, NEW ms, Sleeps(n, where, ms) PROVE Same /\ (u \in hung' <=> u \in hung)
  BY <1>2, <1>3 DEF Sleeps
<1>4. ASSUME Returns(n) PROVE start'[u] = start[u] /\ guard'[u] = guard[u]
  BY <1>4 DEF Returns, TypeOK
<1>5. ASSUME SendPacket(n)
      PROVE  /\ Same /\ start'[u] = start[u] /\ guard'[u] = guard[u]
             /\ (u \in hung' <=> u \in hung)
  BY <1>1, <1>5, VariableTypes DEF SendPacket
<1>6. ASSUME Send(n) PROVE Same /\ Rest /\ heard' = heard
  <2>1. clock' = clock /\ conf' = conf /\ time' = time /\ heard' = heard
    BY <1>6 DEF Send, Sending, SendLoop, GuardBreak, Guard, ReceiverOn, Assess, history
  <2>2. CASE SendLoop(n)
    <3>1. Same
      BY <1>1, <1>2, <2>2 DEF SendLoop, TimesOut, NoCsma, Spins, Csma, Transmit
    <3> QED
      BY <1>4, <2>1, <2>2, <3>1 DEF SendLoop, TimesOut, NoCsma, Spins, Csma
  <2>3. CASE GuardBreak(n)
    <3>1. Same
      BY <1>1, <2>3 DEF GuardBreak
    <3>2. guard'[u] = guard[u]
      BY <2>3 DEF GuardBreak, TypeOK
    <3> QED
      BY <2>1, <2>3, <3>1, <3>2 DEF GuardBreak
  <2>4. CASE Guard(n)
    BY <1>1, <1>3, <2>1, <2>4 DEF Guard
  <2>5. CASE Assess(n)
    <3>1. Same
      BY <1>1, <1>2, <2>5 DEF Assess, Transmit
    <3> QED
      BY <1>4, <2>1, <2>5, <3>1 DEF Assess
  <2>6. CASE ReceiverOn(n)
    BY <1>3, <2>1, <2>6 DEF ReceiverOn
  <2> QED
    BY <1>6, <2>2, <2>3, <2>4, <2>5, <2>6 DEF Send, Sending
<1>7. ASSUME Link(n), ~AirStart(n) PROVE Same /\ Rest /\ heard' = heard
  <2>1. CASE Start(n)
    BY <1>1, <1>3, <2>1 DEF Start, history
  <2>2. CASE Request(n)
    BY <1>5, <2>2 DEF Request, history
  <2>3. ASSUME NEW where, Returned(n, where) PROVE Same /\ Rest /\ heard' = heard
    <3>1. Same
      BY <1>1, <1>2, <2>3 DEF Returned
    <3>2. time'[u] = time[u]
      BY <2>3, VariableTypes DEF Returned
    <3> QED
      BY <2>3, <3>1, <3>2 DEF Returned, sending
  <2>4. CASE AirEnd(n) \/ Heard(n)
    BY <2>3, <2>4 DEF AirEnd, Heard
  <2>5. CASE Unheard(n)
    BY <1>1, <2>5 DEF Unheard, sending, history
  <2>6. CASE Leave(n)
    BY <1>1, <1>3, <2>6 DEF Leave, history
  <2>7. CASE Reenter(n)
    BY <1>2, <2>7 DEF Reenter, history
  <2>8. CASE Listen(n)
    BY <1>1, <1>3, <2>8 DEF Listen
  <2>9. CASE AnswerTime(n)
    BY <1>1, <1>3, <2>9 DEF AnswerTime
  <2>10. CASE Answer(n)
    <3>1. CASE SendProtected(n)
      BY <1>2, <2>10, <3>1 DEF Answer, SendProtected, Transmit, sending
    <3>2. CASE SendPacket(n)
      BY <1>5, <2>10, <3>2 DEF Answer
    <3> QED
      BY <2>10, <3>1, <3>2 DEF Answer
  <2>11. CASE Ready(n)
    BY <1>2, <2>11 DEF Ready, sending, history
  <2> QED
    BY <1>7, <2>1, <2>2, <2>4, <2>5, <2>6, <2>7, <2>8, <2>9, <2>10, <2>11 DEF Link
<1>8. CASE AirStart(n)
  <2>1. Rest
    BY <1>8 DEF AirStart, sending
  <2>2. /\ pc'[u] = IF pc[u] \in Tuned THEN "hearing"
                    ELSE IF pc[u] = "hearing" THEN "garbled" ELSE pc[u]
        /\ until'[u] = IF pc[u] \in Tuned THEN BackAt(u) ELSE until[u]
        /\ heard'[u] = IF pc[u] \in Tuned
                         THEN [from |-> n, at |-> clock + AIR, back |-> BackAt(u)] ELSE heard[u]
    BY <1>8 DEF AirStart
  <2> QED
    BY <2>1, <2>2
<1> QED
  BY <1>6, <1>7, <1>8

LEMMA ClockStep ==
    ASSUME TypeOK, ClockInv, [Next]_vars
    PROVE  ClockInv'
<1>1. CASE UNCHANGED vars
  BY <1>1 DEF vars, ClockInv
<1>2. CASE Elapse
  BY <1>2 DEF Elapse, ClockInv
<1>3. ASSUME NEW n \in Nodes, Link(n) \/ Send(n) PROVE ClockInv'
  <2>1. ASSUME NEW u \in Nodes \ {n} PROVE pc'[u] \notin Resting => clock' <= until'[u]
    <3>1. clock \in Nat /\ AIR \in Nat /\ LAG \in Nat /\ until[u] \in Nat
      BY VariableTypes, ConstantTypes, DialogueAssumption
    <3>2. clock <= BackAt(u)
      BY <3>1, BackAtIs
    <3> QED
      BY <1>3, <2>1, <3>1, <3>2, Frame DEF ClockInv, Resting, Tuned
  <2>2. clock' <= until'[n]
    <3>1. clock \in Nat /\ TURN \in Nat /\ AIR \in Nat /\ MaxLate \in Nat /\ RX_ON \in Int
      BY VariableTypes, ConstantTypes
    <3>2. ASSUME NEW where, Goes(n, where), until[n] = clock PROVE clock <= until'[n]
      BY <3>1, <3>2 DEF Goes
    <3>3. ASSUME NEW where, NEW when \in Nat, GoesAt(n, where, clock + when)
          PROVE  clock <= until'[n]
      BY <3>1, <3>3, VariableTypes DEF GoesAt
    <3>4. ASSUME NEW where, NEW ms \in Int, Sleeps(n, where, ms) PROVE clock <= until'[n]
      <4>1. PICK late \in 0 .. MaxLate : GoesAt(n, where, clock + Ticks(ms) + late)
        BY <3>4 DEF Sleeps
      <4>2. Ticks(ms) + late \in Nat /\ clock + Ticks(ms) + late = clock + (Ticks(ms) + late)
        BY <3>1, <3>4, <4>1, TicksOf
      <4> QED
        BY <3>3, <4>1, <4>2
    <3>5. clock' = clock
      BY <1>3 DEF Link, Start, Request, AirStart, Ready, AirEnd, Heard, Returned, Unheard, Leave,
                  Reenter, Listen, AnswerTime, Answer, Send, Sending, SendLoop, GuardBreak,
                  Guard, ReceiverOn, Assess
    <3> SUFFICES clock <= until'[n]
      BY <3>5
    <3>6. CASE Send(n)
      <4>1. CASE SendLoop(n)
        <5>1. CASE TimesOut(n)
          BY <3>2, <4>1, <5>1 DEF SendLoop, TimesOut, Due
        <5>2. CASE NoCsma(n)
          <6>1. GoesAt(n, "turn", clock + TURN)
            BY <5>2 DEF NoCsma, Transmit
          <6> QED
            BY <3>1, <3>3, <6>1
        <5>3. CASE Spins(n)
          <6> DEFINE rest == Systime(conf.tca) - Elapsed(n)
          <6>1. Systime(conf.tca) \in Nat /\ Elapsed(n) \in Nat
            <7>1. conf.tca \in Nat /\ Elapsed(n) \in 0 .. Modulus - 1
              BY ElapsedType, NodeTypes
            <7> QED
              BY <7>1, SystimeLess, ModulusType
          <6>2. rest \in Nat /\ clock + Systime(conf.tca) - Elapsed(n) = clock + rest
            BY <3>1, <5>3, <6>1 DEF Spins
          <6>3. GoesAt(n, "send", clock + rest)
            BY <5>3, <6>2 DEF Spins
          <6> HIDE DEF rest
          <6> QED
            BY <3>3, <6>2, <6>3
        <5>4. CASE Csma(n)
          <6>1. PICK delay \in Remainders(Draws[drawn[n] + 1], Systime(Ti(TimeDiff(n)))),
                     late \in 0 .. MaxLate : GoesAt(n, "csma", clock + Ticks(delay) + late)
            BY <5>4 DEF Csma
          <6>2. delay \in Int
            <7>1. drawn[n] < Len(Draws)
              BY <5>4 DEF Csma
            <7>2. delay \in Nat
              BY <6>1, <7>1, DelayType
            <7> QED
              BY <7>2
          <6>3. Ticks(delay) + late \in Nat /\ clock + Ticks(delay) + late = clock + (Ticks(delay) + late)
            BY <3>1, <6>1, <6>2, TicksOf
          <6>4. GoesAt(n, "csma", clock + (Ticks(delay) + late))
            BY <6>1, <6>3
          <6> QED
            BY <3>3, <6>3, <6>4
        <5> QED
          BY <4>1, <5>1, <5>2, <5>3, <5>4 DEF SendLoop
      <4>2. CASE GuardBreak(n)
        BY <3>2, <4>2 DEF GuardBreak, Due
      <4>3. CASE Guard(n)
        <5>1. Systime(Tg) \in Int
          BY ConstantTypes, SystimeLess
        <5> QED
          BY <3>2, <3>4, <4>3, <5>1 DEF Guard, Due
      <4>4. CASE Assess(n)
        BY <3>1, <3>2, <3>3, <4>4 DEF Assess, Transmit, Due
      <4>5. CASE ReceiverOn(n)
        BY <3>1, <3>4, <4>5 DEF ReceiverOn
      <4> QED
        BY <3>6, <4>1, <4>2, <4>3, <4>4, <4>5 DEF Send, Sending
    <3>7. CASE Link(n)
      <4>1. CASE Start(n)
        BY <3>1, <3>2, <3>4, <4>1 DEF Start, Due
      <4>2. CASE Request(n)
        BY <3>2, <4>2 DEF Request, SendPacket, Due
      <4>3. CASE AirStart(n)
        BY <3>1, <4>3 DEF AirStart
      <4>4. ASSUME NEW where, Returned(n, where), until[n] = clock PROVE clock <= until'[n]
        BY <3>2, <3>3, <4>4, DialogueTypes DEF Returned
      <4>5. CASE AirEnd(n) \/ Heard(n)
        <5>1. until[n] = clock /\ (Returned(n, "sent") \/ Returned(n, "heard"))
          BY <4>5 DEF AirEnd, Heard, Due
        <5> QED
          BY <4>4, <5>1
      <4>6. CASE Unheard(n)
        BY <3>2, <4>6 DEF Unheard, Due
      <4>7. CASE Leave(n)
        <5>1. Away(n) \in Int
          BY WaitTypes
        <5> QED
          BY <3>2, <3>4, <4>7, <5>1 DEF Leave, Due
      <4>8. CASE Reenter(n)
        BY <3>3, <4>8, DialogueTypes DEF Reenter
      <4>9. CASE Listen(n)
        BY <3>1, <3>2, <3>4, <4>9 DEF Listen, Due
      <4>10. CASE AnswerTime(n)
        <5>1. UntilDue(n) \in Int
          BY WaitTypes
        <5> QED
          BY <3>2, <3>4, <4>10, <5>1 DEF AnswerTime, Due
      <4>11. CASE Answer(n)
        BY <3>1, <3>2, <3>3, <4>11 DEF Answer, SendPacket, SendProtected, Transmit, Due
      <4>12. CASE Ready(n)
        BY <3>3, <4>12, DialogueTypes DEF Ready
      <4> QED
        BY <3>7, <4>1, <4>2, <4>3, <4>5, <4>6, <4>7, <4>8, <4>9, <4>10, <4>11, <4>12 DEF Link
    <3> QED
      BY <1>3, <3>5, <3>6, <3>7
  <2> QED
    BY <2>1, <2>2 DEF ClockInv
<1> QED
  BY <1>1, <1>2, <1>3 DEF Next

----------------------------------------------------------------------------
(* data_send_packet *)

LEMMA Times ==
    ASSUME TypeOK
    PROVE  /\ conf.tca \in Nat /\ Tg \in Nat /\ MaxLate \in Nat /\ CLAMP \in Nat
           /\ Tg <= conf.tca /\ conf.tca < TiModulus /\ conf.tca <= CLAMP
           /\ 1000 * conf.tca < Modulus /\ CLAMP + conf.tca + RX_ON + 2 * MaxLate < Modulus
           /\ CLAMP + conf.tca + MaxLate < Modulus /\ RX_ON \in Nat
           /\ Systime(Tg) \in Nat /\ Systime(Tg) <= Tg /\ MaxLate < Systime(Tg)
<1>1. conf.tca \in Tcas /\ conf.tca \in Nat
  BY ConstantTypes DEF TypeOK
<1>2. Tg <= conf.tca /\ conf.tca < TiModulus /\ conf.tca <= CLAMP
      /\ 1000 * conf.tca < Modulus /\ CLAMP + conf.tca + RX_ON + 2 * MaxLate < Modulus
  BY <1>1, TcaBounds
<1>5. CLAMP + conf.tca + MaxLate < Modulus
  BY <1>1, <1>2, ConstantTypes, ModulusType
<1>3. Systime(Tg) \in Nat /\ Systime(Tg) <= Tg
  BY ConstantTypes, SystimeLess
<1>4. MaxLate < Systime(Tg)
  BY <1>3, ConstantTypes, LateAssumption DEF Systime
<1> QED
  BY <1>1, <1>2, <1>3, <1>4, <1>5, ConstantTypes

\* The time since s is what the counter shows.
LEMMA Since ==
    ASSUME TypeOK, NEW s \in Nat, NEW k \in 0 .. Modulus - 1,
           s <= clock, (clock - s) + k < Modulus, NEW n \in Nodes
    PROVE  ((Now(n) + k) - ((s + conf.base) % Modulus)) % Modulus = (clock - s) + k
<1> DEFINE a == clock + conf.base
           b == s + conf.base
<1>1. a \in Nat /\ b \in Nat /\ b <= a /\ a - b = clock - s
  <2>1. clock \in Nat /\ conf.base \in Nat
    BY NodeTypes
  <2> QED
    BY <2>1
<1> HIDE DEF a, b
<1>2. (a - b) + k < Modulus
  BY <1>1
<1>3. (((a % Modulus) + k) - (b % Modulus)) % Modulus = (a - b) + k
  BY <1>1, <1>2, Difference
<1> QED
  BY <1>1, <1>3 DEF a, b, Now

LEMMA ElapsedIs ==
    ASSUME TypeOK, ClockInv, NEW n \in Nodes, pc[n] \in Contending,
           NEW s \in Nat, InTime(n, s)
    PROVE  Elapsed(n) = clock - s /\ clock - s <= until[n] - s
<1>1. clock <= until[n]
  BY DEF ClockInv, Contending, Resting
<1>2. clock \in Nat /\ until[n] \in Nat /\ 0 \in 0 .. Modulus - 1
  BY VariableTypes, ModulusType
<1>6. TurnOn(n) \in Nat /\ TurnOn(n) <= RX_ON + MaxLate
  BY Times DEF TurnOn
<1>7. s <= clock /\ until[n] - s <= conf.tca + MaxLate + TurnOn(n)
  BY DEF InTime
<1>3. s <= clock /\ (clock - s) + 0 < Modulus /\ clock - s <= until[n] - s
  BY <1>1, <1>2, <1>6, <1>7, Times, ModulusType
<1>4. ((Now(n) + 0) - start[n]) % Modulus = (clock - s) + 0
  BY <1>2, <1>3, Since DEF InTime
<1>5. Now(n) + 0 = Now(n) /\ (clock - s) + 0 = clock - s
  BY <1>2, NowType, ModulusType
<1> QED
  BY <1>3, <1>4, <1>5 DEF Elapsed

\* The delay ends before Tca is over.
LEMMA DelayInTime ==
    ASSUME TypeOK, ClockInv, NEW n \in Nodes, pc[n] = "send", until[n] = clock,
           NEW s \in Nat, InTime(n, s), Csma(n), n \notin hung'
    PROVE  until'[n] - s < conf.tca /\ until'[n] \in Nat
<1> DEFINE left == Systime(conf.tca - Tg)
           past == clock - s
           span == Systime(Ti(TimeDiff(n)))
<1>1. PICK delay \in Remainders(Draws[drawn[n] + 1], span) :
        /\ \E late \in 0 .. MaxLate : GoesAt(n, "csma", clock + Ticks(delay) + late)
        /\ hung' = IF span = 0 \/ delay = 0 THEN hung \cup {n} ELSE hung
  BY DEF Csma
<1>2. PICK late \in 0 .. MaxLate : GoesAt(n, "csma", clock + Ticks(delay) + late)
  BY <1>1
<1>3. span # 0 /\ delay # 0
  BY <1>1
<1>4. Elapsed(n) = past /\ past \in Nat /\ past <= conf.tca + MaxLate
  <2>1. Elapsed(n) = past /\ past <= until[n] - s
    BY ElapsedIs DEF Contending
  <2>2. clock \in Nat /\ until[n] \in Nat /\ s <= clock /\ until[n] - s <= conf.tca + MaxLate
    BY VariableTypes, Times DEF InTime, TurnOn
  <2> QED
    BY <2>1, <2>2
<1>5. left \in Nat /\ left <= conf.tca - Tg
  <2>1. conf.tca - Tg \in Nat
    BY Times
  <2> QED
    BY <2>1, SystimeLess
<1>6. Ti(TimeDiff(n)) > 0
  BY DEF Csma
<1> HIDE DEF left, past, span
<1>7. past <= left /\ TimeDiff(n) = left - past
  <2>1. TimeDiff(n) = IF (left - past) % Modulus > CLAMP THEN 0 ELSE (left - past) % Modulus
    BY <1>4 DEF TimeDiff, left
  <2>2. CASE past <= left
    <3>1. left - past \in Int /\ left - past \in 0 .. Modulus - 1 /\ left - past <= CLAMP
      BY <1>4, <1>5, <2>2, Times, ModulusType
    <3>2. (left - past) % Modulus = left - past
      BY <3>1, Wrapped
    <3> QED
      BY <2>1, <2>2, <3>1, <3>2, ConstantTypes
  <2>3. CASE left < past
    <3>1. left - past \in Int /\ left - past \in -Modulus .. -1
      BY <1>4, <1>5, <2>3, Times, ModulusType
    <3>2. (left - past) % Modulus = (left - past) + Modulus
      BY <3>1, Wrapped
    <3>3. (left - past) + Modulus > CLAMP
      BY <1>4, <1>5, Times, ModulusType
    <3>4. TimeDiff(n) = 0
      BY <2>1, <3>2, <3>3
    <3>5. Ti(0) = 0
      <4>1. (0 * 1000) % Modulus = 0
        BY ModulusType
      <4>2. 0 % TiModulus = 0
        BY TiModulusType
      <4> QED
        BY <4>1, <4>2 DEF Ti
    <3> QED
      BY <1>6, <3>4, <3>5
  <2> QED
    BY <1>4, <1>5, <2>2, <2>3
<1>8. span \in Nat /\ span <= left - past
  <2>1. left - past \in Nat /\ 1000 * (left - past) < Modulus
    BY <1>4, <1>5, <1>7, Times, ModulusType
  <2> QED
    BY <1>7, <2>1, ThereAndBack, SystimeLess DEF span
<1>9. delay \in Nat /\ delay < span
  <2>1. drawn[n] < Len(Draws)
    BY DEF Csma
  <2>2. Draws[drawn[n] + 1] \in Nat
    <3>2. drawn[n] + 1 \in 1 .. Len(Draws)
      <4>1. drawn[n] \in 0 .. Len(Draws) /\ Len(Draws) \in Nat
        BY NodeTypes, DrawTypes
      <4> QED
        BY <2>1, <4>1
    <3> QED
      BY <3>2, DrawTypes
  <2>3. delay = Draws[drawn[n] + 1] % span
    BY <1>1, <1>3 DEF Remainders
  <2> QED
    BY <1>3, <1>8, <2>2, <2>3, Remainder
<1>10. Ticks(delay) = delay
  <2>1. 0 < delay /\ 1000 * delay < Modulus
    BY <1>3, <1>4, <1>5, <1>8, <1>9, Times, ModulusType
  <2> QED
    BY <1>9, <2>1, TicksOf
<1>11. until'[n] = clock + delay + late
  BY <1>2, <1>10, VariableTypes DEF GoesAt
<1>12. past = clock - s /\ clock \in Nat /\ late \in Nat /\ late <= MaxLate
  BY <1>2, VariableTypes, ConstantTypes DEF past
<1>13. until'[n] - s = past + delay + late /\ until'[n] \in Nat
  BY <1>9, <1>11, <1>12
<1>14. past + delay + late < conf.tca
  BY <1>4, <1>5, <1>8, <1>9, <1>12, Times
<1> QED
  BY <1>13, <1>14

\* The guard break gets no more than what is left of Tca.
LEMMA GuardTimeIs ==
    ASSUME TypeOK, ClockInv, NEW n \in Nodes, pc[n] = "csma", until[n] = clock,
           NEW s \in Nat, InTime(n, s)
    PROVE  Systime(GuardTime(n)) \in Nat /\ Systime(GuardTime(n)) + (clock - s) <= conf.tca
<1> DEFINE rest == conf.tca - (clock - s)
<1>1. Elapsed(n) = clock - s
  BY ElapsedIs DEF Contending
<1>2. clock \in Nat /\ s <= clock /\ clock - s < conf.tca
  BY VariableTypes DEF InTime
<1>3. rest \in Nat /\ rest <= conf.tca
  BY <1>2, Times
<1>4. rest % Modulus = rest
  <2>1. rest \in Int /\ rest \in 0 .. Modulus - 1
    BY <1>3, Times, ModulusType
  <2> QED
    BY <2>1, Wrapped
<1>5. rest % TiModulus = rest
  <2>1. rest < TiModulus
    BY <1>3, Times, TiModulusType
  <2> QED
    BY <1>3, <2>1, Remainder, TiModulusType
<1>6. GuardTime(n) = Ti(Systime(rest))
  BY <1>1, <1>4, <1>5 DEF GuardTime
<1> HIDE DEF rest
<1>7. Systime(rest) \in Nat /\ Systime(rest) <= rest /\ 1000 * Systime(rest) < Modulus
  BY <1>3, SystimeLess, Times, ModulusType
<1>8. Ti(Systime(rest)) \in Nat /\ Systime(Ti(Systime(rest))) <= Systime(rest)
  BY <1>7, ThereAndBack
<1>9. Systime(GuardTime(n)) \in Nat /\ Systime(GuardTime(n)) <= rest
  BY <1>3, <1>6, <1>7, <1>8, SystimeLess
<1> QED
  BY <1>2, <1>3, <1>9, Times DEF rest

LEMMA SendOwn ==
    ASSUME TypeOK, ClockInv, NEW n \in Nodes, NEW s \in Nat, SendsInTime(n, s),
           Send(n), n \notin hung', pc'[n] \in Contending
    PROVE  SendsInTime(n, s)'
<1>1. clock' = clock /\ conf' = conf
  BY DEF Send, Sending, SendLoop, GuardBreak, Guard, ReceiverOn, Assess
<1>2. pc[n] \in Contending /\ until[n] = clock
  BY DEF Send, Sending, SendLoop, GuardBreak, Guard, ReceiverOn, Assess, Due, Contending
<1>3. InTime(n, s) /\ (pc[n] = "guard" => \E g \in Nat : InGuardTime(n, s, g))
  BY DEF SendsInTime
<1>9. ~Assess(n)
  <2>1. ASSUME Assess(n) PROVE pc'[n] \in {"turn", "busy"}
    BY <2>1, VariableTypes DEF Assess, Transmit, Goes, GoesAt
  <2> QED
    BY <2>1 DEF Contending
<1>10. pc[n] # "sense"
  BY <1>9 DEF Send, Sending, SendLoop, GuardBreak, Guard, ReceiverOn, Due
<1>4. /\ clock \in Nat /\ until[n] \in Nat /\ conf.tca \in Nat /\ MaxLate \in Nat
      /\ s <= clock /\ until[n] - s <= conf.tca + MaxLate
  BY <1>3, <1>10, VariableTypes, Times DEF InTime, TurnOn
<1>11. until'[n] \in Nat /\ RX_ON \in Nat
  BY TypeSend, VariableTypes, Times DEF TypeOK
<1> SUFFICES InTime(n, s)' /\ (pc'[n] = "guard" => \E g \in Nat : InGuardTime(n, s, g)')
  BY DEF SendsInTime
<1>5. ASSUME start' = start, pc'[n] # "csma", until'[n] - s <= conf.tca + MaxLate
      PROVE  InTime(n, s)'
  <2>1. until'[n] - s <= conf.tca + MaxLate + (IF pc'[n] = "sense" THEN RX_ON + MaxLate ELSE 0)
    BY <1>4, <1>5, <1>11
  <2> QED
    BY <1>1, <1>3, <1>5, <2>1 DEF InTime, TurnOn
<1>6. CASE SendLoop(n)
  <2>1. CASE TimesOut(n) \/ NoCsma(n)
    <3>1. pc'[n] \in {"timeout", "turn"}
      BY <2>1, VariableTypes DEF TimesOut, NoCsma, Transmit, Goes, GoesAt
    <3> QED
      BY <3>1 DEF Contending
  <2>2. CASE Spins(n)
    <3>1. Elapsed(n) = clock - s
      BY <1>2, <1>3, ElapsedIs
    <3>2. pc'[n] = "send" /\ until'[n] = clock + Systime(conf.tca) - (clock - s) /\ start' = start
      BY <2>2, <3>1, VariableTypes DEF Spins, GoesAt
    <3>3. Systime(conf.tca) \in Nat /\ Systime(conf.tca) <= conf.tca
      BY <1>4, SystimeLess
    <3>4. until'[n] - s <= conf.tca + MaxLate
      BY <1>4, <3>2, <3>3
    <3> QED
      BY <1>5, <3>2, <3>4
  <2>3. CASE Csma(n)
    <3>1. pc[n] = "send" /\ pc'[n] = "csma" /\ start' = start
      BY <1>6, <2>3, VariableTypes DEF SendLoop, Due, Csma, GoesAt
    <3>2. until'[n] - s < conf.tca /\ until'[n] \in Nat
      BY <1>2, <1>3, <2>3, <3>1, DelayInTime
    <3>3. until'[n] - s <= conf.tca + MaxLate + (IF pc'[n] = "sense" THEN RX_ON + MaxLate ELSE 0)
      BY <1>4, <3>1, <3>2
    <3> QED
      BY <1>1, <1>3, <3>1, <3>2, <3>3 DEF InTime, TurnOn
  <2> QED
    BY <1>6, <2>1, <2>2, <2>3 DEF SendLoop
<1>7. CASE GuardBreak(n)
  <2>1. /\ pc[n] = "csma" /\ pc'[n] \in {"send", "guard"} /\ until' = until /\ start' = start
        /\ guard'[n] = [max |-> Systime(GuardTime(n)), start |-> Now(n)]
    BY <1>7, VariableTypes DEF GuardBreak, Goes, Due, TypeOK
  <2>2. InTime(n, s)'
    BY <1>4, <1>5, <2>1
  <2>3. Systime(GuardTime(n)) \in Nat /\ Systime(GuardTime(n)) + (clock - s) <= conf.tca
    BY <1>2, <1>3, <2>1, GuardTimeIs
  <2>4. InGuardTime(n, s, clock)'
    <3>1. guard'[n].max + (clock - s) <= conf.tca /\ until'[n] - clock <= guard'[n].max + MaxLate
      BY <1>2, <1>4, <2>1, <2>3
    <3>2. guard'[n].start = (clock + conf.base) % Modulus
      BY <2>1 DEF Now
    <3> QED
      BY <1>1, <1>4, <3>1, <3>2 DEF InGuardTime
  <2> QED
    BY <1>1, <1>4, <2>2, <2>4
<1>8. CASE Guard(n)
  <2>1. pc[n] = "guard"
    BY <1>8 DEF Guard, Due
  <2>2. PICK g \in Nat : InGuardTime(n, s, g)
    BY <1>3, <2>1
  <2>3. /\ s <= g /\ g <= clock /\ guard[n].start = (g + conf.base) % Modulus
        /\ guard[n].max + (g - s) <= conf.tca /\ clock - g <= guard[n].max + MaxLate
        /\ guard[n].max \in Nat
    BY <1>2, <2>2, NodeTypes DEF InGuardTime
  <2>4. start' = start /\ guard' = guard
    BY <1>8 DEF Guard
  <2>5. CASE ~InGuard(n)
    <3>1. pc'[n] = "send" /\ until' = until
      BY <1>8, <2>5, VariableTypes DEF Guard, Goes
    <3> QED
      BY <1>4, <1>5, <2>4, <3>1
  <2>6. CASE InGuard(n)
    <3> DEFINE k == Systime(Tg)
               max == guard[n].max
    <3>1. k \in Nat /\ k <= conf.tca /\ 0 < k
      BY Times
    <3>2. (clock - g) + k < Modulus /\ k \in 0 .. Modulus - 1
      BY <1>4, <2>3, <3>1, Times, ModulusType
    <3>3. max > (clock - g) + k
      <4>1. ((Now(n) + k) - guard[n].start) % Modulus = (clock - g) + k
        BY <2>3, <3>2, Since
      <4>2. max > ((Now(n) + k) - guard[n].start) % Modulus
        <5>1. Now(n) \in Int /\ k \in Int /\ guard[n].start \in Int
          BY <3>1, NowType, NodeTypes
        <5> QED
          BY <2>6, <5>1 DEF InGuard
      <4> QED
        BY <4>1, <4>2
    <3>4. Ticks(k) = k
      <4>1. 1000 * k < Modulus
        BY <3>1, Times, ModulusType
      <4> QED
        BY <3>1, <4>1, TicksOf
    <3>5. PICK late \in 0 .. MaxLate :
            pc'[n] \in {"clear", "guard"} /\ until'[n] = clock + k + late
      <4>1. Sleeps(n, "clear", k) \/ Sleeps(n, "guard", k)
        BY <1>8, <2>6 DEF Guard
      <4> QED
        BY <3>4, <4>1, VariableTypes DEF Sleeps, GoesAt
    <3>6. until'[n] - g <= max + MaxLate
      <4>1. late \in Nat /\ late <= MaxLate /\ max \in Nat /\ g \in Nat
        BY <1>4, <2>3, <3>5
      <4> HIDE DEF k, max
      <4> QED
        BY <1>4, <3>1, <3>3, <3>5, <4>1
    <3> HIDE DEF k, max
    <3>7. until'[n] - s <= conf.tca + MaxLate
      BY <1>4, <2>3, <3>1, <3>5, <3>6 DEF max
    <3>8. InTime(n, s)'
      BY <1>5, <2>4, <3>5, <3>7
    <3>9. InGuardTime(n, s, g)'
      BY <1>1, <2>3, <2>4, <3>6 DEF InGuardTime, max
    <3> QED
      BY <3>8, <3>9
  <2> QED
    BY <2>5, <2>6
<1>12. CASE ReceiverOn(n)
  <2>1. PICK late \in 0 .. MaxLate : GoesAt(n, "sense", clock + Ticks(RX_ON) + late)
    BY <1>12 DEF ReceiverOn, Sleeps
  <2>2. pc'[n] = "sense" /\ until'[n] = clock + RX_ON + late /\ start' = start
    BY <1>12, <2>1, RxTicks, VariableTypes DEF GoesAt, ReceiverOn
  <2>3. until'[n] - s <= conf.tca + MaxLate + (RX_ON + MaxLate)
    BY <1>2, <1>4, <1>11, <2>1, <2>2
  <2> QED
    BY <1>1, <1>3, <2>2, <2>3 DEF InTime, TurnOn
<1> QED
  BY <1>6, <1>7, <1>8, <1>9, <1>12 DEF Send, Sending

LEMMA LinkOwn ==
    ASSUME TypeOK, NEW n \in Nodes, Link(n), pc'[n] \in Contending
    PROVE  pc'[n] = "send" /\ InTime(n, clock)'
<1>1. SendPacket(n) /\ until[n] = clock /\ clock' = clock /\ conf' = conf
  <2>1. CASE Request(n) \/ Answer(n)
    BY <2>1, VariableTypes DEF Request, Answer, SendProtected, Transmit, GoesAt, Due, Contending
  <2>2. CASE Start(n) \/ AirStart(n) \/ Ready(n) \/ AirEnd(n) \/ Heard(n) \/ Unheard(n)
    BY <2>2, VariableTypes DEF Start, AirStart, Ready, AirEnd, Heard, Unheard, Returned, Sleeps,
                               Goes, GoesAt, Contending
  <2>3. CASE Leave(n) \/ Reenter(n) \/ Listen(n) \/ AnswerTime(n)
    BY <2>3, VariableTypes DEF Leave, Reenter, Listen, AnswerTime, Sleeps, Goes, GoesAt, Contending
  <2> QED
    BY <2>1, <2>2, <2>3 DEF Link
<1>2. pc'[n] = "send" /\ until'[n] = clock /\ start'[n] = Now(n)
  BY <1>1, VariableTypes DEF SendPacket, Goes
<1>3. clock \in Nat /\ clock - clock <= conf.tca + MaxLate + 0
  BY VariableTypes, Times
<1> QED
  BY <1>1, <1>2, <1>3 DEF InTime, TurnOn, Now

\* Only data_send_packet takes a node off the hung ones.
LEMMA HungOwn ==
    ASSUME NEW n \in Nodes, Send(n), n \notin hung'
    PROVE  n \notin hung /\ pc[n] \in Contending
BY DEF Send, Sending, SendLoop, TimesOut, NoCsma, Spins, Csma, GuardBreak, Guard, ReceiverOn,
       Assess, Sleeps, Due, Contending

LEMMA SendsElapse ==
    ASSUME TypeOK, Elapse, NEW n \in Nodes, NEW s \in Nat, SendsInTime(n, s)
    PROVE  SendsInTime(n, s)'
<1>1. clock <= clock' /\ clock \in Nat /\ clock' \in Nat
  BY VariableTypes DEF Elapse
<1>2. UNCHANGED <<conf, pc, until, start, guard>>
  BY DEF Elapse, sending
<1>3. InTime(n, s)'
  BY <1>1, <1>2 DEF SendsInTime, InTime, TurnOn
<1>4. ASSUME NEW g \in Nat, InGuardTime(n, s, g) PROVE InGuardTime(n, s, g)'
  BY <1>1, <1>2, <1>4 DEF InGuardTime
<1> QED
  BY <1>2, <1>3, <1>4 DEF SendsInTime

LEMMA SendsOther ==
    ASSUME TypeOK, NEW n \in Nodes, Link(n) \/ Send(n), NEW u \in Nodes \ {n},
           NEW s \in Nat, SendsInTime(u, s), pc'[u] \in Contending
    PROVE  SendsInTime(u, s)' /\ pc[u] \in Contending
<1>1. /\ pc'[u] = pc[u] /\ until'[u] = until[u]
      /\ UNCHANGED <<clock, conf>> /\ start'[u] = start[u] /\ guard'[u] = guard[u]
  BY Frame DEF Contending
<1>2. InTime(u, s)'
  BY <1>1 DEF SendsInTime, InTime, TurnOn
<1>3. ASSUME NEW g \in Nat, InGuardTime(u, s, g) PROVE InGuardTime(u, s, g)'
  BY <1>1, <1>3 DEF InGuardTime
<1> QED
  BY <1>1, <1>2, <1>3 DEF SendsInTime

LEMMA SendStep ==
    ASSUME TypeOK, ClockInv, SendInv, [Next]_vars
    PROVE  SendInv'
<1>1. CASE UNCHANGED vars
  BY <1>1 DEF vars, sending, SendInv, SendsInTime, InTime, TurnOn, InGuardTime
<1>2. CASE Elapse
  <2>1. UNCHANGED <<pc, hung>>
    BY <1>2 DEF Elapse, sending
  <2> QED
    BY <1>2, <2>1, SendsElapse DEF SendInv
<1>3. ASSUME NEW n \in Nodes, Link(n) \/ Send(n) PROVE SendInv'
  <2> SUFFICES ASSUME NEW u \in Nodes, u \notin hung', pc'[u] \in Contending
               PROVE  \E s \in Nat : SendsInTime(u, s)'
    BY DEF SendInv
  <2>1. CASE u = n /\ Send(n)
    <3>1. n \notin hung /\ pc[n] \in Contending
      BY <2>1, HungOwn
    <3>2. PICK s \in Nat : SendsInTime(n, s)
      BY <3>1 DEF SendInv
    <3>3. SendsInTime(n, s)'
      BY <2>1, <3>2, SendOwn
    <3> QED
      BY <2>1, <3>3
  <2>2. CASE u = n /\ Link(n)
    <3>1. pc'[n] = "send" /\ InTime(n, clock)'
      BY <2>2, LinkOwn
    <3>2. clock' = clock /\ clock \in Nat
      BY <2>2, VariableTypes DEF Link, Start, Request, AirStart, Ready, AirEnd, Heard, Returned, Unheard,
            Leave, Reenter, Listen, AnswerTime, Answer
    <3>3. PICK s \in Nat : s = clock
      BY <3>2
    <3>4. InTime(n, s)'
      BY <3>1, <3>2, <3>3 DEF InTime, TurnOn
    <3>5. SendsInTime(n, s)'
      BY <3>1, <3>4 DEF SendsInTime
    <3> QED
      BY <2>2, <3>5
  <2>3. CASE u # n
    <3>1. u \notin hung /\ pc[u] \in Contending
      BY <1>3, <2>3, Frame DEF Contending
    <3>2. PICK s \in Nat : SendsInTime(u, s)
      BY <3>1 DEF SendInv
    <3>3. SendsInTime(u, s)'
      BY <1>3, <2>3, <3>2, SendsOther
    <3> QED
      BY <3>3
  <2> QED
    BY <1>3, <2>1, <2>2, <2>3
<1> QED
  BY <1>1, <1>2, <1>3 DEF Next

----------------------------------------------------------------------------
(* data_answer_time *)

\* How far a moment is before another, as far as it fits the counter.
LEMMA Remaining ==
    ASSUME NEW a \in Nat, NEW b \in Nat, NEW k \in 0 .. Modulus - 1, a <= b, b - a <= k
    PROVE  (((a % Modulus) + k) - (b % Modulus)) % Modulus = k - (b - a)
<1> DEFINE qa == a \div Modulus
           qb == b \div Modulus
           ra == a % Modulus
           rb == b % Modulus
           r == k - (b - a)
<1>1. /\ ra \in 0 .. Modulus - 1 /\ rb \in 0 .. Modulus - 1 /\ qa \in Int /\ qb \in Int
      /\ a = Modulus * qa + ra /\ b = Modulus * qb + rb
  BY DivMod
<1>2. r \in 0 .. Modulus - 1 /\ r \in Int
  BY ModulusType
<1> HIDE DEF qa, qb, ra, rb
<1>3. Modulus * (qb - qa) = (b - a) - (rb - ra)
  BY <1>1, ModulusType
<1>4. qb - qa \in {0, 1}
  <2>1. -Modulus < Modulus * (qb - qa) /\ Modulus * (qb - qa) < 2 * Modulus
    BY <1>1, <1>3, ModulusType
  <2> QED
    BY <1>1, <2>1, Multiple
<1>5. CASE qb - qa = 0
  <2>1. (ra + k) - rb = r
    BY <1>1, <1>3, <1>5, ModulusType
  <2> QED
    BY <1>2, <2>1, Wrapped DEF ra, rb, r
<1>6. CASE qb - qa = 1
  <2>1. (ra + k) - rb = r + Modulus
    BY <1>1, <1>3, <1>6, ModulusType
  <2> HIDE DEF r
  <2>2. (r + Modulus) % Modulus = r
    BY <1>2, ModulusType
  <2> QED
    BY <2>1, <2>2 DEF ra, rb, r
<1> QED
  BY <1>4, <1>5, <1>6

\* An answer is never ready too early, whether the clock wraps or not: if the
\* moment it is due wraps and the clock has not, the other comparison gives up.
LEMMA NotBeforeDue ==
    ASSUME TypeOK, NEW n \in Nodes, until[n] = clock, AnswerTime(n), pc'[n] = "ready",
           NEW end \in Nat, end <= clock, time[n] = (end + conf.base) % Modulus
    PROVE  end + Systime(Tc) <= until'[n]
<1> DEFINE due == Systime(Tc)
           last == Systime(Tc + Tl)
           t == time[n]
           now == Now(n)
           w == clock - end
           a == end + conf.base
           b == clock + conf.base
<1>1. /\ clock \in Nat /\ MaxLate \in Nat /\ w \in Nat /\ a \in Nat /\ b \in Nat
      /\ a <= b /\ b - a = w
  <2>1. clock \in Nat /\ conf.base \in Nat /\ MaxLate \in Nat
    BY NodeTypes, ConstantTypes
  <2> QED
    BY <2>1
<1>2. /\ due \in Nat /\ last \in Nat /\ due <= last /\ last < Modulus /\ 1000 * due < Modulus
  <2>1. Tc \in Nat /\ Tc + Tl \in Nat /\ Tc <= Tc + Tl
    BY DialogueAssumption
  <2>2. 1000 * last < Modulus
    BY DialogueAssumption
  <2>3. due \in Nat /\ last \in Nat /\ due <= last
    BY <2>1, SystimeMonotonic, SystimeLess
  <2> HIDE DEF due, last
  <2> QED
    BY <2>2, <2>3, ModulusType
<1>3. t \in 0 .. Modulus - 1 /\ now \in 0 .. Modulus - 1 /\ t = a % Modulus /\ now = b % Modulus
  BY NodeTypes, NowType DEF Now
<1>4. ~(now > (t + last) % Modulus)
  BY VariableTypes DEF AnswerTime, TooLate, Goes
<1>5. \/ until'[n] = clock /\ now > (t + due) % Modulus
      \/ \E late \in 0 .. MaxLate : until'[n] = clock + Ticks(UntilDue(n)) + late
  <2>1. \/ Goes(n, "ready") /\ now > (t + due) % Modulus
        \/ Sleeps(n, "ready", UntilDue(n))
    BY <1>4 DEF AnswerTime, TooLate
  <2> QED
    BY <2>1, VariableTypes DEF Goes, Sleeps, GoesAt
<1>6. UntilDue(n) = ((t + due) - now) % Modulus
  <2>1. UntilDue(n) = (t + (due - now)) % Modulus
    BY DEF UntilDue
  <2> HIDE DEF due, t, now
  <2>2. t + (due - now) = (t + due) - now
    BY <1>2, <1>3, ModulusType
  <2> QED
    BY <2>1, <2>2
<1>7. UntilDue(n) \in Int
  BY WaitTypes
<1> HIDE DEF due, last, t, now, w, a, b
<1>8. CASE due <= w
  <2>1. clock <= until'[n]
    <3>1. Ticks(UntilDue(n)) \in Nat
      BY <1>7, TicksOf
    <3> QED
      BY <1>1, <1>5, <3>1
  <2>2. end + due <= clock
    BY <1>1, <1>2, <1>8 DEF w
  <2>3. end + due <= until'[n]
    <3>1. until'[n] \in Int
      <4>1. Ticks(UntilDue(n)) \in Nat
        BY <1>7, TicksOf
      <4> QED
        BY <1>1, <1>5, <4>1
    <3> QED
      BY <1>1, <1>2, <2>1, <2>2, <3>1
  <2> QED
    BY <2>3 DEF due
<1>9. CASE w < due
  <2>1. ~(now > (t + due) % Modulus)
    <3>1. (((b % Modulus) + 0) - (a % Modulus)) % Modulus = (b - a) + 0
      <4>1. 0 \in 0 .. Modulus - 1 /\ (b - a) + 0 < Modulus
        BY <1>1, <1>2, <1>9, ModulusType
      <4> QED
        BY <1>1, <4>1, Difference
    <3>2. (now - t) % Modulus = w
      <4>1. (now + 0) - t = now - t /\ (b - a) + 0 = w
        BY <1>1, <1>3
      <4> QED
        BY <1>3, <3>1, <4>1
    <3>3. ASSUME NEW x \in Nat, x < Modulus
          PROVE  (t + x) % Modulus = IF t + x < Modulus THEN t + x ELSE (t + x) - Modulus
      <4>1. CASE t + x < Modulus
        <5>1. t + x \in 0 .. Modulus - 1 /\ t + x \in Int
          BY <1>3, <3>3, <4>1, ModulusType
        <5> QED
          BY <4>1, <5>1, Wrapped
      <4>2. CASE ~(t + x < Modulus)
        <5>1. (t + x) - Modulus \in 0 .. Modulus - 1
          BY <1>3, <3>3, <4>2, ModulusType
        <5>2. (t + x) % Modulus = ((t + x) - Modulus) % Modulus
          BY <1>3, <3>3, ModulusType
        <5> QED
          BY <4>2, <5>1, <5>2, Wrapped, ModulusType
      <4> QED
        BY <4>1, <4>2
    <3>4. /\ (t + due) % Modulus = IF t + due < Modulus THEN t + due ELSE (t + due) - Modulus
          /\ (t + last) % Modulus = IF t + last < Modulus THEN t + last ELSE (t + last) - Modulus
      <4>1. due < Modulus
        BY <1>2, ModulusType
      <4> QED
        BY <1>2, <3>3, <4>1
    <3>5. CASE t <= now
      <4>1. now - t \in Int /\ now - t \in 0 .. Modulus - 1
        BY <1>3, <3>5, ModulusType
      <4>2. now - t = w
        BY <3>2, <4>1, Wrapped
      <4> QED
        BY <1>2, <1>3, <1>4, <1>9, <3>4, <3>5, <4>2, ModulusType
    <3>6. CASE now < t
      <4>1. now - t \in Int /\ now - t \in -Modulus .. -1
        BY <1>3, <3>6, ModulusType
      <4>2. (now - t) + Modulus = w
        BY <3>2, <4>1, Wrapped
      <4> QED
        BY <1>1, <1>2, <1>3, <1>9, <3>4, <3>6, <4>2, ModulusType
    <3> QED
      BY <1>3, <3>5, <3>6
  <2>2. UntilDue(n) = due - w
    <3>1. due \in 0 .. Modulus - 1 /\ b - a <= due
      BY <1>1, <1>2, <1>9, ModulusType
    <3>2. (((a % Modulus) + due) - (b % Modulus)) % Modulus = due - (b - a)
      BY <1>1, <3>1, Remaining
    <3> QED
      BY <1>1, <1>3, <1>6, <3>2
  <2>3. Ticks(due - w) = due - w
    <3>1. due - w \in Int /\ 0 < due - w /\ 1000 * (due - w) < Modulus
      BY <1>1, <1>2, <1>9, ModulusType
    <3> QED
      BY <3>1, TicksOf
  <2>4. PICK late \in 0 .. MaxLate : until'[n] = clock + (due - w) + late
    BY <1>5, <2>1, <2>2, <2>3
  <2>5. end + due <= until'[n]
    BY <1>1, <1>2, <2>4 DEF w
  <2> QED
    BY <2>5 DEF due
<1> QED
  BY <1>1, <1>2, <1>8, <1>9

\* Within a turn of the counter the comparisons of data_answer_time are exact.
LEMMA AnswerCall ==
    ASSUME TypeOK, NEW n \in Nodes, pc[n] = "heard", until[n] = clock, AnswerTime(n),
           NEW end \in Nat, end <= clock, time[n] = (end + conf.base) % Modulus,
           pc'[n] = "ready", Turn(end) = (until'[n] + conf.base) \div Modulus,
           clock <= until'[n], until'[n] \in Nat
    PROVE  \/ /\ end + Systime(Tc) < clock /\ clock <= end + Systime(Tc + Tl)
              /\ until'[n] = clock /\ called'[n] = "late"
           \/ /\ UntilDue(n) \in Nat /\ clock + UntilDue(n) = end + Systime(Tc)
              /\ Sleeps(n, "ready", UntilDue(n))
              /\ called'[n] = IF UntilDue(n) = 0 THEN "late" ELSE "punctual"
<1> DEFINE due == Systime(Tc)
           last == Systime(Tc + Tl)
           q == (end + conf.base) \div Modulus
           t == time[n]
           now == Now(n)
<1>1. clock \in Nat /\ conf.base \in Nat /\ MaxLate \in Nat
  BY NodeTypes, ConstantTypes
<1>2. /\ due \in Nat /\ last \in Nat /\ due <= last /\ 1000 * last < Modulus
  <2>1. Tc \in Nat /\ Tc + Tl \in Nat /\ Tc <= Tc + Tl
    BY DialogueAssumption
  <2> QED
    BY <2>1, SystimeMonotonic, SystimeLess, DialogueAssumption
<1>3. /\ t \in 0 .. Modulus - 1 /\ now \in 0 .. Modulus - 1 /\ q \in Int
      /\ end + conf.base = Modulus * q + t /\ clock + conf.base = Modulus * q + now
  <2>1. end + conf.base \in Nat /\ clock + conf.base \in Nat /\ until'[n] + conf.base \in Nat
    BY <1>1
  <2>2. (clock + conf.base) \div Modulus = q
    <3>1. end + conf.base <= clock + conf.base /\ clock + conf.base <= until'[n] + conf.base
      BY <1>1
    <3>2. /\ q <= (clock + conf.base) \div Modulus
          /\ (clock + conf.base) \div Modulus <= (until'[n] + conf.base) \div Modulus
      BY <2>1, <3>1, TurnMonotonic
    <3>3. q \in Int /\ (clock + conf.base) \div Modulus \in Int
      BY <2>1, DivMod
    <3> QED
      BY <3>2, <3>3 DEF Turn
  <2> QED
    BY <2>1, <2>2, DivMod DEF Now
<1> HIDE DEF due, last, q, t, now
<1>4. clock - end = now - t /\ t <= now
  BY <1>1, <1>3, ModulusType
<1>5. /\ t + last < Modulus => (t + last) % Modulus = t + last
      /\ t + last >= Modulus => (t + last) % Modulus < now
      /\ t + due < Modulus => (t + due) % Modulus = t + due
  <2>1. ASSUME NEW x \in Nat, t + x < Modulus PROVE (t + x) % Modulus = t + x
    <3>1. t + x \in 0 .. Modulus - 1 /\ t + x \in Int
      BY <1>3, <2>1, ModulusType
    <3> QED
      BY <3>1, Wrapped
  <2>2. ASSUME t + last >= Modulus PROVE (t + last) % Modulus < now
    <3>1. (t + last) - Modulus \in 0 .. Modulus - 1 /\ (t + last) - Modulus < now
      BY <1>2, <1>3, <1>4, <2>2, ModulusType
    <3>2. (t + last) % Modulus = ((t + last) - Modulus) % Modulus
      BY <1>2, <1>3, ModulusType
    <3> QED
      BY <3>1, <3>2, Wrapped, ModulusType
  <2> QED
    BY <1>2, <2>1, <2>2
<1>6. ~(now > (t + last) % Modulus)
  BY VariableTypes DEF AnswerTime, TooLate, Goes, now, t, last
<1>7. t + last < Modulus /\ t + due < Modulus /\ now <= t + last
  <2>1. (t + last) % Modulus \in Int
    BY <1>2, <1>3, ModulusType
  <2> QED
    BY <1>2, <1>3, <1>5, <1>6, <2>1, ModulusType
<1>8. CASE now > (t + due) % Modulus
  <2>1. until'[n] = clock /\ called'[n] = "late"
    BY <1>6, <1>8, CalledType DEF AnswerTime, TooLate, Goes, now, t, due, last
  <2>2. now > t + due
    BY <1>5, <1>7, <1>8
  <2>3. end + due < clock /\ clock <= end + last
    BY <1>1, <1>2, <1>3, <1>4, <1>7, <2>2
  <2> QED
    BY <2>1, <2>3 DEF due, last
<1>9. CASE ~(now > (t + due) % Modulus)
  <2>1. /\ Sleeps(n, "ready", UntilDue(n))
        /\ called'[n] = IF UntilDue(n) = 0 THEN "late" ELSE "punctual"
    BY <1>6, <1>9, CalledType DEF AnswerTime, TooLate, now, t, due, last
  <2>2. now <= t + due
    BY <1>3, <1>5, <1>7, <1>9, <1>2
  <2> DEFINE rest == (t + due) - now
  <2>3. rest \in Nat /\ rest <= due
    BY <1>2, <1>3, <1>4, <2>2
  <2>4. UntilDue(n) = rest
    <3>1. UntilDue(n) = (t + (due - now)) % Modulus
      BY DEF UntilDue, t, due, now
    <3>2. t + (due - now) = rest /\ rest \in Int /\ rest \in 0 .. Modulus - 1
      BY <1>2, <1>3, <2>3, ModulusType
    <3> HIDE DEF rest
    <3> QED
      BY <3>1, <3>2, Wrapped
  <2>5. clock + rest = end + due
    BY <1>1, <1>2, <1>3, <1>4
  <2> HIDE DEF rest
  <2> QED
    BY <2>1, <2>3, <2>4, <2>5 DEF due
<1> QED
  BY <1>8, <1>9

LEMMA AnswerDue ==
    ASSUME TypeOK, NEW n \in Nodes, pc[n] = "heard", until[n] = clock, AnswerTime(n),
           NEW end \in Nat, end <= clock, time[n] = (end + conf.base) % Modulus,
           pc'[n] = "ready", Turn(end) = (until'[n] + conf.base) \div Modulus,
           clock <= until'[n], until'[n] \in Nat
    PROVE  /\ end + Systime(Tc) <= until'[n]
           /\ n \notin hung' => until'[n] <= end + Systime(Tc + Tl) + MaxLate
           /\ called'[n] = "punctual" => until'[n] <= end + Systime(Tc) + MaxLate
<1> DEFINE due == Systime(Tc)
           last == Systime(Tc + Tl)
           rest == UntilDue(n)
<1>1. clock \in Nat /\ MaxLate \in Nat
  BY NodeTypes, ConstantTypes
<1>2. due \in Nat /\ last \in Nat /\ due <= last /\ 1000 * last < Modulus
  <2>1. Tc \in Nat /\ Tc + Tl \in Nat /\ Tc <= Tc + Tl
    BY DialogueAssumption
  <2> QED
    BY <2>1, SystimeMonotonic, SystimeLess, DialogueAssumption
<1>3. \/ /\ end + due < clock /\ clock <= end + last
         /\ until'[n] = clock /\ called'[n] = "late"
      \/ /\ rest \in Nat /\ clock + rest = end + due
         /\ Sleeps(n, "ready", rest)
         /\ called'[n] = IF rest = 0 THEN "late" ELSE "punctual"
  BY AnswerCall
<1> HIDE DEF due, last, rest
<1>4. CASE /\ end + due < clock /\ clock <= end + last
           /\ until'[n] = clock /\ called'[n] = "late"
  <2>1. end + due <= until'[n] /\ until'[n] <= end + last + MaxLate
    BY <1>1, <1>2, <1>4
  <2> QED
    BY <1>4, <2>1 DEF due, last
<1>5. CASE /\ rest \in Nat /\ clock + rest = end + due
           /\ Sleeps(n, "ready", rest)
           /\ called'[n] = IF rest = 0 THEN "late" ELSE "punctual"
  <2>1. PICK late \in 0 .. MaxLate : until'[n] = clock + Ticks(rest) + late
    BY <1>5, VariableTypes DEF Sleeps, GoesAt
  <2>2. rest = 0 => n \in hung'
    BY <1>5 DEF Sleeps
  <2>3. late \in Nat /\ late <= MaxLate
    BY <1>1, <2>1
  <2>4. CASE rest = 0
    <3>1. Ticks(rest) \in Nat
      BY <1>5, TicksOf
    <3>2. end + due <= until'[n]
      BY <1>1, <1>2, <1>5, <2>1, <2>3, <2>4, <3>1
    <3> QED
      BY <1>5, <2>2, <2>4, <3>2 DEF due
  <2>5. CASE rest # 0
    <3>1. 0 < rest /\ rest <= due /\ 1000 * rest < Modulus
      BY <1>1, <1>2, <1>5, <2>5, ModulusType
    <3>2. Ticks(rest) = rest
      BY <1>5, <3>1, TicksOf
    <3>3. until'[n] = end + due + late
      BY <1>1, <1>2, <1>5, <2>1, <2>3, <3>2
    <3>4. end + due <= until'[n] /\ until'[n] <= end + due + MaxLate
      BY <1>1, <1>2, <2>3, <3>3
    <3>5. until'[n] <= end + last + MaxLate
      BY <1>1, <1>2, <2>3, <3>3
    <3> QED
      BY <3>4, <3>5 DEF due, last
  <2> QED
    BY <2>4, <2>5
<1> QED
  BY <1>3, <1>4, <1>5

LEMMA AnswerStep ==
    ASSUME TypeOK, ClockInv, AnswerInv, [Next]_vars, TypeOK', ClockInv'
    PROVE  AnswerInv'
<1>1. CASE UNCHANGED vars
  BY <1>1 DEF vars, sending, history, AnswerInv, Turn
<1>2. CASE Elapse
  <2>1. clock <= clock' /\ clock \in Nat /\ clock' \in Nat
    BY <1>2, VariableTypes DEF Elapse
  <2>2. UNCHANGED <<conf, pc, until, time, heard, hung>>
    BY <1>2 DEF Elapse, sending, history
  <2>3. \A n \in Nodes : heard[n].back \in Nat
    BY NodeTypes
  <2> QED
    BY <2>1, <2>2, <2>3 DEF AnswerInv, Turn
<1>3. ASSUME NEW n \in Nodes, Link(n) \/ Send(n) PROVE AnswerInv'
  <2> DEFINE Ok(u) == LET end == heard[u].back IN
        /\ pc[u] = "hearing" => until[u] = end
        /\ pc[u] = "heard" => end <= clock /\ time[u] = (end + conf.base) % Modulus
        /\ pc[u] = "ready" => end + Systime(Tc) <= until[u]
        /\ pc[u] = "ready" /\ u \notin hung /\ Turn(end) = Turn(until[u]) =>
             until[u] <= end + Systime(Tc + Tl) + MaxLate
  <2>1. \A u \in Nodes : Ok(u)
    BY DEF AnswerInv
  <2> SUFFICES ASSUME NEW u \in Nodes PROVE Ok(u)'
    BY DEF AnswerInv
  <2>2. CASE u # n
    <3>1. /\ UNCHANGED <<clock, conf>> /\ time'[u] = time[u] /\ (u \in hung' <=> u \in hung)
          /\ \/ pc'[u] = pc[u] /\ until'[u] = until[u] /\ heard'[u] = heard[u]
             \/ /\ pc'[u] = "hearing"
                /\ until'[u] = BackAt(u) /\ heard'[u].back = BackAt(u)
             \/ pc'[u] = "garbled"
      BY <1>3, <2>2, Frame
    <3> QED
      BY <2>1, <3>1 DEF Turn
  <2>3. CASE u = n /\ Heard(n)
    <3>1. pc[n] = "hearing" /\ until[n] = clock /\ clock' = clock /\ conf' = conf /\ heard' = heard
      BY <2>3 DEF Heard, Returned, Due
    <3>2. time'[n] = (clock + conf.base) % Modulus /\ pc'[n] \in {"heard", "done"}
      BY <2>3, VariableTypes DEF Heard, Returned, GoesAt, Goes, Now
    <3>3. clock = heard[n].back /\ clock \in Nat
      BY <2>1, <3>1, VariableTypes
    <3> QED
      BY <2>3, <3>1, <3>2, <3>3
  <2>4. CASE u = n /\ AnswerTime(n)
    <3>1. /\ pc[n] = "heard" /\ until[n] = clock /\ UNCHANGED <<clock, conf, time, heard>>
          /\ pc'[n] \in {"ready", "done"}
      BY <2>4, VariableTypes DEF AnswerTime, Due, Sleeps, Goes, GoesAt
    <3>2. SUFFICES ASSUME pc'[n] = "ready"
                   PROVE  /\ heard[n].back + Systime(Tc) <= until'[n]
                          /\ n \notin hung' /\ Turn(heard[n].back) = (until'[n] + conf.base) \div Modulus =>
                               until'[n] <= heard[n].back + Systime(Tc + Tl) + MaxLate
      BY <2>4, <3>1 DEF Turn
    <3> DEFINE end == heard[n].back
    <3>3. end \in Nat /\ end <= clock /\ time[n] = (end + conf.base) % Modulus
      BY <2>1, <3>1, NodeTypes
    <3>4. clock <= until'[n] /\ until'[n] \in Nat
      <4>1. clock' <= until'[n]
        BY <3>2 DEF ClockInv, Resting
      <4>2. until' \in [Nodes -> Nat]
        BY DEF TypeOK
      <4> QED
        BY <3>1, <4>1, <4>2
    <3> HIDE DEF end
    <3>5. end + Systime(Tc) <= until'[n]
      BY <2>4, <3>1, <3>2, <3>3, NotBeforeDue
    <3>6. ASSUME n \notin hung', Turn(end) = (until'[n] + conf.base) \div Modulus
          PROVE  until'[n] <= end + Systime(Tc + Tl) + MaxLate
      BY <2>4, <3>1, <3>2, <3>3, <3>4, <3>6, AnswerDue
    <3> QED
      BY <3>5, <3>6 DEF end
  <2>5. CASE u = n /\ ~Heard(n) /\ ~AnswerTime(n)
    <3>1. pc'[n] \notin {"hearing", "heard", "ready"}
      <4>1. CASE Send(n)
        BY <4>1, VariableTypes DEF Send, Sending, SendLoop, TimesOut, NoCsma, Spins, Csma, GuardBreak,
              Guard, ReceiverOn, Assess, Transmit, Sleeps, Goes, GoesAt
      <4>2. CASE Start(n) \/ Request(n) \/ Answer(n)
        BY <4>2, VariableTypes DEF Start, Request, Answer, SendPacket, SendProtected, Transmit, Sleeps,
                                   Goes, GoesAt
      <4>3. CASE AirStart(n) \/ Ready(n) \/ AirEnd(n) \/ Unheard(n)
        BY <4>3, VariableTypes DEF AirStart, Ready, AirEnd, Unheard, Returned, Goes, GoesAt
      <4>4. CASE Leave(n) \/ Reenter(n) \/ Listen(n)
        BY <4>4, VariableTypes DEF Leave, Reenter, Listen, Sleeps, Goes, GoesAt
      <4> QED
        BY <1>3, <2>5, <4>1, <4>2, <4>3, <4>4 DEF Link
    <3> QED
      BY <2>5, <3>1
  <2> QED
    BY <2>2, <2>3, <2>4, <2>5
<1> QED
  BY <1>1, <1>2, <1>3 DEF Next

----------------------------------------------------------------------------
(* What a node has heard, and when its answer to that is due *)

\* When data_listen has returned the packet, and when the answer is due.
End(n) == heard[n].back
DueAt(n) == End(n) + Systime(Tc)
InTurn(n, moment) == Turn(End(n)) = Turn(moment)

Told(n) == 0 < heard[n].at
Receiving == {"hearing", "garbled"}
Answering == {"ready", "turn"} \cup Contending

\* How long a node has been on its way to the end of its packet, at least.
Past(where) == IF where = "turn" THEN TURN ELSE IF where = "air" THEN TURN + AIR ELSE 0

\* A node that has heard a packet has sent nothing since, and what it sends
\* next it sends when the answer is due or later.
HeardOf(n) ==
    /\ sent[n] <= clock /\ began[n] <= clock
    /\ ~Told(n) => heard[n] = NoPacket /\ n \notin guarded
    /\ pc[n] \in Receiving \cup {"heard", "ready"} => Told(n)
    /\ pc[n] \in {"idle", "configured"} => ~Told(n)
    /\ pc[n] \in {"idle", "configured", "air"} \cup Answering /\ ~Told(n) => sent[n] = 0
    /\ pc[n] \in Receiving => until[n] = End(n)
    /\ Told(n) => /\ heard[n].at + LAG <= End(n)
                  /\ End(n) <= heard[n].at + LAG + RX_ON + MaxLate
    /\ pc[n] \in {"first", "again"} => until[n] <= clock + RX_ON + MaxLate
    /\ pc[n] \in Receiving \cup {"heard"} \cup Answering /\ Told(n) =>
         sent[n] + AIR <= heard[n].at /\ began[n] < heard[n].at
    /\ pc[n] \in {"heard", "air"} \cup Answering /\ Told(n) => End(n) <= clock
    /\ pc[n] \in Contending /\ Told(n) => n \in guarded
    /\ pc[n] \in {"air"} \cup Answering /\ Told(n) => DueAt(n) + Past(pc[n]) <= until[n]

HeardInv == \A n \in Nodes : HeardOf(n)

\* An answer that is not late and is sent at once is sent when it is due.
PunctualOf(n) ==
    called[n] = "punctual" /\ Told(n) /\ InTurn(n, until[n]) =>
      /\ pc[n] = "ready" => until[n] <= DueAt(n) + MaxLate
      /\ pc[n] = "turn" /\ n \notin guarded => until[n] <= DueAt(n) + MaxLate + TURN

PunctualInv == \A n \in Nodes : PunctualOf(n)

\* A node that listens for its answer began in time and goes on for Tfsd,
\* unless it hears something.
OpenedOf(n) ==
    /\ pc[n] = "sent" => time[n] = (sent[n] + conf.base) % Modulus
    /\ pc[n] \in {"away", "back"} => sent[n] + Systime(Tc) <= until[n] + SAFE_SLEEP_WINDOW
    /\ pc[n] \in {"idle", "configured", "first", "sent", "away", "back"} => opened[n] = 0
    /\ opened[n] > 0 =>
         /\ opened[n] <= clock /\ sent[n] + Systime(Tc) <= opened[n] + SAFE_SLEEP_WINDOW
         /\ pc[n] = "again" => opened[n] + RX_ON <= until[n]
         /\ pc[n] = "listen" => opened[n] + RX_ON + Systime(Tfsd) <= until[n]
         /\ pc[n] \in Receiving \cup {"heard", "air"} \cup Answering => opened[n] < heard[n].at
         /\ pc[n] \notin Receiving \cup {"again", "listen"} =>
              opened[n] + RX_ON + Systime(Tfsd) <= clock \/ Taken(n)

OpenedInv == \A n \in Nodes : OpenedOf(n)

\* Who has sent what a node has heard last has sent nothing since, or what it
\* has sent since was an answer.
AskerOf(n) ==
    Told(n) => LET a == heard[n].from IN
       \/ pc[a] = "air" /\ until[a] = heard[n].at
       \/ pc[a] # "air" /\ sent[a] = heard[n].at
       \/ pc[a] = "air" /\ Told(a) /\ heard[n].at + AIR <= heard[a].at
       \/ heard[n].at + AIR + LAG + Systime(Tc) + TURN + AIR <= sent[a]

AskerInv == \A n \in Nodes : AskerOf(n)

----------------------------------------------------------------------------
(* What a step does to its node *)

Kept(n) ==
    /\ sent'[n] = sent[n] /\ began'[n] = began[n] /\ opened'[n] = opened[n]
    /\ heard'[n] = heard[n] /\ called'[n] = called[n] /\ (n \in guarded' <=> n \in guarded)

LEMMA GoesOwn ==
    ASSUME TypeOK, NEW n \in Nodes, NEW where, Goes(n, where)
    PROVE  pc'[n] = where /\ until'[n] = until[n]
BY VariableTypes DEF Goes

LEMMA GoesAtOwn ==
    ASSUME TypeOK, NEW n \in Nodes, NEW where, NEW when, GoesAt(n, where, when)
    PROVE  pc'[n] = where /\ until'[n] = when
BY VariableTypes DEF GoesAt

LEMMA SleepsOwn ==
    ASSUME TypeOK, NEW n \in Nodes, NEW where, NEW ms, Sleeps(n, where, ms)
    PROVE  /\ pc'[n] = where
           /\ \E late \in 0 .. MaxLate : until'[n] = clock + Ticks(ms) + late
BY GoesAtOwn DEF Sleeps

LEMMA SendMoves ==
    ASSUME TypeOK, NEW n \in Nodes, Send(n)
    PROVE  /\ clock' = clock /\ conf' = conf /\ until[n] = clock
           /\ UNCHANGED <<time, history>> /\ Kept(n) /\ time'[n] = time[n]
           /\ pc[n] \in Contending /\ pc'[n] \in Contending \cup {"turn", "timeout", "busy"}
           /\ pc'[n] = "turn" => until'[n] = clock + TURN
<1>1. /\ clock' = clock /\ conf' = conf /\ until[n] = clock /\ UNCHANGED <<time, history>>
      /\ pc[n] \in Contending
  BY DEF Send, Sending, SendLoop, GuardBreak, Guard, ReceiverOn, Assess, Due, Contending
<1>2. Kept(n)
  BY <1>1 DEF Kept, history
<1>3. pc'[n] \in Contending \cup {"turn", "timeout", "busy"}
  BY GoesOwn, GoesAtOwn, SleepsOwn DEF Send, Sending, SendLoop, TimesOut, NoCsma, Spins, Csma,
     GuardBreak, Guard, ReceiverOn, Assess, Transmit, Contending
<1>4. ASSUME pc'[n] = "turn" PROVE until'[n] = clock + TURN
  BY <1>4, GoesOwn, GoesAtOwn, SleepsOwn DEF Send, Sending, SendLoop, TimesOut, NoCsma, Spins, Csma,
     GuardBreak, Guard, ReceiverOn, Assess, Transmit
<1> QED
  BY <1>1, <1>2, <1>3, <1>4

LEMMA LinkMoves ==
    ASSUME TypeOK, NEW n \in Nodes, Link(n)
    PROVE  /\ clock' = clock /\ conf' = conf /\ until[n] = clock
           /\ \/ /\ pc[n] = "idle" /\ pc'[n] = "configured" /\ drawn'[n] = 0 /\ Kept(n)
              \/ /\ pc[n] = "idle" /\ n # Starter /\ pc'[n] = "first"
                 /\ \E late \in 0 .. MaxLate : until'[n] = clock + RX_ON + late
                 /\ drawn'[n] = drawn[n] /\ Kept(n)
              \/ /\ pc[n] = "first" /\ pc'[n] = "listen" /\ until'[n] = clock + Systime(Treceive)
                 /\ drawn'[n] = drawn[n] /\ Kept(n)
              \/ /\ pc[n] = "again" /\ pc'[n] = "listen" /\ until'[n] = clock + Systime(Tfsd)
                 /\ drawn'[n] = drawn[n] /\ Kept(n)
              \/ pc[n] = "configured" /\ pc'[n] = "send" /\ until'[n] = clock /\ Kept(n)
              \/ /\ pc[n] = "turn" /\ pc'[n] = "air" /\ until'[n] = clock + AIR
                 /\ sent'[n] = sent[n] /\ opened'[n] = opened[n] /\ heard'[n] = heard[n]
                 /\ called'[n] = called[n] /\ (n \in guarded' <=> n \in guarded)
                 /\ began'[n] = clock /\ AirStart(n)
              \/ /\ pc[n] = "air" /\ pc'[n] \in {"sent", "done"}
                 /\ began'[n] = began[n] /\ heard'[n] = heard[n]
                 /\ called'[n] = called[n] /\ (n \in guarded' <=> n \in guarded)
                 /\ sent'[n] = clock /\ opened'[n] = 0 /\ time'[n] = Now(n)
              \/ pc[n] = "hearing" /\ pc'[n] \in {"heard", "done"} /\ drawn'[n] = drawn[n] /\ Kept(n)
              \/ pc[n] \in {"garbled", "listen"} /\ pc'[n] = "done" /\ Kept(n)
              \/ pc[n] = "sent" /\ pc'[n] \in {"away", "done"} /\ Leave(n) /\ Kept(n)
              \/ pc[n] = "away" /\ pc'[n] = "back" /\ drawn'[n] = 0 /\ Kept(n)
              \/ pc[n] = "back" /\ pc'[n] = "done" /\ Kept(n)
              \/ /\ pc[n] = "back" /\ pc'[n] = "again"
                 /\ \E late \in 0 .. MaxLate : until'[n] = clock + RX_ON + late
                 /\ sent'[n] = sent[n] /\ began'[n] = began[n] /\ heard'[n] = heard[n]
                 /\ called'[n] = called[n] /\ (n \in guarded' <=> n \in guarded)
                 /\ drawn'[n] = drawn[n] /\ opened'[n] = clock
              \/ pc[n] = "heard" /\ pc'[n] = "done" /\ Kept(n)
              \/ /\ pc[n] = "heard" /\ pc'[n] = "ready" /\ AnswerTime(n)
                 /\ sent'[n] = sent[n] /\ began'[n] = began[n] /\ opened'[n] = opened[n]
                 /\ heard'[n] = heard[n] /\ (n \in guarded' <=> n \in guarded)
                 /\ drawn'[n] = drawn[n]
              \/ /\ pc[n] = "ready" /\ pc'[n] = "turn" /\ until'[n] = clock + TURN
                 /\ sent'[n] = sent[n] /\ began'[n] = began[n] /\ opened'[n] = opened[n]
                 /\ heard'[n] = heard[n] /\ called'[n] = called[n] /\ n \notin guarded'
              \/ /\ pc[n] = "ready" /\ pc'[n] = "send" /\ until'[n] = clock
                 /\ sent'[n] = sent[n] /\ began'[n] = began[n] /\ opened'[n] = opened[n]
                 /\ heard'[n] = heard[n] /\ called'[n] = called[n] /\ n \in guarded'
                 /\ drawn'[n] = drawn[n] /\ SendPacket(n)
<1>1. CASE Start(n)
  <2>1. n \in DOMAIN drawn
    BY DEF TypeOK
  <2>2. CASE n = Starter
    BY <1>1, <2>1, <2>2, GoesOwn DEF Start, Due, Config, Kept, history
  <2>3. CASE n # Starter
    <3>1. Sleeps(n, "first", RX_ON) /\ drawn' = drawn
      BY <1>1, <2>3 DEF Start
    <3>2. pc'[n] = "first" /\ \E late \in 0 .. MaxLate : until'[n] = clock + RX_ON + late
      BY <3>1, SleepsOwn, RxTicks
    <3> QED
      BY <1>1, <2>3, <3>1, <3>2 DEF Start, Due, Kept, history
  <2> QED
    BY <2>2, <2>3
<1>2. CASE Request(n)
  BY <1>2, GoesOwn DEF Request, Due, SendPacket, Kept, history
<1>3. CASE AirStart(n)
  <2>1. pc'[n] = "air" /\ until'[n] = clock + AIR /\ heard'[n] = heard[n]
    BY <1>3 DEF AirStart
  <2>2. began'[n] = clock
    BY <1>3, VariableTypes DEF AirStart
  <2> QED
    BY <1>3, <2>1, <2>2 DEF AirStart, Due
<1>4. ASSUME NEW where, Returned(n, where)
      PROVE  /\ clock' = clock /\ conf' = conf /\ time'[n] = Now(n) /\ pc'[n] \in {where, "done"}
             /\ began' = began /\ heard' = heard /\ called' = called /\ guarded' = guarded
             /\ drawn' = drawn
  BY <1>4, GoesOwn, GoesAtOwn, VariableTypes DEF Returned, sending
<1>5. CASE AirEnd(n)
  <2>1. sent'[n] = clock /\ opened'[n] = 0
    BY <1>5, VariableTypes DEF AirEnd
  <2> QED
    BY <1>4, <1>5, <2>1 DEF AirEnd, Due
<1>6. CASE Heard(n)
  BY <1>4, <1>6 DEF Heard, Due, Kept
<1>7. CASE Unheard(n)
  BY <1>7, GoesOwn DEF Unheard, Due, Kept, history
<1>8. CASE Leave(n)
  BY <1>8, GoesOwn, SleepsOwn DEF Leave, Due, Kept, history
<1>9. CASE Reenter(n)
  BY <1>9, GoesAtOwn DEF Reenter, Due, Config, TypeOK, Kept, history
<1>10. CASE Listen(n)
  <2>1. CASE Goes(n, "done") /\ UNCHANGED <<hung, opened>>
    BY <1>10, <2>1, GoesOwn DEF Listen, Due, Kept
  <2>2. CASE Sleeps(n, "again", RX_ON) /\ opened' = [opened EXCEPT ![n] = clock]
    <3>1. pc'[n] = "again" /\ \E late \in 0 .. MaxLate : until'[n] = clock + RX_ON + late
      BY <2>2, SleepsOwn, RxTicks
    <3>2. opened'[n] = clock
      BY <2>2, VariableTypes
    <3> QED
      BY <1>10, <3>1, <3>2 DEF Listen, Due
  <2> QED
    BY <1>10, <2>1, <2>2 DEF Listen
<1>11. CASE AnswerTime(n)
  <2>1. /\ pc[n] = "heard" /\ until[n] = clock /\ clock' = clock /\ conf' = conf /\ drawn' = drawn
        /\ sent' = sent /\ began' = began /\ opened' = opened /\ heard' = heard /\ guarded' = guarded
    BY <1>11 DEF AnswerTime, Due
  <2>2. pc'[n] = "ready" \/ (pc'[n] = "done" /\ called' = called)
    BY <1>11, GoesOwn, SleepsOwn DEF AnswerTime
  <2> QED
    BY <1>11, <2>1, <2>2 DEF Kept
<1>12. CASE Answer(n)
  <2>1. CASE SendProtected(n) /\ guarded' = guarded \ {n}
    BY <1>12, <2>1, GoesAtOwn DEF Answer, SendProtected, Transmit, Due
  <2>2. CASE SendPacket(n) /\ guarded' = guarded \cup {n}
    BY <1>12, <2>2, GoesOwn DEF Answer, SendPacket, Due
  <2> QED
    BY <1>12, <2>1, <2>2 DEF Answer
<1>13. CASE Ready(n)
  <2>1. CASE Due(n, "first") /\ GoesAt(n, "listen", clock + Systime(Treceive))
    BY <1>13, <2>1, GoesAtOwn DEF Ready, Due, Kept, sending, history
  <2>2. CASE Due(n, "again") /\ GoesAt(n, "listen", clock + Systime(Tfsd))
    BY <1>13, <2>2, GoesAtOwn DEF Ready, Due, Kept, sending, history
  <2> QED
    BY <1>13, <2>1, <2>2 DEF Ready
<1> QED
  BY <1>1, <1>2, <1>3, <1>5, <1>6, <1>7, <1>8, <1>9, <1>10, <1>11, <1>12, <1>13 DEF Link

LEMMA Keeps ==
    ASSUME TypeOK, NEW n \in Nodes, NEW u \in Nodes \ {n}, Link(n) \/ Send(n)
    PROVE  /\ sent'[u] = sent[u] /\ began'[u] = began[u] /\ opened'[u] = opened[u]
           /\ called'[u] = called[u] /\ drawn'[u] = drawn[u]
           /\ (u \in guarded' <=> u \in guarded) /\ (u \in putoff' <=> u \in putoff)
           /\ \/ heard'[u] = heard[u]
              \/ /\ AirStart(n) /\ pc[u] \in Tuned /\ pc'[u] = "hearing"
                 /\ heard'[u] = [from |-> n, at |-> clock + AIR, back |-> BackAt(u)]
<1>1. drawn \in [Nodes -> 0 .. Len(Draws)] /\ called \in [Nodes -> {"late", "punctual"}]
      /\ heard \in [Nodes -> [from : Nodes, at : Nat, back : Nat]]
  BY DEF TypeOK
<1>2. CASE Send(n)
  BY <1>1, <1>2 DEF Send, Sending, SendLoop, TimesOut, NoCsma, Spins, Csma, GuardBreak, Guard, ReceiverOn, Assess, history
<1>3. CASE Link(n) /\ ~AirStart(n) /\ ~Answer(n)
  <2>1. heard' = heard /\ guarded' = guarded /\ (putoff' = putoff \/ SendPacket(n))
    BY <1>3 DEF Link, Start, Request, Ready, AirEnd, Heard, Unheard, Returned, Leave, Reenter, Listen,
       AnswerTime, sending, history
  <2>2. u \in putoff' <=> u \in putoff
    BY <2>1 DEF SendPacket
  <2>3. drawn'[u] = drawn[u]
    BY <1>1, <1>3 DEF Link, Start, Request, Ready, AirEnd, Heard, Unheard, Returned, Leave, Reenter, Listen,
       AnswerTime, Config, SendPacket, sending
  <2>4. called'[u] = called[u]
    BY <1>1, <1>3 DEF Link, Start, Request, Ready, AirEnd, Heard, Unheard, Returned, Leave, Reenter, Listen,
       AnswerTime, history
  <2>5. sent'[u] = sent[u] /\ opened'[u] = opened[u]
    BY VariableTypes, <1>3 DEF Link, Start, Request, Ready, AirEnd, Heard, Unheard, Returned, Leave, Reenter, Listen,
       AnswerTime, history
  <2>6. began' = began
    BY <1>3 DEF Link, Start, Request, Ready, AirEnd, Heard, Unheard, Returned, Leave, Reenter, Listen,
       AnswerTime, history
  <2> QED
    BY <2>1, <2>2, <2>3, <2>4, <2>5, <2>6
<1>4. CASE AirStart(n)
  <2>1. /\ sent'[u] = sent[u] /\ opened'[u] = opened[u] /\ called'[u] = called[u]
        /\ drawn'[u] = drawn[u] /\ guarded' = guarded /\ putoff' = putoff
    BY <1>4 DEF AirStart, sending
  <2>2. began'[u] = began[u]
    BY <1>4, VariableTypes DEF AirStart
  <2>3. /\ heard'[u] = IF pc[u] \in Tuned
                         THEN [from |-> n, at |-> clock + AIR, back |-> BackAt(u)] ELSE heard[u]
        /\ pc[u] \in Tuned => pc'[u] = "hearing"
    BY <1>4 DEF AirStart
  <2> QED
    BY <1>4, <2>1, <2>2, <2>3
<1>5. CASE Answer(n)
  <2>1. /\ sent' = sent /\ began' = began /\ opened' = opened /\ called' = called /\ heard' = heard
        /\ drawn' = drawn
    BY <1>5 DEF Answer, SendProtected, SendPacket, sending
  <2>2. (u \in guarded' <=> u \in guarded) /\ (u \in putoff' <=> u \in putoff)
    BY <1>5 DEF Answer, SendProtected, SendPacket, sending
  <2> QED
    BY <2>1, <2>2
<1> QED
  BY <1>2, <1>3, <1>4, <1>5

\* A moment between two of one turn is in that turn.
LEMMA Between ==
    ASSUME TypeOK, NEW n \in Nodes, NEW x \in Nat, NEW y \in Nat,
           End(n) <= x, x <= y, InTurn(n, y)
    PROVE  InTurn(n, x)
<1> DEFINE e == End(n)
<1>1. e \in Nat /\ conf.base \in Nat
  BY NodeTypes DEF End
<1> HIDE DEF e
<1>2. e + conf.base \in Nat /\ x + conf.base \in Nat /\ y + conf.base \in Nat
      /\ e + conf.base <= x + conf.base /\ x + conf.base <= y + conf.base
  BY <1>1 DEF e
<1>3. (e + conf.base) \div Modulus <= (x + conf.base) \div Modulus
      /\ (x + conf.base) \div Modulus <= (y + conf.base) \div Modulus
  BY <1>2, TurnMonotonic
<1>4. (e + conf.base) \div Modulus \in Int /\ (x + conf.base) \div Modulus \in Int
  BY <1>2, DivMod
<1>5. (e + conf.base) \div Modulus = (y + conf.base) \div Modulus
  BY DEF InTurn, Turn, e
<1>6. (e + conf.base) \div Modulus = (x + conf.base) \div Modulus
  BY <1>3, <1>4, <1>5
<1> QED
  BY <1>6 DEF InTurn, Turn, e

LEMMA HistoryTypes ==
    ASSUME TypeOK, NEW n \in Nodes
    PROVE  /\ clock \in Nat /\ sent[n] \in Nat /\ began[n] \in Nat /\ opened[n] \in Nat
           /\ until[n] \in Nat /\ heard[n].at \in Nat /\ End(n) \in Nat /\ DueAt(n) \in Nat
           /\ AIR \in Nat \ {0} /\ TURN \in Nat \ {0} /\ LAG \in Nat /\ MaxLate \in Nat
           /\ Systime(Tc) \in Nat /\ RX_ON \in Nat
<1>1. /\ clock \in Nat /\ sent[n] \in Nat /\ began[n] \in Nat /\ opened[n] \in Nat
      /\ until[n] \in Nat /\ heard[n].at \in Nat /\ heard[n].back \in Nat
  BY VariableTypes, NodeTypes
<1>2. RX_ON \in Nat /\ LAG \in Nat /\ MaxLate \in Nat /\ Systime(Tc) \in Nat /\ AIR \in Nat \ {0} /\ TURN \in Nat \ {0}
  BY DialogueTypes, ConstantTypes, SendAssumption
<1> QED
  BY <1>1, <1>2 DEF End, DueAt

\* What the node keeps it keeps with the times that follow from it.
LEMMA SameTimes ==
    ASSUME NEW n \in Nodes, heard'[n] = heard[n], conf' = conf
    PROVE  /\ End(n)' = End(n) /\ DueAt(n)' = DueAt(n) /\ (Told(n)' <=> Told(n))
           /\ \A x : InTurn(n, x)' <=> InTurn(n, x)
<1>1. End(n)' = End(n)
  BY DEF End
<1>2. DueAt(n)' = DueAt(n)
  BY <1>1 DEF DueAt
<1>3. \A x : InTurn(n, x)' <=> InTurn(n, x)
  BY <1>1 DEF InTurn, Turn
<1> QED
  BY <1>1, <1>2, <1>3 DEF Told

\* The call of data_answer_time.
LEMMA AnswerReady ==
    ASSUME TypeOK, AnswerInv, NEW n \in Nodes, HeardOf(n), AnswerTime(n), TypeOK', ClockInv',
           pc[n] = "heard", pc'[n] = "ready", heard'[n] = heard[n], conf' = conf, clock' = clock,
           until[n] = clock
    PROVE  /\ DueAt(n) <= until'[n]
           /\ called'[n] = "punctual" /\ InTurn(n, until'[n]) => until'[n] <= DueAt(n) + MaxLate
<1> DEFINE end == End(n)
<1>1. end \in Nat /\ end <= clock /\ time[n] = (end + conf.base) % Modulus
  BY HistoryTypes DEF AnswerInv, End
<1>2. clock <= until'[n] /\ until'[n] \in Nat
  <2>1. clock' <= until'[n]
    BY DEF ClockInv, Resting
  <2>2. until' \in [Nodes -> Nat]
    BY DEF TypeOK
  <2> QED
    BY <2>1, <2>2
<1>3. InTurn(n, until'[n]) => Turn(end) = (until'[n] + conf.base) \div Modulus
  BY DEF InTurn, Turn
<1> HIDE DEF end
<1>4. end + Systime(Tc) <= until'[n]
  BY <1>1, NotBeforeDue
<1>5. ASSUME called'[n] = "punctual", InTurn(n, until'[n])
      PROVE  until'[n] <= end + Systime(Tc) + MaxLate
  BY <1>1, <1>2, <1>3, <1>5, AnswerDue
<1> QED
  BY <1>4, <1>5 DEF end, DueAt

LEMMA HeardOwn ==
    ASSUME TypeOK, ClockInv, AnswerInv, NEW n \in Nodes, HeardOf(n), Link(n) \/ Send(n),
           TypeOK', ClockInv'
    PROVE  HeardOf(n)'
<1>1. /\ clock \in Nat /\ sent[n] \in Nat /\ began[n] \in Nat /\ until[n] \in Nat
      /\ heard[n].at \in Nat /\ End(n) \in Nat /\ DueAt(n) \in Nat
      /\ AIR \in Nat \ {0} /\ TURN \in Nat \ {0} /\ LAG \in Nat
      /\ DueAt(n) = End(n) + Systime(Tc) /\ Systime(Tc) \in Nat
      /\ RX_ON \in Nat /\ MaxLate \in Nat
  BY HistoryTypes DEF DueAt
<1>2. heard'[n] = heard[n] /\ conf' = conf /\ clock' = clock /\ until[n] = clock
  BY SendMoves, LinkMoves DEF Kept
<1>3. /\ End(n)' = End(n) /\ DueAt(n)' = DueAt(n) /\ (Told(n)' <=> Told(n))
      /\ \A x : InTurn(n, x)' <=> InTurn(n, x)
  BY <1>2, SameTimes
<1>4. until'[n] \in Nat /\ (pc'[n] \notin Resting => clock <= until'[n])
  BY <1>2, VariableTypes DEF ClockInv, TypeOK
<1>7. CASE Send(n)
  <2>1. /\ Kept(n) /\ pc[n] \in Contending /\ pc'[n] \in Contending \cup {"turn", "timeout", "busy"}
        /\ pc'[n] = "turn" => until'[n] = clock + TURN
    BY <1>7, SendMoves
  <2>2. pc'[n] \in Contending => clock <= until'[n]
    BY <1>4 DEF Contending, Resting
  <2>3. ASSUME pc'[n] \in {"air"} \cup Answering, Told(n)
        PROVE  DueAt(n) + Past(pc'[n]) <= until'[n]
    <3>1. DueAt(n) + Past(pc[n]) <= until[n] /\ Past(pc[n]) = 0
      BY <2>1, <2>3 DEF HeardOf, Answering, Contending, Past
    <3>2. DueAt(n) <= clock
      BY <1>1, <1>2, <3>1
    <3>3. CASE pc'[n] = "turn"
      BY <1>1, <2>1, <3>2, <3>3 DEF Past
    <3>4. CASE pc'[n] \in Contending
      <4>1. Past(pc'[n]) = 0
        BY <3>4 DEF Past, Contending
      <4> QED
        BY <1>1, <1>4, <2>2, <3>2, <3>4, <4>1
    <3> QED
      BY <2>1, <2>3, <3>3, <3>4 DEF Answering, Contending
  <2> QED
    BY <1>2, <1>3, <2>1, <2>3 DEF HeardOf, Kept, Answering, Contending, Receiving
<1>8. CASE Link(n)
  <2>1. ASSUME pc'[n] \in {"air"} \cup Answering, Told(n)
        PROVE  DueAt(n) + Past(pc'[n]) <= until'[n]
    <3>1. \/ pc[n] = "heard" /\ pc'[n] = "ready" /\ AnswerTime(n)
          \/ pc[n] = "ready" /\ pc'[n] = "turn" /\ until'[n] = clock + TURN
          \/ pc[n] = "ready" /\ pc'[n] = "send" /\ until'[n] = clock
          \/ pc[n] = "turn" /\ pc'[n] = "air" /\ until'[n] = clock + AIR
      BY <1>8, <2>1, LinkMoves DEF Answering, Contending, HeardOf, Told
    <3>2. CASE pc[n] = "heard" /\ pc'[n] = "ready" /\ AnswerTime(n)
      <4>1. DueAt(n) <= until'[n]
        BY <1>2, <3>2, AnswerReady
      <4> QED
        BY <1>1, <1>4, <3>2, <4>1 DEF Past
    <3>3. CASE /\ pc[n] = "ready"
               /\ \/ pc'[n] = "turn" /\ until'[n] = clock + TURN
                  \/ pc'[n] = "send" /\ until'[n] = clock
      <4>1. DueAt(n) + Past(pc[n]) <= clock /\ Past(pc[n]) = 0
        BY <1>2, <2>1, <3>3 DEF HeardOf, Answering, Past
      <4> QED
        BY <1>1, <3>3, <4>1 DEF Past
    <3>4. CASE pc[n] = "turn" /\ pc'[n] = "air" /\ until'[n] = clock + AIR
      <4>1. DueAt(n) + Past(pc[n]) <= clock /\ Past(pc[n]) = TURN
        BY <1>2, <2>1, <3>4 DEF HeardOf, Answering, Past
      <4> QED
        BY <1>1, <3>4, <4>1 DEF Past
    <3> QED
      BY <3>1, <3>2, <3>3, <3>4
  <2>2. pc'[n] \in Receiving => FALSE
    BY <1>8, LinkMoves DEF Receiving
  <2>3. sent'[n] <= clock /\ began'[n] <= clock
    BY <1>1, <1>8, LinkMoves DEF Kept, HeardOf
  <2>4. ~Told(n) => n \notin guarded'
    BY <1>8, LinkMoves DEF Kept, HeardOf
  <2>5. pc'[n] \in Receiving \cup {"heard", "ready"} => Told(n)
    BY <1>8, LinkMoves DEF HeardOf, Receiving
  <2>6. /\ pc'[n] \in {"idle", "configured"} => ~Told(n)
        /\ pc'[n] \in {"idle", "configured", "air"} \cup Answering /\ ~Told(n) => sent'[n] = 0
    BY <1>8, LinkMoves DEF Kept, HeardOf, Answering, Contending
  <2>7. pc'[n] \in Receiving \cup {"heard"} \cup Answering /\ Told(n) =>
          sent'[n] + AIR <= heard[n].at /\ began'[n] < heard[n].at
    BY <1>8, LinkMoves DEF Kept, HeardOf, Receiving, Answering, Contending
  <2>8. pc'[n] \in {"heard", "air"} \cup Answering /\ Told(n) => End(n) <= clock
    <3>1. pc[n] = "hearing" => End(n) <= clock
      BY <1>1, <1>2 DEF HeardOf, Receiving
    <3> QED
      BY <1>8, <3>1, LinkMoves DEF Kept, HeardOf, Receiving, Answering, Contending
  <2>9. pc'[n] \in Contending /\ Told(n) => n \in guarded'
    BY <1>8, LinkMoves DEF Kept, HeardOf, Answering, Contending
  <2>10. pc'[n] \in {"first", "again"} => until'[n] <= clock + RX_ON + MaxLate
    <3>1. pc'[n] \in {"first", "again"} => \E late \in 0 .. MaxLate : until'[n] = clock + RX_ON + late
      BY <1>8, LinkMoves
    <3> QED
      BY <1>1, <3>1
  <2>11. Told(n) => /\ heard[n].at + LAG <= End(n)
                   /\ End(n) <= heard[n].at + LAG + RX_ON + MaxLate
    BY DEF HeardOf
  <2> QED
    BY <1>2, <1>3, <2>1, <2>2, <2>3, <2>4, <2>5, <2>6, <2>7, <2>8, <2>9, <2>10, <2>11 DEF HeardOf
<1> QED
  BY <1>7, <1>8

LEMMA HeardStep ==
    ASSUME TypeOK, ClockInv, AnswerInv, HeardInv, [Next]_vars, TypeOK', ClockInv'
    PROVE  HeardInv'
<1> SUFFICES ASSUME NEW u \in Nodes PROVE HeardOf(u)'
  BY DEF HeardInv
<1>1. HeardOf(u)
  BY DEF HeardInv
<1>2. CASE UNCHANGED vars
  BY <1>1, <1>2 DEF vars, sending, history, HeardOf, Told, End, DueAt, InTurn, Turn
<1>3. CASE Elapse
  <2>1. clock <= clock' /\ clock \in Nat /\ clock' \in Nat /\ sent[u] \in Nat /\ began[u] \in Nat
        /\ End(u) \in Nat /\ until[u] \in Nat /\ RX_ON \in Nat /\ MaxLate \in Nat
    BY <1>3, VariableTypes, HistoryTypes DEF Elapse
  <2>2. UNCHANGED <<conf, pc, until, sending, time, history>>
    BY <1>3 DEF Elapse
  <2>3. /\ End(u)' = End(u) /\ DueAt(u)' = DueAt(u) /\ (Told(u)' <=> Told(u))
        /\ \A x : InTurn(u, x)' <=> InTurn(u, x)
    BY <2>2, SameTimes DEF history
  <2> QED
    BY <1>1, <2>1, <2>2, <2>3 DEF HeardOf, history
<1>4. ASSUME NEW n \in Nodes, Link(n) \/ Send(n), u # n PROVE HeardOf(u)'
  <2>1. clock' = clock /\ conf' = conf
    BY <1>4, Frame
  <2>2. /\ sent'[u] = sent[u] /\ began'[u] = began[u] /\ (u \in guarded' <=> u \in guarded)
        /\ \/ pc'[u] = pc[u] /\ until'[u] = until[u] /\ heard'[u] = heard[u]
           \/ /\ pc[u] \in Tuned /\ pc'[u] = "hearing" /\ until'[u] = BackAt(u)
              /\ heard'[u].at = clock + AIR /\ heard'[u].back = BackAt(u)
           \/ /\ pc[u] = "hearing" /\ pc'[u] = "garbled"
              /\ until'[u] = until[u] /\ heard'[u] = heard[u]
    <3>1. \/ pc'[u] = pc[u] /\ until'[u] = until[u] /\ heard'[u] = heard[u]
          \/ /\ pc[u] \in Tuned /\ pc'[u] = "hearing" /\ until'[u] = BackAt(u)
             /\ heard'[u].at = clock + AIR /\ heard'[u].back = BackAt(u)
          \/ /\ pc[u] = "hearing" /\ pc'[u] = "garbled"
             /\ until'[u] = until[u] /\ heard'[u] = heard[u]
      BY <1>4, Frame
    <3>2. /\ sent'[u] = sent[u] /\ began'[u] = began[u] /\ (u \in guarded' <=> u \in guarded)
      BY <1>4, Keeps
    <3> QED
      BY <3>1, <3>2
  <2>3. CASE heard'[u] = heard[u] /\ until'[u] = until[u] /\
             (pc'[u] = pc[u] \/ (pc[u] = "hearing" /\ pc'[u] = "garbled"))
    <3>1. /\ End(u)' = End(u) /\ DueAt(u)' = DueAt(u) /\ (Told(u)' <=> Told(u))
          /\ \A x : InTurn(u, x)' <=> InTurn(u, x)
      BY <2>1, <2>3, SameTimes
    <3> QED
      BY <1>1, <2>1, <2>2, <2>3, <3>1 DEF HeardOf, Receiving, Answering, Contending
  <2>4. CASE /\ pc[u] \in Tuned /\ pc'[u] = "hearing" /\ until'[u] = BackAt(u)
             /\ heard'[u].at = clock + AIR /\ heard'[u].back = BackAt(u)
    <3>1. /\ clock \in Nat /\ sent[u] \in Nat /\ began[u] \in Nat /\ AIR \in Nat \ {0} /\ LAG \in Nat
          /\ RX_ON \in Nat /\ MaxLate \in Nat /\ until[u] \in Nat
      BY HistoryTypes
    <3>2. Told(u)' /\ End(u)' = BackAt(u)
      BY <2>4, <3>1 DEF Told, End
    <3>3. sent[u] <= clock /\ began[u] <= clock
      BY <1>1 DEF HeardOf
    <3>4. /\ BackAt(u) \in Nat /\ clock + AIR + LAG <= BackAt(u)
          /\ BackAt(u) = clock + AIR + LAG \/ (pc[u] # "listen" /\ BackAt(u) = until[u])
      BY BackAtIs
    <3>5. BackAt(u) <= clock + AIR + LAG + RX_ON + MaxLate
      <4>1. pc[u] # "listen" => until[u] <= clock + RX_ON + MaxLate
        BY <1>1, <2>4 DEF HeardOf, Tuned
      <4> QED
        BY <3>1, <3>4, <4>1
    <3>6. heard'[u].at + LAG <= End(u)' /\ End(u)' <= heard'[u].at + LAG + RX_ON + MaxLate
      BY <2>4, <3>1, <3>2, <3>4, <3>5
    <3> QED
      BY <2>1, <2>2, <2>4, <3>1, <3>2, <3>3, <3>6 DEF HeardOf, Receiving, Answering, Contending
  <2> QED
    BY <2>2, <2>3, <2>4
<1>5. ASSUME NEW n \in Nodes, Link(n) \/ Send(n), u = n PROVE HeardOf(u)'
  BY <1>1, <1>5, HeardOwn
<1> QED
  BY <1>2, <1>3, <1>4, <1>5 DEF Next

LEMMA PunctualOwn ==
    ASSUME TypeOK, ClockInv, AnswerInv, NEW n \in Nodes, HeardOf(n), PunctualOf(n),
           Link(n) \/ Send(n), TypeOK', ClockInv'
    PROVE  PunctualOf(n)'
<1>1. /\ clock \in Nat /\ DueAt(n) \in Nat /\ TURN \in Nat /\ MaxLate \in Nat /\ until[n] \in Nat
  BY HistoryTypes
<1>2. heard'[n] = heard[n] /\ conf' = conf /\ clock' = clock /\ until[n] = clock
  BY SendMoves, LinkMoves DEF Kept
<1>3. /\ DueAt(n)' = DueAt(n) /\ (Told(n)' <=> Told(n))
      /\ \A x : InTurn(n, x)' <=> InTurn(n, x)
  BY <1>2, SameTimes
<1>4. InTurn(n, until[n])' <=> InTurn(n, until'[n])
  BY <1>3
<1> SUFFICES ASSUME called'[n] = "punctual", Told(n), InTurn(n, until'[n]),
                    pc'[n] = "ready" \/ (pc'[n] = "turn" /\ n \notin guarded')
             PROVE  /\ pc'[n] = "ready" => until'[n] <= DueAt(n) + MaxLate
                    /\ pc'[n] = "turn" => until'[n] <= DueAt(n) + MaxLate + TURN
  BY <1>3, <1>4 DEF PunctualOf
<1>5. ~Send(n)
  BY SendMoves DEF Kept, HeardOf, Contending
<1>6. \/ pc[n] = "heard" /\ pc'[n] = "ready" /\ AnswerTime(n)
      \/ /\ pc[n] = "ready" /\ pc'[n] = "turn" /\ until'[n] = clock + TURN /\ called'[n] = called[n]
  BY <1>5, LinkMoves
<1>7. CASE pc[n] = "heard" /\ pc'[n] = "ready" /\ AnswerTime(n)
  BY <1>2, <1>7, AnswerReady
<1>8. CASE pc[n] = "ready" /\ pc'[n] = "turn" /\ until'[n] = clock + TURN /\ called'[n] = called[n]
  <2>1. End(n) <= clock
    BY <1>8 DEF HeardOf, Answering
  <2>2. until'[n] \in Nat /\ clock <= until'[n]
    BY <1>1, <1>8
  <2>3. InTurn(n, until[n])
    BY <1>1, <1>2, <2>1, <2>2, Between
  <2>4. until[n] <= DueAt(n) + MaxLate
    BY <1>8, <2>3 DEF PunctualOf
  <2> QED
    BY <1>1, <1>2, <1>8, <2>4
<1> QED
  BY <1>6, <1>7, <1>8

LEMMA PunctualStep ==
    ASSUME TypeOK, ClockInv, AnswerInv, HeardInv, PunctualInv, [Next]_vars, TypeOK', ClockInv'
    PROVE  PunctualInv'
<1> SUFFICES ASSUME NEW u \in Nodes PROVE PunctualOf(u)'
  BY DEF PunctualInv
<1>1. HeardOf(u) /\ PunctualOf(u)
  BY DEF HeardInv, PunctualInv
<1>2. CASE UNCHANGED vars
  BY <1>1, <1>2 DEF vars, sending, history, PunctualOf, Told, End, DueAt, InTurn, Turn
<1>3. CASE Elapse
  BY <1>1, <1>3 DEF Elapse, sending, history, PunctualOf, Told, End, DueAt, InTurn, Turn
<1>4. ASSUME NEW n \in Nodes, Link(n) \/ Send(n), u # n PROVE PunctualOf(u)'
  <2>1. conf' = conf
    BY <1>4, Frame
  <2>2. /\ called'[u] = called[u] /\ (u \in guarded' <=> u \in guarded)
        /\ \/ pc'[u] = pc[u] /\ until'[u] = until[u] /\ heard'[u] = heard[u]
           \/ pc'[u] \in {"hearing", "garbled"}
    <3>1. \/ pc'[u] = pc[u] /\ until'[u] = until[u] /\ heard'[u] = heard[u]
          \/ pc'[u] \in {"hearing", "garbled"}
      BY <1>4, Frame
    <3>2. /\ called'[u] = called[u] /\ (u \in guarded' <=> u \in guarded)
      BY <1>4, Keeps
    <3> QED
      BY <3>1, <3>2
  <2>3. CASE pc'[u] = pc[u] /\ until'[u] = until[u] /\ heard'[u] = heard[u]
    <3>1. /\ DueAt(u)' = DueAt(u) /\ (Told(u)' <=> Told(u))
          /\ \A x : InTurn(u, x)' <=> InTurn(u, x)
      BY <2>1, <2>3, SameTimes
    <3> QED
      BY <1>1, <2>2, <2>3, <3>1 DEF PunctualOf
  <2>4. CASE pc'[u] \in {"hearing", "garbled"}
    BY <2>4 DEF PunctualOf
  <2> QED
    BY <2>2, <2>3, <2>4
<1>5. ASSUME NEW n \in Nodes, Link(n) \/ Send(n), u = n PROVE PunctualOf(u)'
  BY <1>1, <1>5, PunctualOwn
<1> QED
  BY <1>2, <1>3, <1>4, <1>5 DEF Next

----------------------------------------------------------------------------
(* Listening for the answer *)

\* data_dialogue does not come back before the window of the answer.
LEMMA LeavesLongEnough ==
    ASSUME TypeOK, ClockInv', NEW n \in Nodes, Leave(n), pc'[n] = "away", sent[n] <= clock,
           time[n] = (sent[n] + conf.base) % Modulus, clock' = clock
    PROVE  sent[n] + Systime(Tc) <= until'[n] + SAFE_SLEEP_WINDOW
<1> DEFINE k == Systime(Tc) - SAFE_SLEEP_WINDOW
           w == clock - sent[n]
<1>1. clock \in Nat /\ sent[n] \in Nat /\ conf.base \in Nat /\ MaxLate \in Nat /\ w \in Nat
  BY HistoryTypes, NodeTypes
<1>2. k \in Nat /\ k \in 0 .. Modulus - 1 /\ 1000 * k < Modulus
      /\ Systime(Tc) \in Nat /\ SAFE_SLEEP_WINDOW \in Nat
  <2>1. Tc \in Nat /\ Tc + Tl \in Nat /\ Tc <= Tc + Tl
    BY DialogueAssumption
  <2>2. Systime(Tc) <= Systime(Tc + Tl) /\ Systime(Tc) \in Nat /\ Systime(Tc + Tl) \in Nat
    BY <2>1, SystimeMonotonic, SystimeLess
  <2>3. SAFE_SLEEP_WINDOW \in Nat /\ SAFE_SLEEP_WINDOW <= Systime(Tc)
        /\ 1000 * Systime(Tc + Tl) < Modulus
    BY DialogueAssumption
  <2> QED
    BY <2>2, <2>3, ModulusType
<1>3. Sleeps(n, "away", Away(n))
  BY GoesOwn DEF Leave
<1>4. PICK late \in 0 .. MaxLate : until'[n] = clock + Ticks(Away(n)) + late
  BY <1>3, SleepsOwn
<1>5. late \in Nat /\ Ticks(Away(n)) \in Nat
  BY <1>1, <1>4, WaitTypes, TicksOf
<1>6. CASE k <= w
  <2>1. clock <= until'[n]
    BY <1>1, <1>4, <1>5
  <2> QED
    BY <1>1, <1>2, <1>4, <1>5, <1>6, <2>1
<1>7. CASE w < k
  <2>1. Away(n) = k - w
    <3> DEFINE a == sent[n] + conf.base
               b == clock + conf.base
    <3>1. a \in Nat /\ b \in Nat /\ a <= b /\ b - a = w /\ b - a <= k
      BY <1>1, <1>2, <1>7
    <3> HIDE DEF a, b, k, w
    <3>2. (((a % Modulus) + k) - (b % Modulus)) % Modulus = k - (b - a)
      BY <1>2, <3>1, Remaining
    <3>3. time[n] = a % Modulus /\ Now(n) = b % Modulus
      BY DEF a, b, Now
    <3>4. Away(n) = ((time[n] + k) - Now(n)) % Modulus
      <4>1. time[n] \in Int /\ Now(n) \in Int
        BY NodeTypes, NowType
      <4>2. time[n] + Systime(Tc) - Now(n) - SAFE_SLEEP_WINDOW = (time[n] + k) - Now(n)
        BY <1>2, <4>1 DEF k
      <4> QED
        BY <4>2 DEF Away
    <3> QED
      BY <3>1, <3>2, <3>3, <3>4
  <2> HIDE DEF k, w
  <2>2. Ticks(k - w) = k - w
    <3>1. k - w \in Int /\ 0 < k - w /\ 1000 * (k - w) < Modulus
      BY <1>1, <1>2, <1>7, ModulusType
    <3> QED
      BY <3>1, TicksOf
  <2>3. until'[n] = clock + (k - w) + late
    BY <1>4, <2>1, <2>2
  <2>4. sent[n] + k <= until'[n]
    BY <1>1, <1>2, <1>5, <2>3 DEF w
  <2> QED
    BY <1>1, <1>2, <1>4, <1>5, <2>3, <2>4 DEF k
<1> QED
  BY <1>1, <1>2, <1>6, <1>7

LEMMA OpenedOwn ==
    ASSUME TypeOK, ClockInv', NEW n \in Nodes, HeardOf(n), OpenedOf(n), Link(n) \/ Send(n), TypeOK'
    PROVE  OpenedOf(n)'
<1>1. /\ clock \in Nat /\ sent[n] \in Nat /\ opened[n] \in Nat /\ until[n] \in Nat
      /\ heard[n].at \in Nat /\ End(n) \in Nat /\ Systime(Tc) \in Nat /\ Systime(Tfsd) \in Nat
      /\ SAFE_SLEEP_WINDOW \in Nat /\ until'[n] \in Nat /\ RX_ON \in Nat
  BY HistoryTypes, DialogueTypes, VariableTypes DEF TypeOK
<1>2. heard'[n] = heard[n] /\ conf' = conf /\ clock' = clock /\ until[n] = clock
  BY SendMoves, LinkMoves DEF Kept
<1>3. End(n)' = End(n)
  BY <1>2, SameTimes
<1> DEFINE Over == \/ opened[n] + RX_ON + Systime(Tfsd) <= clock
                   \/ opened[n] < heard[n].at /\ End(n) <= clock
<1>4. opened[n] > 0 /\ opened'[n] = opened[n] /\ Over =>
        opened'[n] + RX_ON + Systime(Tfsd) <= clock' \/ Taken(n)'
  BY <1>2 DEF Taken, End
<1>5. opened[n] > 0 /\ pc[n] \notin {"again", "listen", "hearing", "garbled"} => Over
  BY DEF OpenedOf, Receiving, Taken, End
<1>6. opened[n] > 0 /\ pc[n] \in {"listen", "hearing", "garbled"} => Over
  BY <1>1, <1>2 DEF OpenedOf, HeardOf, Receiving, Told
<1>11. opened[n] > 0 /\ pc[n] \in {"hearing", "heard", "ready"} \cup {"turn", "air"} \cup Contending =>
         opened[n] < heard[n].at
  BY DEF OpenedOf, Receiving, Answering
<1>12. opened[n] > 0 => pc[n] # "configured"
  BY DEF OpenedOf
<1>7. opened[n] > 0 => opened[n] <= clock /\ sent[n] + Systime(Tc) <= opened[n] + SAFE_SLEEP_WINDOW
  BY DEF OpenedOf
<1> HIDE DEF Over
<1>8. CASE Send(n)
  <2>1. Kept(n) /\ pc'[n] \in Contending \cup {"turn", "timeout", "busy"}
    BY <1>8, SendMoves
  <2>2. opened'[n] = opened[n] /\ sent'[n] = sent[n] /\ pc[n] \in Contending
    BY <1>8, <2>1, SendMoves DEF Kept
  <2>3. opened[n] > 0 => Over /\ opened[n] < heard[n].at
    BY <1>5, <1>11, <2>2 DEF Contending
  <2> QED
    BY <1>2, <1>4, <1>7, <2>1, <2>2, <2>3 DEF OpenedOf, Contending, Receiving, Answering
<1>9. CASE Link(n)
  <2>1. CASE pc[n] = "air" /\ pc'[n] \in {"sent", "done"} /\ sent'[n] = clock /\ opened'[n] = 0
             /\ time'[n] = Now(n)
    BY <1>2, <2>1 DEF OpenedOf, Now
  <2>2. CASE pc[n] = "sent" /\ pc'[n] \in {"away", "done"} /\ Leave(n) /\ Kept(n)
    <3>1. opened'[n] = 0
      BY <2>2 DEF OpenedOf, Kept
    <3>2. pc'[n] = "away" => sent[n] + Systime(Tc) <= until'[n] + SAFE_SLEEP_WINDOW
      BY <1>2, <2>2, LeavesLongEnough DEF OpenedOf, HeardOf
    <3> QED
      BY <2>2, <3>1, <3>2 DEF OpenedOf, Kept
  <2>3. CASE pc[n] = "away" /\ pc'[n] = "back" /\ Kept(n)
    <3>1. clock <= until'[n]
      BY <1>2, <2>3 DEF ClockInv, Resting
    <3>2. sent[n] + Systime(Tc) <= until[n] + SAFE_SLEEP_WINDOW /\ opened[n] = 0
      BY <2>3 DEF OpenedOf
    <3>3. sent[n] + Systime(Tc) <= until'[n] + SAFE_SLEEP_WINDOW
      BY <1>1, <1>2, <3>1, <3>2
    <3> QED
      BY <2>3, <3>2, <3>3 DEF OpenedOf, Kept
  <2>4. CASE /\ pc[n] = "back" /\ pc'[n] = "again"
             /\ \E late \in 0 .. MaxLate : until'[n] = clock + RX_ON + late
             /\ sent'[n] = sent[n] /\ opened'[n] = clock
    <3>1. sent[n] + Systime(Tc) <= clock + SAFE_SLEEP_WINDOW
      BY <1>2, <2>4 DEF OpenedOf
    <3>2. clock + RX_ON <= until'[n]
      BY <1>1, <2>4, ConstantTypes
    <3> QED
      BY <1>1, <1>2, <2>4, <3>1, <3>2 DEF OpenedOf, Receiving, Answering, Contending
  <2>5. CASE /\ pc[n] \in {"idle", "configured", "first", "back"} /\ pc'[n] \notin {"sent", "away", "back"}
             /\ Kept(n)
    BY <2>5 DEF OpenedOf, Kept
  <2>6. CASE /\ sent'[n] = sent[n] /\ opened'[n] = opened[n]
             /\ pc[n] \in {"hearing", "heard", "ready", "turn"}
             /\ pc'[n] \in {"send", "air", "heard", "done", "ready", "turn"}
    BY <1>2, <1>4, <1>5, <1>6, <1>7, <1>11, <2>6 DEF OpenedOf, Receiving
  <2>7. CASE pc[n] \in {"listen", "garbled"} /\ pc'[n] = "done" /\ Kept(n)
    BY <1>2, <1>4, <1>6, <1>7, <2>7 DEF OpenedOf, Receiving, Answering, Contending, Kept
  <2>8. CASE pc[n] = "again" /\ pc'[n] = "listen" /\ until'[n] = clock + Systime(Tfsd) /\ Kept(n)
    <3>1. opened[n] > 0 => opened[n] + RX_ON + Systime(Tfsd) <= until'[n]
      BY <1>1, <1>2, <2>8 DEF OpenedOf
    <3> QED
      BY <1>2, <1>7, <2>8, <3>1 DEF OpenedOf, Receiving, Answering, Contending, Kept
  <2> QED
    BY <1>9, <2>1, <2>2, <2>3, <2>4, <2>5, <2>6, <2>7, <2>8, LinkMoves DEF Kept
<1> QED
  BY <1>8, <1>9

LEMMA OpenedStep ==
    ASSUME TypeOK, HeardInv, OpenedInv, [Next]_vars, TypeOK', ClockInv'
    PROVE  OpenedInv'
<1> SUFFICES ASSUME NEW u \in Nodes PROVE OpenedOf(u)'
  BY DEF OpenedInv
<1>1. HeardOf(u) /\ OpenedOf(u)
  BY DEF HeardInv, OpenedInv
<1>2. CASE UNCHANGED vars
  BY <1>1, <1>2 DEF vars, sending, history, OpenedOf, Taken
<1>3. CASE Elapse
  <2>1. clock <= clock' /\ clock \in Nat /\ clock' \in Nat /\ opened[u] \in Nat /\ heard[u].back \in Nat
        /\ Systime(Tfsd) \in Nat /\ RX_ON \in Nat
    BY <1>3, VariableTypes, HistoryTypes, DialogueTypes DEF Elapse, End
  <2>2. UNCHANGED <<conf, pc, until, sending, time, history>>
    BY <1>3 DEF Elapse
  <2> QED
    BY <1>1, <2>1, <2>2 DEF OpenedOf, Taken, history
<1>4. ASSUME NEW n \in Nodes, Link(n) \/ Send(n), u # n PROVE OpenedOf(u)'
  <2>1. clock' = clock /\ conf' = conf /\ time'[u] = time[u]
    BY <1>4, Frame
  <2>2. /\ sent'[u] = sent[u] /\ opened'[u] = opened[u]
        /\ \/ pc'[u] = pc[u] /\ until'[u] = until[u] /\ heard'[u] = heard[u]
           \/ pc[u] \in Tuned /\ pc'[u] = "hearing" /\ heard'[u].at = clock + AIR
           \/ pc[u] = "hearing" /\ pc'[u] = "garbled" /\ heard'[u] = heard[u]
    <3>1. \/ pc'[u] = pc[u] /\ until'[u] = until[u] /\ heard'[u] = heard[u]
          \/ pc[u] \in Tuned /\ pc'[u] = "hearing" /\ heard'[u].at = clock + AIR
          \/ pc[u] = "hearing" /\ pc'[u] = "garbled" /\ heard'[u] = heard[u]
      BY <1>4, Frame
    <3>2. /\ sent'[u] = sent[u] /\ opened'[u] = opened[u]
      BY <1>4, Keeps
    <3> QED
      BY <3>1, <3>2
  <2>3. CASE pc'[u] = pc[u] /\ until'[u] = until[u] /\ heard'[u] = heard[u]
    BY <1>1, <2>1, <2>2, <2>3 DEF OpenedOf, Taken
  <2>4. CASE pc[u] \in Tuned /\ pc'[u] = "hearing" /\ heard'[u].at = clock + AIR
    <3>1. clock \in Nat /\ AIR \in Nat \ {0} /\ opened[u] \in Nat
      BY HistoryTypes
    <3> QED
      BY <1>1, <2>1, <2>2, <2>4, <3>1 DEF OpenedOf, Receiving, Tuned
  <2>5. CASE pc[u] = "hearing" /\ pc'[u] = "garbled" /\ heard'[u] = heard[u]
    BY <1>1, <2>1, <2>2, <2>5 DEF OpenedOf, Receiving
  <2> QED
    BY <2>2, <2>3, <2>4, <2>5
<1>5. ASSUME NEW n \in Nodes, Link(n) \/ Send(n), u = n PROVE OpenedOf(u)'
  BY <1>1, <1>5, OpenedOwn
<1> QED
  BY <1>2, <1>3, <1>4, <1>5 DEF Next

\* How far the sender of a packet has come since.
Over(a, moment) == moment + AIR + LAG + Systime(Tc) + TURN + AIR <= sent[a]
Stage(a, moment) ==
    \/ pc[a] = "air" /\ until[a] = moment
    \/ pc[a] # "air" /\ sent[a] = moment
    \/ pc[a] = "air" /\ Told(a) /\ moment + AIR <= heard[a].at
    \/ Over(a, moment)

\* Who has sent what is answered sends again only after the time of the answer.
LEMMA AskerAgain ==
    ASSUME TypeOK, NEW a \in Nodes, HeardOf(a), NEW moment \in Nat, 0 < moment,
           Stage(a, moment), Link(a) \/ Send(a)
    PROVE  Stage(a, moment)'
<1>1. /\ clock \in Nat /\ sent[a] \in Nat /\ heard[a].at \in Nat /\ until[a] \in Nat
      /\ AIR \in Nat \ {0} /\ TURN \in Nat /\ LAG \in Nat /\ Systime(Tc) \in Nat /\ End(a) \in Nat
  BY HistoryTypes
<1>2. heard'[a] = heard[a] /\ conf' = conf /\ clock' = clock /\ until[a] = clock
  BY SendMoves, LinkMoves DEF Kept
<1>3. Told(a)' <=> Told(a)
  BY <1>2, SameTimes
<1>4. \/ pc[a] = "turn" /\ pc'[a] = "air" /\ sent'[a] = sent[a]
      \/ pc[a] = "air" /\ pc'[a] # "air" /\ sent'[a] = clock
      \/ pc[a] # "air" /\ pc'[a] # "air" /\ sent'[a] = sent[a]
  <2>1. CASE Send(a)
    BY <2>1, SendMoves DEF Kept, Contending
  <2>2. CASE Link(a)
    BY <2>2, LinkMoves DEF Kept
  <2> QED
    BY <2>1, <2>2
<1>5. CASE pc[a] = "turn" /\ pc'[a] = "air" /\ sent'[a] = sent[a]
  <2>1. CASE sent[a] = moment
    <3>1. Told(a)
      BY <1>1, <1>5, <2>1 DEF HeardOf, Answering
    <3>2. sent[a] + AIR <= heard[a].at
      BY <1>5, <3>1 DEF HeardOf, Answering
    <3> QED
      BY <1>2, <1>3, <1>5, <2>1, <3>1, <3>2 DEF Stage
  <2>2. CASE Over(a, moment)
    BY <1>5, <2>2 DEF Stage, Over
  <2> QED
    BY <1>5, <2>1, <2>2 DEF Stage
<1>6. CASE pc[a] = "air" /\ pc'[a] # "air" /\ sent'[a] = clock
  <2>1. CASE until[a] = moment
    BY <1>2, <1>6, <2>1 DEF Stage
  <2>2. CASE Told(a) /\ moment + AIR <= heard[a].at
    <3>1. DueAt(a) + Past("air") <= until[a]
      BY <1>6, <2>2 DEF HeardOf
    <3>2. heard[a].at + LAG <= End(a)
      BY <2>2 DEF HeardOf
    <3>3. Over(a, moment)'
      BY <1>1, <1>2, <1>6, <2>2, <3>1, <3>2 DEF Over, DueAt, Past
    <3> QED
      BY <3>3 DEF Stage
  <2>3. CASE Over(a, moment)
    <3>1. sent[a] <= clock
      BY DEF HeardOf
    <3>2. Over(a, moment)'
      BY <1>1, <1>6, <2>3, <3>1 DEF Over
    <3> QED
      BY <3>2 DEF Stage
  <2> QED
    BY <1>6, <2>1, <2>2, <2>3 DEF Stage
<1>7. CASE pc[a] # "air" /\ pc'[a] # "air" /\ sent'[a] = sent[a]
  BY <1>7 DEF Stage, Over
<1> QED
  BY <1>4, <1>5, <1>6, <1>7

LEMMA AskerStep ==
    ASSUME TypeOK, HeardInv, AskerInv, [Next]_vars, TypeOK'
    PROVE  AskerInv'
<1> SUFFICES ASSUME NEW u \in Nodes PROVE AskerOf(u)'
  BY DEF AskerInv
<1>1. AskerOf(u) /\ heard[u].from \in Nodes /\ heard'[u].from \in Nodes
  BY DEF AskerInv, TypeOK
<1>2. CASE UNCHANGED vars
  BY <1>1, <1>2 DEF vars, sending, history, AskerOf, Told
<1>3. CASE Elapse
  BY <1>1, <1>3 DEF Elapse, sending, history, AskerOf, Told
<1>4. ASSUME NEW n \in Nodes, Link(n) \/ Send(n) PROVE AskerOf(u)'
  <2>1. clock' = clock /\ conf' = conf
    BY <1>4, SendMoves, LinkMoves
  <2>2. CASE heard'[u] = heard[u] /\ Told(u)
    <3> DEFINE a == heard[u].from
               m == heard[u].at
    <3>1. Stage(a, m) /\ m \in Nat /\ 0 < m /\ a \in Nodes
      BY <1>1, <2>2, HistoryTypes DEF AskerOf, Stage, Over, Told
    <3>2. SUFFICES Stage(a, m)'
      BY <2>2 DEF AskerOf, Stage, Over
    <3>3. a' = a /\ m' = m
      BY <2>2
    <3> HIDE DEF a, m
    <3>4. CASE a # n
      <4>1. sent'[a] = sent[a]
        BY <1>4, <3>1, <3>4, Keeps
      <4>2. \/ pc'[a] = pc[a] /\ until'[a] = until[a]
            \/ pc[a] # "air" /\ pc'[a] # "air"
        BY <1>4, <3>1, <3>4, Frame DEF Tuned
      <4>3. pc[a] = "air" => heard'[a] = heard[a]
        BY <1>4, <3>1, <3>4, Keeps DEF Tuned
      <4> QED
        BY <3>1, <3>3, <4>1, <4>2, <4>3 DEF Stage, Over, Told
    <3>5. CASE a = n
      <4>1. HeardOf(n)
        BY <1>4 DEF HeardInv
      <4>2. PICK moment \in Nat : moment = m
        BY <3>1
      <4>3. Stage(n, moment) /\ 0 < moment
        BY <3>1, <3>5, <4>2
      <4>4. Stage(n, moment)'
        BY <1>4, <4>1, <4>2, <4>3, AskerAgain
      <4> QED
        BY <3>3, <3>5, <4>2, <4>4 DEF Stage, Over, Told
    <3> QED
      BY <3>4, <3>5
  <2>3. CASE heard'[u] = heard[u] /\ ~Told(u)
    BY <2>3 DEF AskerOf, Told
  <2>4. CASE heard'[u] # heard[u]
    <3>1. u # n
      BY <1>4, <2>4, SendMoves, LinkMoves DEF Kept
    <3>2. AirStart(n) /\ heard'[u] = [from |-> n, at |-> clock + AIR, back |-> BackAt(u)]
      BY <1>4, <2>4, <3>1, Keeps
    <3>3. pc'[n] = "air" /\ until'[n] = clock + AIR
      BY <3>2, VariableTypes DEF AirStart
    <3>4. heard'[u].from = n /\ heard'[u].at = clock + AIR
      BY <3>2
    <3> QED
      BY <3>3, <3>4 DEF AskerOf
  <2> QED
    BY <2>2, <2>3, <2>4
<1> QED
  BY <1>2, <1>3, <1>4 DEF Next

LEMMA InitTold == Init => HeardInv /\ PunctualInv /\ OpenedInv /\ AskerInv
<1> SUFFICES ASSUME Init, NEW n \in Nodes
             PROVE  HeardOf(n) /\ PunctualOf(n) /\ OpenedOf(n) /\ AskerOf(n)
  BY DEF HeardInv, PunctualInv, OpenedInv, AskerInv
<1>1. /\ clock = 0 /\ pc[n] = "idle" /\ sent[n] = 0 /\ began[n] = 0 /\ opened[n] = 0
      /\ heard[n] = NoPacket /\ heard[n].at = 0 /\ n \notin guarded
  BY DEF Init, NoPacket
<1> QED
  BY <1>1 DEF HeardOf, PunctualOf, OpenedOf, AskerOf, Told, Receiving, Answering, Contending

----------------------------------------------------------------------------
(* Answers with data_send_packet *)

\* What the first value of the generator makes of the time for the delay, and
\* how long the packet waits when the channel is clear.
Delay == Draws[1] % Systime(Ti(Systime(conf.tca - Tg)))
Wait == IF conf.csma = 0 THEN 0 ELSE Delay + Systime(Tg) + RX_ON

\* How far a node that nothing puts off has come with the packet it began at s.
Phase(n, s) ==
    /\ s - DueAt(n) \in 0 .. MaxLate
    /\ pc[n] = "send" => \/ until[n] = s /\ drawn[n] = 0
                         \/ s + Systime(conf.tca) <= until[n]
    /\ pc[n] \in {"csma", "guard", "clear", "sense"} => conf.csma = 1 /\ Delay \in Nat
    /\ pc[n] \in {"csma", "guard"} => until[n] - (s + Delay) \in 0 .. MaxLate
    /\ pc[n] = "clear" => until[n] - (s + Delay + Systime(Tg)) \in 0 .. 2 * MaxLate
    /\ pc[n] = "sense" => until[n] - (s + Wait) \in 0 .. 3 * MaxLate

Fresh == {"back", "first", "again", "listen", "hearing", "heard", "ready"}

\* The packet begins when the wait is over, not later than four wakings late.
WaitOver(n, moment) == Wait \in Nat /\ moment - (DueAt(n) + Wait + TURN) \in 0 .. 4 * MaxLate

AnswersAlike(n) ==
    n \in guarded /\ n \notin hung /\ n \notin putoff /\ called[n] = "punctual"

AloneOf(n) ==
    /\ pc[n] \in Fresh \/ (pc[n] = "idle" /\ n # Starter) => drawn[n] = 0
    /\ AnswersAlike(n) =>
         /\ pc[n] \in Contending /\ InTurn(n, until[n]) =>
              \E s \in Nat : SendsInTime(n, s) /\ Phase(n, s)
         /\ pc[n] = "turn" /\ InTurn(n, until[n]) => WaitOver(n, until[n])
         /\ heard[n].at < began[n] => End(n) <= began[n]
         /\ heard[n].at < began[n] /\ InTurn(n, began[n]) => WaitOver(n, began[n])

AloneInv == \A n \in Nodes : AloneOf(n)

\* The delay of a node whose generator was restarted.
LEMMA DelayIs ==
    ASSUME TypeOK, NEW n \in Nodes, Csma(n), n \notin hung', drawn[n] = 0, Elapsed(n) = 0
    PROVE  /\ Delay \in Nat /\ pc'[n] = "csma"
           /\ \E late \in 0 .. MaxLate : until'[n] = clock + Delay + late
<1> DEFINE left == Systime(conf.tca - Tg)
           span == Systime(Ti(left))
<1>1. left \in Nat /\ left <= conf.tca - Tg /\ left <= conf.tca
  <2>1. conf.tca - Tg \in Nat /\ conf.tca \in Nat /\ Tg \in Nat
    BY Times
  <2>2. left \in Nat /\ left <= conf.tca - Tg
    BY <2>1, SystimeLess
  <2> HIDE DEF left
  <2> QED
    BY <2>1, <2>2
<1>2. TimeDiff(n) = left
  <2>1. TimeDiff(n) = IF (left - 0) % Modulus > CLAMP THEN 0 ELSE (left - 0) % Modulus
    BY DEF TimeDiff
  <2> HIDE DEF left
  <2>2. left - 0 = left /\ left \in 0 .. Modulus - 1 /\ left <= CLAMP
    BY <1>1, Times, ModulusType
  <2>3. (left - 0) % Modulus = left
    BY <2>2, Wrapped
  <2> QED
    BY <1>1, <2>1, <2>2, <2>3, Times
<1>3. PICK delay \in Remainders(Draws[drawn[n] + 1], span) :
        /\ \E late \in 0 .. MaxLate : GoesAt(n, "csma", clock + Ticks(delay) + late)
        /\ hung' = IF span = 0 \/ delay = 0 THEN hung \cup {n} ELSE hung
  BY <1>2 DEF Csma
<1>4. PICK late \in 0 .. MaxLate : GoesAt(n, "csma", clock + Ticks(delay) + late)
  BY <1>3
<1>5. span # 0 /\ delay # 0
  BY <1>3
<1>6. delay = Draws[1] % span
  <2>1. drawn[n] + 1 = 1
    OBVIOUS
  <2> QED
    BY <1>3, <1>5, <2>1 DEF Remainders
<1>7. delay = Delay
  BY <1>6 DEF Delay
<1> HIDE DEF left
<1>8. span \in Nat /\ span <= left
  <2>1. 1000 * left < Modulus
    BY <1>1, Times, ModulusType
  <2> QED
    BY <1>1, <2>1, ThereAndBack, SystimeLess
<1> HIDE DEF span
<1>9. delay \in Nat /\ delay < span
  <2>1. Draws[1] \in Nat
    BY SendAssumption
  <2> QED
    BY <1>5, <1>6, <1>8, <2>1, Remainder
<1>10. Ticks(delay) = delay
  <2>1. 0 < delay /\ 1000 * delay < Modulus
    BY <1>1, <1>5, <1>8, <1>9, Times, ModulusType
  <2> QED
    BY <1>9, <2>1, TicksOf
<1>11. pc'[n] = "csma" /\ until'[n] = clock + Delay + late
  BY <1>4, <1>7, <1>10, GoesAtOwn
<1> QED
  BY <1>4, <1>7, <1>9, <1>11

\* When nothing is left for the guard break, nothing is left of Tca.
LEMMA NothingLeft ==
    ASSUME TypeOK, ClockInv, NEW n \in Nodes, pc[n] = "csma", until[n] = clock,
           NEW s \in Nat, InTime(n, s), GuardTime(n) = 0
    PROVE  s + Systime(conf.tca) <= clock
<1> DEFINE rest == conf.tca - (clock - s)
<1>1. Elapsed(n) = clock - s
  BY ElapsedIs DEF Contending
<1>2. clock \in Nat /\ s <= clock /\ clock - s < conf.tca /\ conf.tca \in Nat
  BY VariableTypes, Times DEF InTime
<1>3. rest \in Nat /\ rest <= conf.tca /\ 0 < rest /\ rest < TiModulus /\ 1000 * rest < Modulus
  BY <1>2, Times, ModulusType, TiModulusType
<1>4. (rest % Modulus) % TiModulus = rest
  <2>1. rest \in Int /\ rest \in 0 .. Modulus - 1
    BY <1>3, ModulusType
  <2>2. rest % Modulus = rest
    BY <2>1, Wrapped
  <2>3. rest % TiModulus = rest
    BY <1>3, Remainder, TiModulusType
  <2> QED
    BY <2>2, <2>3
<1>5. Ti(Systime(rest)) = 0
  BY <1>1, <1>4 DEF GuardTime
<1> HIDE DEF rest
<1>6. rest <= 1
  <2> SUFFICES ASSUME 2 <= rest PROVE FALSE
    BY <1>3
  <2> DEFINE y == Systime(rest)
             z == (y * 1000) \div 977
  <2>1. y \in Nat /\ 1 <= y /\ y <= rest /\ 1000 * y <= 977 * rest
    BY <1>3 DEF Systime
  <2> HIDE DEF y
  <2>2. z \in Nat /\ 1 <= z /\ z <= rest
    BY <1>3, <2>1
  <2>3. (y * 1000) % Modulus = y * 1000
    <3>1. y * 1000 \in Int /\ y * 1000 \in 0 .. Modulus - 1
      BY <1>3, <2>1, ModulusType
    <3> QED
      BY <3>1, Wrapped
  <2>4. Ti(y) = z % TiModulus
    BY <2>3 DEF Ti
  <2> HIDE DEF z
  <2>5. z % TiModulus = z
    <3>1. z < TiModulus
      BY <1>3, <2>2, TiModulusType
    <3> QED
      BY <2>2, <3>1, Remainder, TiModulusType
  <2> QED
    BY <1>5, <2>2, <2>4, <2>5 DEF y
<1>7. clock - s = conf.tca - 1
  BY <1>2, <1>3, <1>6 DEF rest
<1>8. Systime(conf.tca) \in Nat /\ Systime(conf.tca) <= conf.tca - 1
  BY <1>2, <1>7 DEF Systime
<1> QED
  BY <1>2, <1>7, <1>8

\* Each step of data_send_packet takes a node that nothing puts off on.
LEMMA PhaseStep ==
    ASSUME TypeOK, ClockInv, NEW n \in Nodes, NEW s \in Nat, SendsInTime(n, s), Phase(n, s),
           Send(n), n \notin hung', n \notin putoff'
    PROVE  /\ pc'[n] \in Contending => Phase(n, s)'
           /\ pc'[n] = "turn" => WaitOver(n, until'[n])
<1>1. /\ clock' = clock /\ conf' = conf /\ heard'[n] = heard[n] /\ until[n] = clock
      /\ pc[n] \in Contending
  BY SendMoves DEF Kept
<1>2. DueAt(n)' = DueAt(n) /\ Delay' = Delay /\ Wait' = Wait
  BY <1>1, SameTimes DEF Delay, Wait
<1>3. /\ clock \in Nat /\ until[n] \in Nat /\ DueAt(n) \in Nat /\ MaxLate \in Nat /\ TURN \in Nat
  BY HistoryTypes
<1>4. Systime(conf.tca) \in Nat /\ Systime(Tg) \in Nat /\ 0 < Systime(Tg) /\ 1000 * Systime(Tg) < Modulus
  BY Times, SystimeLess, ModulusType
<1>11. RX_ON \in Nat /\ Ticks(RX_ON) = RX_ON
  BY RxTicks
<1>5. Elapsed(n) = clock - s /\ s <= clock
  BY <1>1, ElapsedIs DEF SendsInTime, InTime
<1>6. s - DueAt(n) \in 0 .. MaxLate
  BY DEF Phase
<1>7. CASE SendLoop(n)
  <2>1. pc[n] = "send"
    BY <1>7 DEF SendLoop, Due
  <2>2. Systime(conf.tca) > Elapsed(n) => clock = s /\ drawn[n] = 0 /\ Elapsed(n) = 0
    BY <1>1, <1>3, <1>4, <1>5, <2>1 DEF Phase
  <2>3. CASE TimesOut(n)
    <3>1. pc'[n] = "timeout"
      BY <2>3, GoesOwn DEF TimesOut
    <3> QED
      BY <3>1 DEF Contending
  <2>4. CASE NoCsma(n)
    <3>1. pc'[n] = "turn" /\ until'[n] = clock + TURN /\ clock = s /\ Wait = 0
      BY <2>2, <2>4, GoesAtOwn DEF NoCsma, Transmit, Wait
    <3>2. until'[n] - (DueAt(n) + Wait + TURN) = s - DueAt(n)
      BY <1>3, <3>1
    <3> QED
      BY <1>3, <1>6, <3>1, <3>2 DEF Contending, WaitOver
  <2>5. CASE Spins(n)
    <3>1. pc'[n] = "send" /\ until'[n] = clock + Systime(conf.tca) - Elapsed(n)
      BY <2>5, GoesAtOwn DEF Spins
    <3>2. s + Systime(conf.tca) <= until'[n]
      BY <1>3, <1>4, <1>5, <3>1
    <3> QED
      BY <1>1, <1>2, <1>6, <3>1, <3>2 DEF Phase
  <2>6. CASE Csma(n)
    <3>1. Systime(conf.tca) > Elapsed(n) /\ conf.csma = 1
      BY <2>6 DEF Csma
    <3>2. PICK late \in 0 .. MaxLate : until'[n] = clock + Delay + late
      BY <2>2, <2>6, <3>1, DelayIs
    <3>3. Delay \in Nat /\ pc'[n] = "csma"
      BY <2>2, <2>6, <3>1, DelayIs
    <3>4. until'[n] - (s + Delay) \in 0 .. MaxLate
      BY <1>3, <2>2, <3>1, <3>2, <3>3
    <3> QED
      BY <1>1, <1>2, <1>6, <3>1, <3>3, <3>4 DEF Phase
  <2> QED
    BY <1>7, <2>3, <2>4, <2>5, <2>6 DEF SendLoop
<1>8. CASE GuardBreak(n)
  <2>1. pc[n] = "csma" /\ until'[n] = until[n] /\ pc'[n] = IF GuardTime(n) = 0 THEN "send" ELSE "guard"
    BY <1>8, GoesOwn DEF GuardBreak, Due
  <2>2. conf.csma = 1 /\ Delay \in Nat /\ until[n] - (s + Delay) \in 0 .. MaxLate
    BY <2>1 DEF Phase
  <2>3. pc'[n] = "send" => s + Systime(conf.tca) <= until'[n]
    BY <1>1, <2>1, NothingLeft DEF SendsInTime
  <2> QED
    BY <1>1, <1>2, <1>6, <2>1, <2>2, <2>3 DEF Phase
<1>9. CASE Guard(n)
  <2>1. pc[n] = "guard" /\ Sleeps(n, "clear", Systime(Tg))
    BY <1>9 DEF Guard, Due
  <2>2. PICK late \in 0 .. MaxLate : until'[n] = clock + Ticks(Systime(Tg)) + late
    BY <2>1, SleepsOwn
  <2>3. pc'[n] = "clear" /\ Ticks(Systime(Tg)) = Systime(Tg)
    BY <1>4, <2>1, SleepsOwn, TicksOf
  <2>4. conf.csma = 1 /\ Delay \in Nat /\ until[n] - (s + Delay) \in 0 .. MaxLate
    BY <2>1 DEF Phase
  <2>5. until'[n] - (s + Delay + Systime(Tg)) \in 0 .. 2 * MaxLate
    BY <1>1, <1>3, <1>4, <2>2, <2>3, <2>4
  <2> QED
    BY <1>1, <1>2, <1>6, <2>3, <2>4, <2>5 DEF Phase
<1>12. CASE ReceiverOn(n)
  <2>1. pc[n] = "clear" /\ Sleeps(n, "sense", RX_ON)
    BY <1>12 DEF ReceiverOn, Due
  <2>2. PICK late \in 0 .. MaxLate : until'[n] = clock + RX_ON + late
    BY <1>11, <2>1, SleepsOwn
  <2>3. pc'[n] = "sense"
    BY <2>1, SleepsOwn
  <2>4. conf.csma = 1 /\ Delay \in Nat /\ until[n] - (s + Delay + Systime(Tg)) \in 0 .. 2 * MaxLate
    BY <2>1 DEF Phase
  <2>5. Wait = Delay + Systime(Tg) + RX_ON
    BY <2>4 DEF Wait
  <2>6. until'[n] - (s + Wait) \in 0 .. 3 * MaxLate
    BY <1>1, <1>3, <1>4, <1>11, <2>2, <2>4, <2>5
  <2> QED
    BY <1>1, <1>2, <1>6, <2>3, <2>4, <2>6 DEF Phase
<1>10. CASE Assess(n)
  <2>1. pc[n] = "sense" /\ (pc'[n] = "busy" \/ (pc'[n] = "turn" /\ until'[n] = clock + TURN))
    BY <1>10, GoesOwn, GoesAtOwn DEF Assess, Due, Transmit
  <2>2. conf.csma = 1 /\ Delay \in Nat /\ until[n] - (s + Wait) \in 0 .. 3 * MaxLate
    BY <2>1 DEF Phase
  <2>3. Wait \in Nat
    BY <1>4, <1>11, <2>2 DEF Wait
  <2>4. pc'[n] = "turn" => WaitOver(n, until'[n])
    BY <1>1, <1>3, <1>6, <2>1, <2>2, <2>3 DEF WaitOver
  <2> QED
    BY <2>1, <2>4 DEF Contending
<1> QED
  BY <1>7, <1>8, <1>9, <1>10, <1>12 DEF Send, Sending

\* Only data_send_packet says that nothing hangs a node or puts it off any more.
LEMMA HungLink ==
    ASSUME NEW n \in Nodes, Link(n), pc[n] \notin {"configured", "ready"}, n \notin hung'
    PROVE  n \notin hung /\ putoff' = putoff
BY DEF Link, Start, Request, AirStart, Ready, AirEnd, Heard, Unheard, Returned, Leave, Reenter, Listen,
       AnswerTime, Answer, Sleeps, Due, sending

LEMMA PutoffOwn ==
    ASSUME NEW n \in Nodes, Send(n), n \notin putoff'
    PROVE  n \notin putoff
BY DEF Send, Sending, SendLoop, GuardBreak, Guard, ReceiverOn, Assess

LEMMA WaitOverSame ==
    ASSUME NEW n \in Nodes, heard'[n] = heard[n], conf' = conf
    PROVE  \A x : WaitOver(n, x)' <=> WaitOver(n, x)
<1>1. DueAt(n)' = DueAt(n) /\ Wait' = Wait
  BY SameTimes DEF Wait, Delay
<1> QED
  BY <1>1 DEF WaitOver

\* The answer begins with what data_answer_time has left.
LEMMA AloneCall ==
    ASSUME TypeOK, ClockInv, NEW n \in Nodes, HeardOf(n), PunctualOf(n), AloneOf(n),
           pc[n] = "ready", SendPacket(n), Told(n), called[n] = "punctual",
           clock' = clock, conf' = conf, heard'[n] = heard[n], until[n] = clock, drawn'[n] = drawn[n],
           pc'[n] = "send", until'[n] = clock, InTurn(n, clock),
           InTime(n, clock)'
    PROVE  \E s \in Nat : SendsInTime(n, s)' /\ Phase(n, s)'
<1>1. clock \in Nat /\ DueAt(n) \in Nat /\ MaxLate \in Nat
  BY HistoryTypes
<1>2. DueAt(n) <= clock
  BY <1>1 DEF HeardOf, Answering, Past
<1>3. clock <= DueAt(n) + MaxLate
  BY DEF PunctualOf
<1>4. drawn[n] = 0
  BY DEF AloneOf, Fresh
<1>5. DueAt(n)' = DueAt(n)
  BY SameTimes
<1>6. PICK s \in Nat : s = clock
  BY <1>1
<1>7. SendsInTime(n, s)'
  BY <1>6 DEF SendsInTime, InTime
<1>8. Phase(n, s)'
  <2>1. s - DueAt(n) \in 0 .. MaxLate
    BY <1>1, <1>2, <1>3, <1>6
  <2> QED
    BY <1>4, <1>5, <1>6, <2>1 DEF Phase
<1> QED
  BY <1>7, <1>8

LEMMA AloneOwn ==
    ASSUME TypeOK, ClockInv, NEW n \in Nodes, HeardOf(n), PunctualOf(n), AloneOf(n),
           Link(n) \/ Send(n), TypeOK', ClockInv'
    PROVE  AloneOf(n)'
<1>1. /\ clock \in Nat /\ until[n] \in Nat /\ until'[n] \in Nat /\ began[n] \in Nat
      /\ heard[n].at \in Nat /\ End(n) \in Nat /\ TURN \in Nat /\ AIR \in Nat
  BY HistoryTypes, VariableTypes DEF TypeOK
<1>2. heard'[n] = heard[n] /\ conf' = conf /\ clock' = clock /\ until[n] = clock
  BY SendMoves, LinkMoves DEF Kept
<1>3. /\ (Told(n)' <=> Told(n)) /\ End(n)' = End(n) /\ \A x : InTurn(n, x)' <=> InTurn(n, x)
      /\ \A x : WaitOver(n, x)' <=> WaitOver(n, x)
  BY <1>2, SameTimes, WaitOverSame
<1>4. pc'[n] \in Fresh \/ (pc'[n] = "idle" /\ n # Starter) => drawn'[n] = 0
  <2>1. CASE Send(n)
    BY <2>1, SendMoves DEF Fresh, Contending
  <2>2. CASE Link(n)
    BY <2>2, LinkMoves DEF AloneOf, Fresh, Contending
  <2> QED
    BY <2>1, <2>2
<1>5. SUFFICES ASSUME n \in guarded', n \notin hung', n \notin putoff', called'[n] = "punctual"
               PROVE  /\ pc'[n] \in Contending /\ InTurn(n, until'[n]) =>
                           \E s \in Nat : SendsInTime(n, s)' /\ Phase(n, s)'
                      /\ pc'[n] = "turn" /\ InTurn(n, until'[n]) => WaitOver(n, until'[n])
                      /\ heard[n].at < began'[n] => End(n) <= began'[n]
                      /\ heard[n].at < began'[n] /\ InTurn(n, began'[n]) => WaitOver(n, began'[n])
  <2>1. InTurn(n, until[n])' <=> InTurn(n, until'[n])
    BY <1>2, <1>3
  <2>2. InTurn(n, began[n])' <=> InTurn(n, began'[n])
    BY <1>2, <1>3
  <2>3. (WaitOver(n, until[n])' <=> WaitOver(n, until'[n]))
        /\ (WaitOver(n, began[n])' <=> WaitOver(n, began'[n]))
    BY <1>2, <1>3 DEF WaitOver
  <2> QED
    BY <1>2, <1>3, <1>4, <1>5, <2>1, <2>2, <2>3 DEF AloneOf, AnswersAlike
<1>6. End(n) <= clock /\ clock <= until'[n] /\ InTurn(n, until'[n]) => InTurn(n, clock)
  BY <1>1, Between
<1>7. pc'[n] \notin Resting => clock <= until'[n]
  BY <1>2 DEF ClockInv
<1>8. CASE Send(n)
  <2>1. Kept(n) /\ pc[n] \in Contending /\ (pc'[n] = "turn" => until'[n] = clock + TURN)
    BY <1>8, SendMoves
  <2>2. AnswersAlike(n)
    BY <1>5, <1>8, <2>1, HungOwn, PutoffOwn DEF Kept, AnswersAlike
  <2>3. Told(n) /\ End(n) <= clock
    BY <2>1, <2>2 DEF HeardOf, Answering, AnswersAlike
  <2>4. ASSUME pc'[n] \in Contending \cup {"turn"}, InTurn(n, until'[n])
        PROVE  /\ pc'[n] \in Contending => \E s \in Nat : SendsInTime(n, s)' /\ Phase(n, s)'
               /\ pc'[n] = "turn" => WaitOver(n, until'[n])
    <3>1. InTurn(n, until[n])
      BY <1>2, <1>6, <1>7, <2>3, <2>4 DEF Contending, Resting
    <3>2. PICK s \in Nat : SendsInTime(n, s) /\ Phase(n, s)
      BY <2>1, <2>2, <3>1 DEF AloneOf
    <3>3. pc'[n] \in Contending => SendsInTime(n, s)' /\ Phase(n, s)'
      BY <1>5, <1>8, <3>2, SendOwn, PhaseStep
    <3>4. pc'[n] = "turn" => WaitOver(n, until'[n])
      BY <1>5, <1>8, <3>2, PhaseStep
    <3> QED
      BY <3>2, <3>3, <3>4
  <2>5. began'[n] = began[n]
    BY <2>1 DEF Kept
  <2> QED
    BY <2>2, <2>4, <2>5 DEF AloneOf
<1>9. CASE Link(n)
  <2>1. CASE pc[n] = "ready"
    <3>1. pc'[n] = "send" /\ SendPacket(n) /\ until'[n] = clock /\ called[n] = "punctual"
          /\ drawn'[n] = drawn[n] /\ began'[n] = began[n]
      BY <1>5, <1>9, <2>1, LinkMoves
    <3>2. Told(n) /\ began[n] < heard[n].at
      BY <2>1 DEF HeardOf, Answering
    <3>3. InTime(n, clock)'
      BY <1>9, <3>1, LinkOwn DEF Contending
    <3>4. InTurn(n, clock) => \E s \in Nat : SendsInTime(n, s)' /\ Phase(n, s)'
      BY <1>2, <2>1, <3>1, <3>2, <3>3, AloneCall
    <3>5. ~(heard[n].at < began'[n])
      BY <1>1, <3>1, <3>2
    <3> QED
      BY <3>1, <3>4, <3>5
  <2>2. CASE pc[n] = "configured"
    BY <1>5, <1>9, <2>2, LinkMoves DEF Kept, HeardOf
  <2>3. CASE pc[n] = "heard"
    <3>1. began'[n] = began[n] /\ pc'[n] \in {"ready", "done"} /\ Told(n)
      BY <1>9, <2>3, LinkMoves DEF Kept, HeardOf
    <3>2. began[n] < heard[n].at
      BY <2>3, <3>1 DEF HeardOf
    <3>3. ~(heard[n].at < began'[n])
      BY <1>1, <3>1, <3>2
    <3> QED
      BY <3>1, <3>3 DEF Contending
  <2>4. CASE pc[n] \notin {"ready", "configured", "heard"}
    <3>1. /\ pc'[n] \notin Contending \cup {"turn"}
          /\ called'[n] = called[n] /\ (n \in guarded' <=> n \in guarded)
          /\ \/ began'[n] = began[n]
             \/ pc[n] = "turn" /\ began'[n] = clock
      BY <1>9, <2>4, LinkMoves DEF Kept, Contending
    <3>2. AnswersAlike(n)
      BY <1>5, <1>9, <2>4, <3>1, HungLink DEF AnswersAlike
    <3>3. CASE began'[n] = began[n]
      BY <3>1, <3>2, <3>3 DEF AloneOf
    <3>4. CASE pc[n] = "turn" /\ began'[n] = clock
      <4>1. Told(n) /\ End(n) <= clock
        BY <3>2, <3>4 DEF HeardOf, Answering, AnswersAlike
      <4>2. InTurn(n, clock) => WaitOver(n, clock)
        BY <1>2, <3>2, <3>4 DEF AloneOf
      <4> QED
        BY <3>1, <3>4, <4>1, <4>2
    <3> QED
      BY <3>1, <3>3, <3>4
  <2> QED
    BY <2>1, <2>2, <2>3, <2>4
<1> QED
  BY <1>8, <1>9

LEMMA AloneStep ==
    ASSUME TypeOK, ClockInv, HeardInv, PunctualInv, AloneInv, [Next]_vars, TypeOK', ClockInv'
    PROVE  AloneInv'
<1> SUFFICES ASSUME NEW u \in Nodes PROVE AloneOf(u)'
  BY DEF AloneInv
<1>1. HeardOf(u) /\ PunctualOf(u) /\ AloneOf(u)
  BY DEF HeardInv, PunctualInv, AloneInv
<1>2. ASSUME UNCHANGED <<conf, pc, until, sending, time, history>>,
             \A s \in Nat : SendsInTime(u, s) => SendsInTime(u, s)'
      PROVE  AloneOf(u)'
  <2>1. heard'[u] = heard[u] /\ conf' = conf /\ began' = began
    BY <1>2 DEF history
  <2>2. /\ End(u)' = End(u) /\ DueAt(u)' = DueAt(u) /\ \A x : InTurn(u, x)' <=> InTurn(u, x)
        /\ \A x : WaitOver(u, x)' <=> WaitOver(u, x)
    BY <2>1, SameTimes, WaitOverSame
  <2>3. AnswersAlike(u)' <=> AnswersAlike(u)
    BY <1>2 DEF AnswersAlike, sending, history
  <2>4. \A s \in Nat : Phase(u, s) => Phase(u, s)'
    BY <1>2, <2>2 DEF Phase, Wait, Delay, sending
  <2>5. pc' = pc /\ until' = until /\ drawn' = drawn
    BY <1>2 DEF sending
  <2>6. /\ InTurn(u, until[u])' <=> InTurn(u, until[u])
        /\ InTurn(u, began[u])' <=> InTurn(u, began[u])
        /\ WaitOver(u, until[u])' <=> WaitOver(u, until[u])
        /\ WaitOver(u, began[u])' <=> WaitOver(u, began[u])
    BY <2>1, <2>2, <2>5 DEF InTurn, Turn, WaitOver, Wait, Delay
  <2> QED
    BY <1>1, <1>2, <2>1, <2>2, <2>3, <2>4, <2>5, <2>6 DEF AloneOf
<1>3. CASE UNCHANGED vars
  BY <1>2, <1>3 DEF vars, sending, SendsInTime, InTime, InGuardTime, TurnOn
<1>4. CASE Elapse
  <2>1. UNCHANGED <<conf, pc, until, sending, time, history>>
    BY <1>4 DEF Elapse
  <2> QED
    BY <1>2, <1>4, <2>1, SendsElapse
<1>5. ASSUME NEW n \in Nodes, Link(n) \/ Send(n), u # n PROVE AloneOf(u)'
  <2>1. clock' = clock /\ conf' = conf /\ (u \in hung' <=> u \in hung)
    BY <1>5, Frame
  <2>2. /\ began'[u] = began[u] /\ called'[u] = called[u] /\ drawn'[u] = drawn[u]
        /\ (u \in guarded' <=> u \in guarded) /\ (u \in putoff' <=> u \in putoff)
        /\ \/ pc'[u] = pc[u] /\ until'[u] = until[u] /\ heard'[u] = heard[u]
           \/ pc[u] \in Tuned /\ pc'[u] = "hearing" /\ heard'[u].at = clock + AIR
           \/ pc[u] = "hearing" /\ pc'[u] = "garbled" /\ heard'[u] = heard[u]
    <3>1. \/ pc'[u] = pc[u] /\ until'[u] = until[u] /\ heard'[u] = heard[u]
          \/ pc[u] \in Tuned /\ pc'[u] = "hearing" /\ heard'[u].at = clock + AIR
          \/ pc[u] = "hearing" /\ pc'[u] = "garbled" /\ heard'[u] = heard[u]
      BY <1>5, Frame
    <3>2. /\ began'[u] = began[u] /\ called'[u] = called[u] /\ drawn'[u] = drawn[u]
          /\ (u \in guarded' <=> u \in guarded) /\ (u \in putoff' <=> u \in putoff)
      BY <1>5, Keeps
    <3> QED
      BY <3>1, <3>2
  <2>3. AnswersAlike(u)' <=> AnswersAlike(u)
    BY <2>1, <2>2 DEF AnswersAlike
  <2>4. CASE pc[u] \in Tuned /\ pc'[u] = "hearing" /\ heard'[u].at = clock + AIR
    <3>1. began[u] \in Nat /\ clock \in Nat /\ AIR \in Nat /\ began[u] <= clock
      BY <1>1, HistoryTypes DEF HeardOf
    <3>2. ~(heard'[u].at < began'[u])
      BY <2>2, <2>4, <3>1
    <3> QED
      BY <1>1, <2>2, <2>4, <3>2 DEF AloneOf, Fresh, Contending, Tuned
  <2>5. CASE heard'[u] = heard[u]
    <3>1. /\ End(u)' = End(u) /\ DueAt(u)' = DueAt(u) /\ \A x : InTurn(u, x)' <=> InTurn(u, x)
          /\ \A x : WaitOver(u, x)' <=> WaitOver(u, x)
      BY <2>1, <2>5, SameTimes, WaitOverSame
    <3>2. /\ InTurn(u, began[u])' <=> InTurn(u, began[u])
          /\ WaitOver(u, began[u])' <=> WaitOver(u, began[u])
      BY <2>1, <2>2, <3>1 DEF InTurn, Turn, WaitOver, Wait, Delay
    <3>3. CASE pc'[u] = pc[u] /\ until'[u] = until[u]
      <4>1. /\ InTurn(u, until[u])' <=> InTurn(u, until[u])
            /\ WaitOver(u, until[u])' <=> WaitOver(u, until[u])
        BY <2>1, <3>1, <3>3 DEF InTurn, Turn, WaitOver, Wait, Delay
      <4>2. \A s \in Nat : SendsInTime(u, s) /\ pc'[u] \in Contending => SendsInTime(u, s)'
        BY <1>5, SendsOther
      <4>3. \A s \in Nat : Phase(u, s) => Phase(u, s)'
        BY <2>1, <2>2, <3>1, <3>3 DEF Phase, Wait, Delay
      <4> QED
        BY <1>1, <2>2, <2>3, <2>5, <3>1, <3>2, <3>3, <4>1, <4>2, <4>3 DEF AloneOf
    <3>4. CASE pc'[u] = "garbled"
      BY <1>1, <2>2, <2>3, <2>5, <3>1, <3>2, <3>4 DEF AloneOf, Fresh, Contending
    <3> QED
      BY <2>2, <2>4, <3>3, <3>4
  <2> QED
    BY <2>2, <2>4, <2>5
<1>6. ASSUME NEW n \in Nodes, Link(n) \/ Send(n), u = n PROVE AloneOf(u)'
  BY <1>1, <1>6, AloneOwn
<1> QED
  BY <1>3, <1>4, <1>5, <1>6 DEF Next

LEMMA InitAlone == Init => AloneInv
<1> SUFFICES ASSUME Init, NEW n \in Nodes PROVE AloneOf(n)
  BY DEF AloneInv
<1>1. pc[n] = "idle" /\ n \notin guarded /\ (n # Starter => drawn[n] = 0)
  BY DEF Init
<1> QED
  BY <1>1 DEF AloneOf, AnswersAlike, Fresh

----------------------------------------------------------------------------
(* Theorems *)

\* The inductive invariant: what a node that sends, or that waits to answer,
\* has left of its time, told on a clock that does not wrap.
THEOREM Invariance == Spec => []IInv
<1>1. Init => IInv
  BY InitInv
<1>2. IInv /\ [Next]_vars => IInv'
  <2> SUFFICES ASSUME IInv, [Next]_vars PROVE IInv'
    OBVIOUS
  <2>1. TypeOK /\ ClockInv /\ SendInv /\ AnswerInv
    BY DEF IInv
  <2>2. TypeOK'
    BY <2>1, TypeStep
  <2>3. ClockInv'
    BY <2>1, ClockStep
  <2>4. SendInv'
    BY <2>1, SendStep
  <2>5. AnswerInv'
    BY <2>1, <2>2, <2>3, AnswerStep
  <2> QED
    BY <2>2, <2>3, <2>4, <2>5 DEF IInv
<1> QED
  BY <1>1, <1>2, PTL DEF Spec

\* The variables of data.c keep their types, whatever wraps.
THEOREM TypeCorrect == Spec => []TypeOK
<1>1. IInv => TypeOK
  BY DEF IInv
<1> QED
  BY <1>1, Invariance, PTL

\* data_send_packet (data.c:69-102) comes to phy_send_packet, or returns, within
\* Tca, and that begins to send, or returns, when it has turned the receiver on
\* (phy.c:399), unless a delay of 0 was drawn or a division by 0 done.
THEOREM SendReturnsInTime == Spec => []ReturnsInTime
<1>1. IInv => ReturnsInTime
  <2> SUFFICES ASSUME IInv, NEW n \in Nodes \ hung, pc[n] \in Contending
               PROVE  Elapsed(n) + (until[n] - clock) <= conf.tca + MaxLate + TurnOn(n)
    BY DEF ReturnsInTime
  <2>1. TypeOK /\ ClockInv /\ SendInv
    BY DEF IInv
  <2>2. PICK s \in Nat : InTime(n, s)
    BY <2>1 DEF SendInv, SendsInTime
  <2>3. Elapsed(n) = clock - s
    BY <2>1, <2>2, ElapsedIs
  <2>4. clock \in Nat /\ until[n] \in Nat /\ until[n] - s <= conf.tca + MaxLate + TurnOn(n)
    BY <2>1, <2>2, VariableTypes DEF InTime
  <2>5. conf.tca \in Nat /\ MaxLate \in Nat /\ TurnOn(n) \in Nat
    BY <2>1, Times, RxTicks DEF TurnOn
  <2> QED
    BY <2>3, <2>4, <2>5
<1> QED
  BY <1>1, Invariance, PTL

\* data_answer_time (data.c:167-176) never returns DATA_ANSWER_READY before the
\* answer is due, whatever wraps; and not after the window of the answer, unless
\* it is called in the very tick the answer is due or the clock wraps meanwhile.
THEOREM AnswersOnTime == Spec => []AnswerInWindow
<1>1. IInv => AnswerInWindow
  <2> SUFFICES ASSUME IInv, NEW n \in Nodes, Due(n, "ready")
               PROVE  /\ heard[n].back + Systime(Tc) <= clock
                      /\ n \notin hung /\ ~Wraps(n) =>
                           clock <= heard[n].back + Systime(Tc + Tl) + MaxLate
    BY DEF AnswerInWindow
  <2>1. pc[n] = "ready" /\ until[n] = clock
    BY DEF Due
  <2>2. heard[n].back + Systime(Tc) <= until[n]
    BY <2>1 DEF IInv, AnswerInv
  <2>3. n \notin hung /\ ~Wraps(n) => until[n] <= heard[n].back + Systime(Tc + Tl) + MaxLate
    BY <2>1 DEF IInv, AnswerInv, Wraps, Turn
  <2> QED
    BY <2>1, <2>2, <2>3
<1> QED
  BY <1>1, Invariance, PTL

\* What data_listen, data_answer_time and data_dialogue leave a node that has
\* heard a packet, one that answers and one that listens for its answer.
THEOREM Telling == Spec => [](HeardInv /\ PunctualInv /\ OpenedInv /\ AskerInv)
<1> DEFINE Inv == HeardInv /\ PunctualInv /\ OpenedInv /\ AskerInv
<1>1. Init => Inv
  BY InitTold
<1>2. IInv /\ IInv' /\ Inv /\ [Next]_vars => Inv'
  <2> SUFFICES ASSUME IInv, IInv', Inv, [Next]_vars PROVE Inv'
    OBVIOUS
  <2>1. TypeOK /\ ClockInv /\ AnswerInv /\ TypeOK' /\ ClockInv'
    BY DEF IInv
  <2>2. HeardInv'
    BY <2>1, HeardStep
  <2>3. PunctualInv'
    BY <2>1, PunctualStep
  <2>4. OpenedInv'
    BY <2>1, OpenedStep
  <2>5. AskerInv'
    BY <2>1, AskerStep
  <2> QED
    BY <2>2, <2>3, <2>4, <2>5
<1> HIDE DEF Inv
<1>3. Spec => []Inv
  BY <1>1, <1>2, Invariance, PTL DEF Spec
<1> QED
  BY <1>3 DEF Inv

\* An answer that data_answer_time called for in time, and that is sent at once,
\* begins while its asker listens (data.c:144-176), unless that one is not back
\* or a third node has taken its listening.
THEOREM AnswersHeard == Spec => AnswerHeard
<1>1. IInv /\ HeardInv /\ PunctualInv /\ OpenedInv /\ AskerInv => HeardInTime
  <2> SUFFICES ASSUME IInv, HeardInv, PunctualInv, OpenedInv, AskerInv, NEW n \in Nodes,
                      AirStart(n), n \notin guarded, heard[n] # NoPacket,
                      called[n] = "punctual", ~Wraps(n), opened[heard[n].from] > 0,
                      pc[heard[n].from] \notin {"again", "listen", "hearing", "garbled"}
               PROVE  Taken(heard[n].from)
    BY DEF HeardInTime
  <2> DEFINE a == heard[n].from
  <2>1. TypeOK /\ ClockInv /\ a \in Nodes
    BY DEF IInv, TypeOK
  <2>2. HeardOf(n) /\ PunctualOf(n) /\ AskerOf(n) /\ HeardOf(a) /\ OpenedOf(a)
    BY <2>1 DEF HeardInv, PunctualInv, OpenedInv, AskerInv
  <2>3. pc[n] = "turn" /\ until[n] = clock /\ InTurn(n, clock)
    BY DEF AirStart, Due, Wraps, InTurn, Turn, End
  <2>4. Told(n)
    BY <2>2 DEF HeardOf
  <2>5. /\ clock \in Nat /\ sent[a] \in Nat /\ opened[a] \in Nat /\ heard[n].at \in Nat
        /\ LAG \in Nat /\ MaxLate \in Nat /\ TURN \in Nat \ {0} /\ Systime(Tc) \in Nat
        /\ AIR \in Nat \ {0} /\ RX_ON \in Nat /\ End(n) \in Nat /\ DueAt(n) = End(n) + Systime(Tc)
    BY <2>1, HistoryTypes DEF DueAt
  <2>6. DueAt(n) + TURN <= clock /\ clock <= DueAt(n) + MaxLate + TURN
    BY <2>2, <2>3, <2>4 DEF HeardOf, PunctualOf, Answering, Past
  <2>7. heard[n].at + LAG <= End(n) /\ End(n) <= heard[n].at + LAG + RX_ON + MaxLate
    BY <2>2, <2>4 DEF HeardOf
  <2>8. /\ sent[a] + Systime(Tc) <= opened[a] + SAFE_SLEEP_WINDOW /\ opened[a] <= clock
        /\ opened[a] + RX_ON + Systime(Tfsd) <= clock \/ Taken(a)
    BY <2>2 DEF OpenedOf, Receiving
  <2>9. /\ Systime(Tfsd) \in Nat /\ SAFE_SLEEP_WINDOW \in Nat
        /\ SAFE_SLEEP_WINDOW + LAG + 2 * MaxLate + TURN < Systime(Tfsd)
        /\ SAFE_SLEEP_WINDOW + RX_ON + 2 * MaxLate <= Systime(Tc)
    BY DialogueTypes, WindowAssumption
  <2>10. CASE pc[a] = "air" /\ until[a] = heard[n].at
    <3>1. clock <= until[a]
      BY <2>1, <2>10 DEF ClockInv, Resting
    <3> HIDE DEF a
    <3> QED
      BY <2>5, <2>6, <2>7, <2>10, <3>1
  <2>11. CASE pc[a] # "air" /\ sent[a] = heard[n].at
    <3> HIDE DEF a
    <3>1. ~(opened[a] + RX_ON + Systime(Tfsd) <= clock)
      BY <2>5, <2>6, <2>7, <2>8, <2>9, <2>11
    <3> QED
      BY <2>8, <3>1 DEF a
  <2>12. CASE pc[a] = "air" /\ Told(a)
    <3>1. opened[a] < heard[a].at
      BY <2>2, <2>12 DEF OpenedOf
    <3>2. End(a) <= clock
      BY <2>2, <2>12 DEF HeardOf
    <3> QED
      BY <3>1, <3>2 DEF Taken, End
  <2>13. CASE heard[n].at + AIR + LAG + Systime(Tc) + TURN + AIR <= sent[a]
    <3> HIDE DEF a
    <3>1. sent[a] + Systime(Tc) <= opened[a] + SAFE_SLEEP_WINDOW /\ opened[a] <= clock
      BY <2>8
    <3>2. clock <= heard[n].at + LAG + RX_ON + Systime(Tc) + 2 * MaxLate + TURN
      BY <2>5, <2>6, <2>7
    <3>3. FALSE
      BY <2>5, <2>9, <2>13, <3>1, <3>2
    <3> QED
      BY <3>3
  <2> QED
    BY <2>2, <2>4, <2>10, <2>11, <2>12, <2>13 DEF AskerOf
<1> QED
  BY <1>1, Invariance, Telling, PTL DEF Spec, AnswerHeard

\* Every node that answers in time with data_send_packet, and that nothing puts
\* off, waits alike: data_proc_config (data.c:12) has restarted its generator.
THEOREM Alike == Spec => []AloneInv
<1>1. IInv /\ IInv' /\ HeardInv /\ PunctualInv /\ AloneInv /\ [Next]_vars => AloneInv'
  BY AloneStep DEF IInv
<1> QED
  BY <1>1, InitAlone, Invariance, Telling, PTL DEF Spec

\* Two of them that answer the same packet begin within the time of a packet,
\* whoever is first (data.c:12, 64-66), unless the clock wraps.
THEOREM AnswersAlwaysCollide == Spec => []AnswersCollide
<1>1. IInv /\ HeardInv /\ AloneInv => AnswersCollide
  <2> SUFFICES ASSUME IInv, HeardInv, AloneInv,
                      NEW n \in guarded \ (putoff \cup hung), NEW m \in guarded \ (putoff \cup hung),
                      heard[n] = heard[m], ~Wraps(n),
                      called[n] = "punctual", called[m] = "punctual",
                      heard[n].at < began[n], heard[m].at < began[m]
               PROVE  began[n] < began[m] + AIR
    BY DEF AnswersCollide
  <2>1. TypeOK /\ n \in Nodes /\ m \in Nodes
    BY DEF IInv, TypeOK
  <2>2. ASSUME NEW u \in {n, m} PROVE WaitOver(u, began[u])
    <3>1. u \in Nodes /\ HeardOf(u) /\ AloneOf(u) /\ AnswersAlike(u) /\ heard[u].at < began[u]
      BY <2>1, <2>2 DEF HeardInv, AloneInv, AnswersAlike
    <3>2. InTurn(u, clock)
      BY <2>1, <2>2 DEF Wraps, InTurn, Turn, End
    <3>3. End(u) <= began[u] /\ began[u] <= clock
      BY <3>1 DEF AloneOf, HeardOf
    <3>4. InTurn(u, began[u])
      <4>1. began[u] \in Nat /\ clock \in Nat
        BY <2>1, <3>1, HistoryTypes
      <4> QED
        BY <2>1, <3>1, <3>2, <3>3, <4>1, Between
    <3> QED
      BY <3>1, <3>4 DEF AloneOf
  <2>3. DueAt(n) = DueAt(m)
    BY DEF DueAt, End
  <2>4. /\ began[n] \in Nat /\ began[m] \in Nat /\ DueAt(m) \in Nat /\ TURN \in Nat /\ MaxLate \in Nat
        /\ AIR \in Nat
    BY <2>1, HistoryTypes
  <2>5. 4 * MaxLate < AIR
    BY WindowAssumption
  <2>6. WaitOver(n, began[n]) /\ WaitOver(m, began[m])
    BY <2>2
  <2> QED
    BY <2>3, <2>4, <2>5, <2>6 DEF WaitOver
<1> QED
  BY <1>1, Invariance, Telling, Alike, PTL

=============================================================================
