------------------------------ MODULE DataSend ------------------------------
(***************************************************************************)
(* data_send_packet (data.c:24-102): a random delay, then a guard break    *)
(* that waits for a clear channel, then the packet, all within Tca.        *)
(*                                                                         *)
(* Time passes in leaps to the next moment at which a node goes on.  The   *)
(* code reads it as a systime_t, which wraps; the times of data_conf are   *)
(* in d7_ti, which wraps earlier.  What the channel assessments answer is  *)
(* left open: Radio models what they read.                                 *)
(***************************************************************************)
EXTENDS TimeUnits, Sequences, FiniteSets

CONSTANTS
    Nodes,
    Tcas, Tg,       \* of data_conf; Tca is one of Tcas
    Draws,          \* what random() returns after rand_init(44)
    CLAMP,          \* data.c:78
    Bases,          \* systime_t of a node at the start
    RX_ON,          \* sx1231.c:194
    MaxLate,        \* ticks a thread wakes up late
    TURN, AIR       \* ticks from the clear channel to the packet, and of a packet

ASSUME SendAssumption ==
    /\ {Tg, CLAMP, RX_ON, MaxLate, TURN, AIR} \subseteq Nat
    /\ Tcas \subseteq Nat /\ Bases \subseteq Nat
    /\ Modulus % TiModulus = 0
    /\ Draws \in Seq(Nat) /\ Draws # <<>>
    /\ 0 < TURN /\ 0 < AIR
    /\ 0 < RX_ON /\ 1000 * RX_ON < Modulus
    /\ \A t \in Tcas : Tg <= t /\ t < TiModulus /\ t <= CLAMP
                        /\ 1000 * t < Modulus /\ CLAMP + t + RX_ON + 2 * MaxLate < Modulus
\* A thread is not late for longer than a guard time (data.c:88 does not clamp).
ASSUME LateAssumption == 2 * MaxLate < (Tg * 977) \div 1000

VARIABLES
    clock,
    conf,       \* Tca and CSMAen of data_conf, and systime_t at the start
    pc, until,  \* where a node is, and when it goes on
    start,      \* of data_send_packet
    guard,      \* max_diff and start of data_guard_break
    drawn,      \* how many values were drawn from the generator
    hung,       \* history: the nodes that drew a delay of 0 or divided by 0
    putoff      \* history: the nodes whose channel was not clear at once

sending == <<start, guard, drawn, hung, putoff>>

Due(n, where) == pc[n] = where /\ until[n] = clock

Goes(n, where) == pc' = [pc EXCEPT ![n] = where] /\ UNCHANGED until

GoesAt(n, where, when) ==
    /\ pc' = [pc EXCEPT ![n] = where]
    /\ until' = [until EXCEPT ![n] = when]

\* Mutation: the counter does not wrap.
MutNow(n) == clock + conf.base

\* chTimeNow
Now(n) == (clock + conf.base) % Modulus

\* chThdSleepMilliseconds
Sleeps(n, where, ms) ==
    /\ \E late \in 0 .. MaxLate : GoesAt(n, where, clock + Ticks(ms) + late)
    /\ hung' = IF ms = 0 THEN hung \cup {n} ELSE hung

----------------------------------------------------------------------------
(* data_send_packet *)

Elapsed(n) == (Now(n) - start[n]) % Modulus

\* Mutation: the difference is not clamped.
MutTimeDiff(n) == (Systime(conf.tca - Tg) - Elapsed(n)) % Modulus

\* What is left for the delay.
TimeDiff(n) ==
    LET diff == (Systime(conf.tca - Tg) - Elapsed(n)) % Modulus
    IN  IF diff > CLAMP THEN 0 ELSE diff

\* What is left for the guard break, in the time units of the radio.
GuardTime(n) == Ti(Systime(((conf.tca - Elapsed(n)) % Modulus) % TiModulus))

\* random() % time.  The division by zero leaves the value as it is or gives 0.
Remainders(value, time) == IF time = 0 THEN {value, 0} ELSE {value % time}

Transmit(n) == GoesAt(n, "turn", clock + TURN)

NoGuard == [max |-> 0, start |-> 0]

\* The function returns and its variables are gone.
Returns(n) ==
    /\ start' = [start EXCEPT ![n] = 0]
    /\ guard' = [guard EXCEPT ![n] = NoGuard]

SendPacket(n) ==
    /\ start' = [start EXCEPT ![n] = Now(n)]
    /\ Goes(n, "send")
    /\ hung' = hung \ {n} /\ putoff' = putoff \ {n}
    /\ UNCHANGED <<guard, drawn>>

\* data_send_packet_protected
SendProtected(n) == Transmit(n) /\ UNCHANGED sending

TimesOut(n) ==
    /\ Systime(conf.tca) <= Elapsed(n)
    /\ Goes(n, "timeout")
    /\ Returns(n)
    /\ UNCHANGED <<drawn, hung>>

NoCsma(n) ==
    /\ Systime(conf.tca) > Elapsed(n) /\ conf.csma = 0
    /\ Transmit(n)
    /\ Returns(n)
    /\ UNCHANGED <<drawn, hung>>

\* data_csma fails and the loop spins until Tca is over.
Spins(n) ==
    /\ Systime(conf.tca) > Elapsed(n) /\ conf.csma = 1 /\ Ti(TimeDiff(n)) = 0
    /\ GoesAt(n, "send", clock + Systime(conf.tca) - Elapsed(n))
    /\ UNCHANGED <<start, guard, drawn, hung>>

Csma(n) ==
    /\ Systime(conf.tca) > Elapsed(n) /\ conf.csma = 1 /\ Ti(TimeDiff(n)) > 0
    /\ drawn[n] < Len(Draws)
    /\ drawn' = [drawn EXCEPT ![n] = @ + 1]
    /\ LET time == Systime(Ti(TimeDiff(n)))
       IN  \E delay \in Remainders(Draws[drawn[n] + 1], time) :
             /\ \E late \in 0 .. MaxLate : GoesAt(n, "csma", clock + Ticks(delay) + late)
             /\ hung' = IF time = 0 \/ delay = 0 THEN hung \cup {n} ELSE hung
    /\ UNCHANGED <<start, guard>>

SendLoop(n) ==
    /\ Due(n, "send")
    /\ TimesOut(n) \/ NoCsma(n) \/ Spins(n) \/ Csma(n)
    /\ UNCHANGED <<clock, conf, putoff>>

GuardBreak(n) ==
    /\ Due(n, "csma")
    /\ Goes(n, IF GuardTime(n) = 0 THEN "send" ELSE "guard")
    /\ guard' = [guard EXCEPT ![n] = [max |-> Systime(GuardTime(n)), start |-> Now(n)]]
    /\ UNCHANGED <<clock, conf, start, drawn, hung, putoff>>

InGuard(n) == guard[n].max > (Now(n) + Systime(Tg) - guard[n].start) % Modulus

\* wait_cca_timeout(0), then the guard time, whatever the answer.
Guard(n) ==
    /\ Due(n, "guard")
    /\ \/ /\ InGuard(n)
          /\ \/ Sleeps(n, "clear", Systime(Tg)) /\ UNCHANGED putoff
             \/ Sleeps(n, "guard", Systime(Tg)) /\ putoff' = putoff \cup {n}
       \/ /\ ~InGuard(n)
          /\ Goes(n, "send")
          /\ putoff' = putoff \cup {n}
          /\ UNCHANGED hung
    /\ UNCHANGED <<clock, conf, start, guard, drawn>>

\* phy_send_packet(0, TRUE): sx_mode(RX) sleeps before the channel is assessed.
ReceiverOn(n) ==
    /\ Due(n, "clear")
    /\ Sleeps(n, "sense", RX_ON)
    /\ UNCHANGED <<clock, conf, start, guard, drawn, putoff>>

Assess(n) ==
    /\ Due(n, "sense")
    /\ Transmit(n) \/ Goes(n, "busy")
    /\ Returns(n)
    /\ UNCHANGED <<clock, conf, drawn, hung, putoff>>

Sending(n) == SendLoop(n) \/ GuardBreak(n) \/ Guard(n) \/ ReceiverOn(n) \/ Assess(n)

\* Where a node is inside data_send_packet.
Contending == {"send", "csma", "guard", "clear", "sense"}

=============================================================================
