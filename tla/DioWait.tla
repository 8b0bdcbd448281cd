------------------------------ MODULE DioWait ------------------------------
(***************************************************************************)
(* How a thread waits for the DIO lines of the transceiver (dio.c, dio.h): *)
(* the edges of a line raise interrupts, the callbacks broadcast events,   *)
(* and the waits read the line, sleep until an event or a timeout and read *)
(* it again.  The events and the timers are those of the kernel            *)
(* (chevents.c, chschd.c, chvt.h).                                         *)
(*                                                                         *)
(* Nothing in the code says who calls dio_init: only the thread that does  *)
(* is signalled.  The clock wraps, as systime_t does.                      *)
(***************************************************************************)
EXTENDS Integers

CONSTANTS
    Threads,
    Callers,        \* the threads that wait for lines
    Lines,
    Rising,         \* the lines with EXT_CH_MODE_RISING_EDGE; the others have both edges
    Message,        \* DIO0_MASK | DIO1_MASK
    Timeouts,       \* in ticks
    NoTimer,
    Modulus,        \* systime_t wraps there
    MaxLate         \* ticks a thread that can run may have to wait for the processor

ASSUME LinesAssumption == Rising \subseteq Lines /\ Message \subseteq Lines
ASSUME ThreadsAssumption == Callers \subseteq Threads
ASSUME TimesAssumption ==
    /\ MaxLate \in Nat
    /\ Modulus \in Nat \ {0}
    /\ Timeouts \subseteq Nat
    /\ \A d \in Timeouts : 2 * (d + 2 * MaxLate) < Modulus
    /\ NoTimer \notin Nat

VARIABLES
    clock,
    level,      \* of each line
    exti,       \* the lines whose interrupt is pending
    owner,      \* el_listener of all listeners: the thread that called dio_init
    epending,   \* p_epending of each thread
    timer,      \* the ticks before the timer of a thread expires
    pc, call,   \* where a caller is in which wait; "true" and "false" are its result
    deadline,
    delay,      \* the time it is about to sleep
    due,        \* history: ticks before the time of the wait is over
    late,       \* the ticks a thread has waited for the processor
    signalled   \* history: 1 when an event arrived during the wait

lines == <<level, exti, owner>>
times == <<deadline, delay, due, late, signalled>>
vars == <<clock, lines, epending, timer, pc, call, times>>

\* The waits the stack can ask for: wait_dion, wait_dion_timeout, wait_message.
\* The macros of dio.h:46-57 wait for TRUE on the lines with a rising edge.
Calls ==
    [kind : {"timed", "forever"}, line : Lines \ Rising, value : {0, 1}]
      \cup [kind : {"timed", "forever"}, line : Rising, value : {1}]
      \cup [kind : {"message"}]

Init ==
    /\ clock \in 0 .. Modulus - 1
    /\ level \in [Lines -> {0, 1}]
    /\ exti = {}
    /\ owner \in Threads
    /\ epending = [t \in Threads |-> {}]
    /\ timer = [t \in Callers |-> NoTimer]
    /\ pc = [t \in Callers |-> "true"]
    /\ call \in [Callers -> {[kind |-> "message"]}]
    /\ deadline = [t \in Callers |-> 0]
    /\ delay = [t \in Callers |-> 0]
    /\ due = [t \in Callers |-> 0]
    /\ late = [t \in Callers |-> 0]
    /\ signalled = [t \in Callers |-> 0]

\* The events a thread waits for, and what it waits for on the lines.
Mask(c) == IF c.kind = "message" THEN Message ELSE {c.line}

Idle(t) == pc[t] \in {"true", "false"}

Satisfied(c) ==
    IF c.kind = "message" THEN \E l \in Message : level[l] = 1
                          ELSE level[c.line] = c.value

----------------------------------------------------------------------------
(* The lines and their interrupts *)

\* Mutation: DIO1 to DIO4 configured like DIO0 and DIO5.
MutLatched(l) == level'[l] = 1

\* The EXTI latches the edges it is configured for (extcfg).
Latched(l) == l \in Rising => level'[l] = 1

Edge(l) ==
    /\ level' = [level EXCEPT ![l] = 1 - @]
    /\ exti' = IF Latched(l) THEN exti \cup {l} ELSE exti
    /\ UNCHANGED <<clock, owner, epending, timer, pc, call, times>>

\* Mutation: chEvtSignalI without p_epending |= mask.
MutSignal(l) == epending' = epending

\* chEvtSignalI
Signal(l) == epending' = [epending EXCEPT ![owner] = @ \cup {l}]

\* dioncb: the listener is signalled, and made ready if it sleeps for this event.
Isr(l) ==
    /\ l \in exti
    /\ exti' = exti \ {l}
    /\ Signal(l)
    /\ pc' = [t \in Callers |-> IF t = owner /\ pc[t] = "asleep" /\ l \in Mask(call[t])
                                 THEN "awake" ELSE pc[t]]
    /\ signalled' = [t \in Callers |-> IF t = owner /\ ~Idle(t) THEN 1 ELSE signalled[t]]
    /\ UNCHANGED <<clock, level, owner, timer, call, deadline, delay, due, late>>

Runnable(t) == ~Idle(t) /\ pc[t] # "asleep"

Sooner(n) == IF n = 0 THEN 0 ELSE n - 1

\* chVTDoTickI.  The callback wakeup leaves a thread alone that an event has
\* made ready before.
Tick ==
    /\ \A t \in Callers : Runnable(t) => late[t] < MaxLate
    /\ clock' = (clock + 1) % Modulus
    /\ timer' = [t \in Callers |-> IF timer[t] \in {NoTimer, 1} THEN NoTimer ELSE timer[t] - 1]
    /\ pc' = [t \in Callers |-> IF pc[t] = "asleep" /\ timer[t] = 1 THEN "check" ELSE pc[t]]
    /\ due' = [t \in Callers |-> Sooner(due[t])]
    /\ late' = [t \in Callers |-> IF Runnable(t) THEN late[t] + 1 ELSE late[t]]
    /\ UNCHANGED <<lines, epending, call, deadline, delay, signalled>>

----------------------------------------------------------------------------
(* The waits *)

\* A call begins, or goes on, or returns; its variables are gone then.
Begin(t, c, last, sleep, left) ==
    /\ call' = [call EXCEPT ![t] = c]
    /\ deadline' = [deadline EXCEPT ![t] = last]
    /\ delay' = [delay EXCEPT ![t] = sleep]
    /\ due' = [due EXCEPT ![t] = left]
    /\ UNCHANGED <<late, signalled>>

Goto(t, where) ==
    /\ pc' = [pc EXCEPT ![t] = where]
    /\ UNCHANGED <<call, deadline, due, signalled>>

Return(t, value) ==
    /\ pc' = [pc EXCEPT ![t] = value]
    /\ deadline' = [deadline EXCEPT ![t] = 0]
    /\ delay' = [delay EXCEPT ![t] = 0]
    /\ due' = [due EXCEPT ![t] = 0]
    /\ late' = [late EXCEPT ![t] = 0]
    /\ signalled' = [signalled EXCEPT ![t] = 0]
    /\ UNCHANGED call

\* wait_dion: a line that has the value already ends the wait at once, which
\* changes nothing.
WaitDio(t, c) ==
    /\ Idle(t) /\ c.kind = "forever" /\ ~Satisfied(c)
    /\ pc' = [pc EXCEPT ![t] = "sleep"]
    /\ Begin(t, c, 0, 0, 0)
    /\ UNCHANGED <<clock, lines, epending, timer>>

\* Mutation: the deadline is not a systime_t.
MutDeadline(timeout) == clock + timeout

Deadline(timeout) == (clock + timeout) % Modulus

\* wait_dion_timeout, after the first look at the line.
WaitDioTimeout(t, c, timeout) ==
    /\ Idle(t) /\ c.kind = "timed" /\ ~Satisfied(c)
    /\ pc' = [pc EXCEPT ![t] = "loop"]
    /\ Begin(t, c, Deadline(timeout), 0, timeout)
    /\ UNCHANGED <<clock, lines, epending, timer>>

\* Mutation: events of earlier edges are not cleared.
MutCleared(t) == epending' = epending

\* chEvtGetAndClearEvents
Cleared(t) == epending' = [epending EXCEPT ![t] = @ \ Message]

WaitMessage(t, timeout) ==
    /\ Idle(t)
    /\ Cleared(t)
    /\ pc' = [pc EXCEPT ![t] = "look"]
    /\ Begin(t, [kind |-> "message"], 0, timeout, timeout)
    /\ UNCHANGED <<clock, lines, timer>>

Look(t) ==
    /\ pc[t] = "look"
    /\ IF Satisfied(call[t]) THEN Return(t, "true")
                             ELSE Goto(t, "sleep") /\ UNCHANGED <<delay, late>>
    /\ UNCHANGED <<clock, lines, epending, timer>>

\* Mutation: the time left is not a signed difference.
MutLeft(t) == deadline[t] - clock

\* int32_t delay = deadline - chTimeNow()
Left(t) == LET d == (deadline[t] - clock) % Modulus
           IN  IF 2 * d < Modulus THEN d ELSE d - Modulus

Loop(t) ==
    /\ pc[t] = "loop"
    /\ IF Left(t) > 0
         THEN /\ Goto(t, "sleep")
              /\ delay' = [delay EXCEPT ![t] = Left(t)]
              /\ UNCHANGED late
         ELSE Return(t, "false")
    /\ UNCHANGED <<clock, lines, epending, timer>>

\* chEvtWaitOne, chEvtWaitOneTimeout, chEvtWaitAnyTimeout: with an event
\* pending, or with TIME_IMMEDIATE, the thread goes on, else it sleeps.
Sleep(t) ==
    /\ pc[t] = "sleep"
    /\ LET go == \/ epending[t] \cap Mask(call[t]) # {}
                 \/ call[t].kind = "message" /\ delay[t] = 0
       IN  /\ Goto(t, IF go THEN "check" ELSE "asleep")
           /\ timer' = [timer EXCEPT ![t] = IF go \/ call[t].kind = "forever" THEN NoTimer
                                            ELSE delay[t]]
    /\ epending' = [epending EXCEPT ![t] = @ \ Mask(call[t])]
    /\ delay' = [delay EXCEPT ![t] = 0]
    /\ late' = [late EXCEPT ![t] = 0]
    /\ UNCHANGED <<clock, lines>>

\* The thread runs again after an event: it takes the event, its timer is reset.
Resume(t) ==
    /\ pc[t] = "awake"
    /\ Goto(t, "check")
    /\ epending' = [epending EXCEPT ![t] = @ \ Mask(call[t])]
    /\ timer' = [timer EXCEPT ![t] = NoTimer]
    /\ UNCHANGED <<clock, lines, delay, late>>

\* Where a wait goes on after a look at the lines in vain.
Again(c) == IF c.kind = "forever" THEN "sleep" ELSE IF c.kind = "timed" THEN "loop" ELSE "false"

Check(t) ==
    /\ pc[t] = "check"
    /\ LET to == IF Satisfied(call[t]) THEN "true" ELSE Again(call[t])
       IN  IF to \in {"true", "false"} THEN Return(t, to)
                                       ELSE Goto(t, to) /\ UNCHANGED <<delay, late>>
    /\ UNCHANGED <<clock, lines, epending, timer>>

----------------------------------------------------------------------------
InWait(t) == Look(t) \/ Loop(t) \/ Sleep(t) \/ Resume(t) \/ Check(t)

Next ==
    \/ Tick
    \/ \E l \in Lines : Edge(l) \/ Isr(l)
    \/ \E t \in Callers :
         \/ \E c \in Calls : WaitDio(t, c)
         \/ \E c \in Calls, d \in Timeouts : WaitDioTimeout(t, c, d)
         \/ \E d \in Timeouts : WaitMessage(t, d)
         \/ InWait(t)

Spec == Init /\ [][Next]_vars

\* The clock goes on whatever interrupts come, interrupts are served, a thread
\* that can run gets to run.
FairSpec ==
    /\ Spec
    /\ SF_vars(Tick)
    /\ \A l \in Lines : WF_vars(Isr(l))
    /\ \A t \in Callers : WF_vars(InWait(t))

----------------------------------------------------------------------------
(* Properties *)

\* Every variable keeps its type: no timer is set for no time, which chVTSetI
\* does not allow (chvt.c:72-73).
TypeOK ==
    /\ clock \in 0 .. Modulus - 1
    /\ level \in [Lines -> {0, 1}]
    /\ exti \subseteq Lines
    /\ owner \in Threads
    /\ epending \in [Threads -> SUBSET Lines]
    /\ timer \in [Callers -> (Nat \ {0}) \cup {NoTimer}]
    /\ pc \in [Callers -> {"true", "false", "look", "loop", "sleep", "asleep", "awake", "check"}]
    /\ call \in [Callers -> Calls]
    /\ deadline \in [Callers -> 0 .. Modulus - 1]
    /\ {delay, due, late} \subseteq [Callers -> Nat]
    /\ signalled \in [Callers -> {0, 1}]

\* No edge is lost between the look at a line and the sleep (dio.c:130-131,
\* 140-142): when the listener sleeps although its line has the value it waits
\* for, the interrupt that will wake it is pending.
NoLostWakeup ==
    \A t \in Callers :
        t = owner /\ pc[t] = "asleep" /\ Satisfied(call[t]) => Mask(call[t]) \cap exti # {}

GivesUp(t) == ~Idle(t) /\ pc'[t] = "false"

\* wait_dion_timeout gives up only when its time is over, also when the clock
\* has wrapped meanwhile; and when the line of the listener has come by then,
\* it came after the last look at it, and its event is still pending
\* (dio.c:136-145).
GivesUpRightly == [][
    \A t \in Callers : GivesUp(t) /\ call[t].kind = "timed" =>
        /\ due[t] = 0
        /\ t = owner /\ Satisfied(call[t]) => call[t].line \in exti \cup epending[t]]_vars

\* wait_message returns FALSE before its time only after an event that came
\* while it waited (dio.h:169-176): what happened before is cleared.
QuietUntilTimeout == [][
    \A t \in Callers : GivesUp(t) /\ call[t].kind = "message" =>
        due[t] = 0 \/ signalled[t] = 1]_vars

\* Every wait with a timeout returns, in whichever thread (dio.c:140), and the
\* listener returns from a wait without one if the line keeps the value
\* (dio.c:130).
WaitsEnd ==
    \A t \in Callers :
        /\ (~Idle(t) /\ call[t].kind # "forever") ~> Idle(t)
        /\ (~Idle(t) /\ t = owner /\ Satisfied(call[t]))
             ~> (Idle(t) \/ ~Satisfied(call[t]))

=============================================================================
