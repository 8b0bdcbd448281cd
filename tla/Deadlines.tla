----------------------------- MODULE Deadlines -----------------------------
(***************************************************************************)
(* Two loops that compare a deadline with a clock that wraps: sleepUntil   *)
(* (sleep_until.c), which a thread calls once a period, and rsvp           *)
(* (bg_frame.c:119-149), which sends background frames until its deadline. *)
(*                                                                         *)
(* One thread runs one of them.  clock does not wrap; the code reads it as *)
(* a systime_t (Now).                                                      *)
(***************************************************************************)
EXTENDS TimeUnits

CONSTANTS
    Bases,          \* systime_t when the thread starts
    Periods,        \* of sleepUntil
    Works,          \* ticks between two calls of sleepUntil
    Goals,          \* ticks from the call of rsvp to its deadline
    Holds,          \* ticks data_proc_config takes
    Airs,           \* ticks a background frame takes
    MaxLate,        \* ticks a thread wakes up late
    MaxCalls        \* bound of the instance

ASSUME DeadlineAssumption ==
    /\ Bases \subseteq Nat /\ Works \subseteq Nat /\ Goals \subseteq Nat
    /\ Holds \subseteq Nat /\ Airs \subseteq Nat \ {0}
    /\ Periods \subseteq 0 .. Modulus - 1
    /\ MaxLate \in Nat /\ MaxCalls \in Nat

VARIABLES
    clock, base, pc,
    period, previous,   \* the arguments of sleepUntil
    end, now,           \* of rsvp
    time,               \* of bg_param_t, in the last frame
    due,                \* history: the deadline on the clock that does not wrap
    called,             \* history: the moment of the last call
    calls

arguments == <<period, base>>
vars == <<clock, pc, arguments, previous, end, now, time, due, called, calls>>

INFINITE == Modulus - 1

Now == (clock + base) % Modulus

Init ==
    /\ clock = 0 /\ called = 0 /\ calls = 0 /\ time = 0
    /\ base \in Bases /\ period \in Periods
    /\ previous = Now
    /\ \/ pc = "work" /\ due = 0 /\ end = 0 /\ now = 0
       \/ pc = "rsvp" /\ due \in Goals /\ end = (due + base) % Modulus /\ now = 0

----------------------------------------------------------------------------
(* sleepUntil *)

Work ==
    /\ pc = "work" /\ calls < MaxCalls
    /\ \E work \in Works : clock' = clock + work
    /\ pc' = "call" /\ called' = clock' /\ calls' = calls + 1
    /\ UNCHANGED <<arguments, previous, end, now, time, due>>

Future == (previous + period) % Modulus

\* Mutation: the wrap of the deadline is forgotten.
MutMustDelay == Now < Future

MustDelay ==
    IF Now < previous THEN Now < Future /\ Future < previous
                      ELSE Now < Future \/ Future < previous

\* chThdSleepS
Slept(delay) ==
    IF delay = INFINITE
      THEN pc' = "forever" /\ UNCHANGED clock
      ELSE pc' = "work" /\ \E late \in 0 .. MaxLate : clock' = clock + delay + late

SleepUntil ==
    /\ pc = "call"
    /\ \/ MustDelay /\ Slept((Future - Now) % Modulus)
       \/ ~MustDelay /\ pc' = "work" /\ UNCHANGED clock
    /\ previous' = Future
    /\ due' = due + period
    /\ UNCHANGED <<arguments, end, now, time, called, calls>>

----------------------------------------------------------------------------
(* rsvp *)

Configure ==
    /\ pc = "rsvp"
    /\ \E hold \in Holds : clock' = clock + hold
    /\ now' = (clock' + base) % Modulus
    /\ called' = clock'
    /\ pc' = "flood"
    /\ UNCHANGED <<arguments, previous, end, time, due, calls>>

\* Mutation: the frame announces the deadline.
MutAnnounced == Ti(end)

Announced == Ti((end - now) % Modulus)

Flood ==
    /\ pc = "flood" /\ now < end /\ calls < MaxCalls
    /\ time' = Announced
    /\ called' = clock
    /\ \E air \in Airs : clock' = clock + air
    /\ now' = (clock' + base) % Modulus
    /\ calls' = calls + 1
    /\ UNCHANGED <<pc, arguments, previous, end, due>>

\* data_proc_config once more.
Return ==
    /\ pc = "flood" /\ now >= end
    /\ pc' = "returned"
    /\ UNCHANGED <<clock, arguments, previous, end, now, time, due, called, calls>>

Next == Work \/ SleepUntil \/ Configure \/ Flood \/ Return

Spec == Init /\ [][Next]_vars

----------------------------------------------------------------------------
(* Properties *)

\* Every reading of the clock stays below a turn, whatever is added to it.
TypeOK ==
    /\ {clock, due, called, calls, time} \subseteq Nat
    /\ base \in Bases /\ period \in Periods
    /\ {previous, end, now} \subseteq 0 .. Modulus - 1
    /\ pc \in {"work", "call", "forever", "rsvp", "flood", "returned"}

Turn(moment) == (moment + base) \div Modulus

\* A thread that is late by less than a turn of the clock waits for the end of
\* its period if it calls before it, and not at all if it calls after it,
\* wherever the clock wraps (sleep_until.c:11-15).
OnTheGrid == [][
    SleepUntil /\ pc' = "work" /\ clock - due < Modulus =>
        IF clock < due' THEN due' <= clock' /\ clock' <= due' + MaxLate
                        ELSE clock' = clock]_vars

\* rsvp sends as long as its deadline has not come and no longer, and each
\* frame announces the deadline to a tick, unless the clock wraps before the
\* last frame is sent or the rest does not fit the time of a frame
\* (bg_frame.c:133-135, conf.h:36-39).
FloodsUntilEnd == [][
    /\ Flood /\ Turn(clock') = Turn(0) /\ Turn(due) = Turn(0) =>
        /\ clock < due
        /\ (due - clock) * 1000 < TiModulus * 977 /\ (due - clock) * 1000 < Modulus =>
              Systime(time') \in {due - clock - 1, due - clock}
    /\ Return /\ Turn(clock) = Turn(0) /\ Turn(due) = Turn(0) => due <= clock]_vars

=============================================================================
