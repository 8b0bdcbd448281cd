--------------------------- MODULE DioWaitProofs ---------------------------
(***************************************************************************)
(* Theorems about DioWait, for any number of threads and lines, all        *)
(* timeouts and every width of the clock.                                  *)
(***************************************************************************)
EXTENDS DioWait, TLAPS

\* An edge that has not been looked at is on its way to the listener.
OnItsWay(t) == Mask(call[t]) \cap (exti \cup epending[t]) # {}

WatchInv ==
    \A t \in Callers :
        t = owner /\ pc[t] \in {"loop", "sleep", "asleep"} /\ Satisfied(call[t]) => OnItsWay(t)

\* A thread does not sleep with an event for it.
AsleepInv ==
    \A t \in Callers : pc[t] = "asleep" => Mask(call[t]) \cap epending[t] = {}

\* The deadline is as far ahead, round the wrap, as the time that is left.
TimeInv ==
    \A t \in Callers : ~Idle(t) /\ call[t].kind = "timed" =>
        /\ 2 * due[t] < Modulus
        /\ due[t] > 0 => (deadline[t] - clock) % Modulus = due[t]

\* Which function a place is in; wait_dion_timeout sleeps for some time.
DelayInv ==
    \A t \in Callers :
        /\ pc[t] = "look" => call[t].kind = "message"
        /\ pc[t] = "loop" => call[t].kind = "timed"
        /\ pc[t] = "sleep" /\ call[t].kind = "timed" => delay[t] > 0

\* What ends wait_message before its time has come since it began.
QuietInv ==
    \A t \in Callers : call[t].kind = "message" =>
        /\ pc[t] \in {"look", "sleep"} =>
             due[t] <= delay[t] /\ (epending[t] \cap Message # {} => signalled[t] = 1)
        /\ pc[t] = "asleep" => timer[t] \in Nat /\ due[t] <= timer[t]
        /\ pc[t] = "awake" => signalled[t] = 1
        /\ pc[t] = "check" => due[t] = 0 \/ signalled[t] = 1

IInv == TypeOK /\ DelayInv /\ WatchInv /\ AsleepInv /\ TimeInv /\ QuietInv

----------------------------------------------------------------------------
(* Arithmetic modulo Modulus *)

LEMMA Wrapped ==
    ASSUME NEW x \in Int
    PROVE  /\ x % Modulus \in 0 .. Modulus - 1
           /\ x \in 0 .. Modulus - 1 => x % Modulus = x
           /\ x \in -Modulus .. -1 => x % Modulus = x + Modulus
           /\ x \in Modulus .. 2 * Modulus - 1 => x % Modulus = x - Modulus
BY TimesAssumption

LEMMA Ahead ==
    ASSUME NEW c \in 0 .. Modulus - 1, NEW n \in 0 .. Modulus - 1
    PROVE  (((c + n) % Modulus) - c) % Modulus = n
<1>1. CASE c + n < Modulus
  <2>1. (c + n) % Modulus = c + n
    BY <1>1, Wrapped, TimesAssumption
  <2>2. c + n - c = n /\ n % Modulus = n
    BY Wrapped, TimesAssumption
  <2> QED
    BY <2>1, <2>2
<1>2. CASE c + n >= Modulus
  <2>1. (c + n) % Modulus = c + n - Modulus
    BY <1>2, Wrapped, TimesAssumption
  <2>2. (n - Modulus) % Modulus = n
    BY Wrapped, TimesAssumption
  <2> QED
    BY <2>1, <2>2, TimesAssumption
<1> QED
  BY <1>1, <1>2, TimesAssumption

LEMMA Nearer ==
    ASSUME NEW c \in 0 .. Modulus - 1, NEW d \in 0 .. Modulus - 1,
           (d - c) % Modulus > 0
    PROVE  (d - ((c + 1) % Modulus)) % Modulus = ((d - c) % Modulus) - 1
<1>1. CASE d > c
  <2>1. (d - c) % Modulus = d - c
    BY <1>1, Wrapped, TimesAssumption
  <2>2. (c + 1) % Modulus = c + 1
    BY <1>1, Wrapped, TimesAssumption
  <2> QED
    BY <1>1, <2>1, <2>2, Wrapped, TimesAssumption
<1>2. CASE d < c /\ c + 1 < Modulus
  <2>0. /\ d - c \in Int /\ d - c \in -Modulus .. -1
        /\ c + 1 \in Int /\ c + 1 \in 0 .. Modulus - 1
        /\ d - (c + 1) \in Int /\ d - (c + 1) \in -Modulus .. -1
    BY <1>2, TimesAssumption
  <2>1. (d - c) % Modulus = d - c + Modulus
    BY <2>0, Wrapped
  <2>2. (c + 1) % Modulus = c + 1
    BY <2>0, Wrapped
  <2>3. (d - (c + 1)) % Modulus = d - (c + 1) + Modulus
    BY <2>0, Wrapped
  <2> QED
    BY <2>1, <2>2, <2>3, TimesAssumption
<1>3. CASE d < c /\ c + 1 = Modulus
  <2>1. (d - c) % Modulus = d - c + Modulus
    BY <1>3, Wrapped, TimesAssumption
  <2>2. (c + 1) % Modulus = 0
    BY <1>3, Wrapped, TimesAssumption
  <2>3. d % Modulus = d
    BY Wrapped, TimesAssumption
  <2> QED
    BY <1>3, <2>1, <2>2, <2>3, TimesAssumption
<1>4. CASE d = c
  BY <1>4, Wrapped, TimesAssumption
<1> QED
  BY <1>1, <1>2, <1>3, <1>4, TimesAssumption

----------------------------------------------------------------------------
(* The invariant *)

LEMMA InitInv == Init => IInv
<1> SUFFICES ASSUME Init PROVE IInv
  OBVIOUS
<1>1. [kind |-> "message"] \in Calls
  BY DEF Calls
<1>2. TypeOK
  BY <1>1, TimesAssumption DEF Init, TypeOK
<1> QED
  BY <1>2 DEF Init, IInv, DelayInv, WatchInv, AsleepInv, TimeInv, QuietInv, Idle

LEMMA TypeStep ==
    ASSUME TypeOK, DelayInv, Next
    PROVE  TypeOK'
<1> USE DEF TypeOK, lines, times
<1>1. ASSUME NEW l \in Lines, Edge(l) PROVE TypeOK'
  BY <1>1 DEF Edge
<1>2. ASSUME NEW l \in Lines, Isr(l) PROVE TypeOK'
  BY <1>2 DEF Isr, Signal
<1>3. CASE Tick
  <2>1. clock' \in 0 .. Modulus - 1
    BY <1>3, Wrapped, TimesAssumption DEF Tick
  <2>2. timer' \in [Callers -> (Nat \ {0}) \cup {NoTimer}]
    <3> SUFFICES ASSUME NEW t \in Callers
                 PROVE  (IF timer[t] \in {NoTimer, 1} THEN NoTimer ELSE timer[t] - 1)
                            \in (Nat \ {0}) \cup {NoTimer}
      BY <1>3 DEF Tick
    <3>1. timer[t] \in (Nat \ {0}) \cup {NoTimer}
      OBVIOUS
    <3> QED
      BY <3>1, TimesAssumption
  <2>3. due' \in [Callers -> Nat]
    BY <1>3 DEF Tick, Sooner
  <2>4. late' \in [Callers -> Nat]
    BY <1>3 DEF Tick
  <2>5. pc' \in [Callers -> {"true", "false", "look", "loop", "sleep", "asleep", "awake", "check"}]
    BY <1>3 DEF Tick
  <2> QED
    BY <1>3, <2>1, <2>2, <2>3, <2>4, <2>5 DEF Tick
<1>4. ASSUME NEW t \in Callers, NEW c \in Calls, WaitDio(t, c) PROVE TypeOK'
  BY <1>4, TimesAssumption DEF WaitDio, Begin
<1>5. ASSUME NEW t \in Callers, NEW c \in Calls, NEW d \in Timeouts, WaitDioTimeout(t, c, d)
      PROVE TypeOK'
  <2>1. d \in Nat /\ Deadline(d) \in 0 .. Modulus - 1
    BY Wrapped, TimesAssumption DEF Deadline
  <2> QED
    BY <1>5, <2>1 DEF WaitDioTimeout, Begin
<1>6. ASSUME NEW t \in Callers, NEW d \in Timeouts, WaitMessage(t, d) PROVE TypeOK'
  <2>1. d \in Nat /\ [kind |-> "message"] \in Calls
    BY TimesAssumption DEF Calls
  <2>2. epending' \in [Threads -> SUBSET Lines]
    BY <1>6 DEF WaitMessage, Cleared
  <2> QED
    BY <1>6, <2>1, <2>2, TimesAssumption DEF WaitMessage, Begin
<1>7. ASSUME NEW t \in Callers, Look(t) PROVE TypeOK'
  BY <1>7, TimesAssumption DEF Look, Return, Goto
<1>8. ASSUME NEW t \in Callers, Loop(t) PROVE TypeOK'
  <2>0. deadline[t] - clock \in Int
    OBVIOUS
  <2>1. Left(t) \in Int
    BY <2>0, Wrapped, TimesAssumption DEF Left
  <2> QED
    BY <1>8, <2>1, TimesAssumption DEF Loop, Return, Goto
<1>9. ASSUME NEW t \in Callers, Sleep(t) PROVE TypeOK'
  <2> DEFINE armed == \/ epending[t] \cap Mask(call[t]) # {}
                      \/ call[t].kind = "message" /\ delay[t] = 0
                      \/ call[t].kind = "forever"
  <2>1. call[t].kind \in {"timed", "forever", "message"}
    BY DEF Calls
  <2>2. timer' = [timer EXCEPT ![t] = IF armed THEN NoTimer ELSE delay[t]]
    BY <1>9 DEF Sleep
  <2>3. ~armed => delay[t] \in Nat \ {0}
    BY <1>9, <2>1 DEF Sleep, DelayInv
  <2> HIDE DEF armed
  <2>4. timer' \in [Callers -> (Nat \ {0}) \cup {NoTimer}]
    BY <2>2, <2>3
  <2>5. pc' = [pc EXCEPT ![t] = "check"] \/ pc' = [pc EXCEPT ![t] = "asleep"]
    BY <1>9 DEF Sleep, Goto
  <2>6. epending' \in [Threads -> SUBSET Lines]
    BY <1>9 DEF Sleep
  <2> QED
    BY <1>9, <2>4, <2>5, <2>6 DEF Sleep, Goto
<1>10. ASSUME NEW t \in Callers, Resume(t) PROVE TypeOK'
  BY <1>10 DEF Resume, Goto
<1>11. ASSUME NEW t \in Callers, Check(t) PROVE TypeOK'
  BY <1>11, TimesAssumption DEF Check, Return, Goto, Again
<1> QED
  BY <1>1, <1>2, <1>3, <1>4, <1>5, <1>6, <1>7, <1>8, <1>9, <1>10, <1>11 DEF Next, InWait

\* What a step of one caller leaves alone of the others.
LEMMA Others ==
    ASSUME TypeOK, NEW t \in Callers, NEW u \in Callers \ {t},
           \/ InWait(t)
           \/ \E c \in Calls : WaitDio(t, c)
           \/ \E c \in Calls, d \in Timeouts : WaitDioTimeout(t, c, d)
           \/ \E d \in Timeouts : WaitMessage(t, d)
    PROVE  /\ UNCHANGED <<clock, level, exti, owner>>
           /\ pc'[u] = pc[u] /\ call'[u] = call[u] /\ epending'[u] = epending[u]
           /\ deadline'[u] = deadline[u] /\ delay'[u] = delay[u] /\ due'[u] = due[u]
           /\ timer'[u] = timer[u] /\ signalled'[u] = signalled[u]
<1> USE DEF TypeOK, lines, Goto, Return, Begin
<1>1. CASE Look(t)
  BY <1>1 DEF Look
<1>2. CASE Loop(t)
  BY <1>2 DEF Loop
<1>3. CASE Sleep(t)
  BY <1>3, ThreadsAssumption DEF Sleep
<1>4. CASE Resume(t)
  BY <1>4, ThreadsAssumption DEF Resume
<1>5. CASE Check(t)
  BY <1>5 DEF Check
<1>6. CASE \E c \in Calls : WaitDio(t, c)
  BY <1>6 DEF WaitDio
<1>7. CASE \E c \in Calls, d \in Timeouts : WaitDioTimeout(t, c, d)
  BY <1>7 DEF WaitDioTimeout
<1>8. CASE \E d \in Timeouts : WaitMessage(t, d)
  BY <1>8, ThreadsAssumption DEF WaitMessage, Cleared
<1> QED
  BY <1>1, <1>2, <1>3, <1>4, <1>5, <1>6, <1>7, <1>8 DEF InWait

LEMMA DelayStep ==
    ASSUME TypeOK, DelayInv, Next
    PROVE  DelayInv'
<1> DEFINE Ok(u) == /\ pc[u] = "look" => call[u].kind = "message"
                    /\ pc[u] = "loop" => call[u].kind = "timed"
                    /\ pc[u] = "sleep" /\ call[u].kind = "timed" => delay[u] > 0
<1> SUFFICES ASSUME NEW u \in Callers PROVE Ok(u)'
  BY DEF DelayInv
<1> USE DEF TypeOK, lines, Goto, Return, Begin
<1>1. ASSUME NEW l \in Lines, Edge(l) PROVE Ok(u)'
  BY <1>1 DEF Edge, DelayInv, times
<1>2. ASSUME NEW l \in Lines, Isr(l) PROVE Ok(u)'
  BY <1>2 DEF Isr, DelayInv
<1>3. CASE Tick
  BY <1>3 DEF Tick, DelayInv
<1>4. ASSUME NEW t \in Callers, t # u,
             \/ InWait(t)
             \/ \E c \in Calls : WaitDio(t, c)
             \/ \E c \in Calls, d \in Timeouts : WaitDioTimeout(t, c, d)
             \/ \E d \in Timeouts : WaitMessage(t, d)
      PROVE  Ok(u)'
  <2>1. pc'[u] = pc[u] /\ call'[u] = call[u] /\ delay'[u] = delay[u]
    BY <1>4, Others
  <2> QED
    BY <2>1 DEF DelayInv
<1>5. CASE Look(u)
  BY <1>5 DEF Look, DelayInv
<1>6. CASE Loop(u)
  BY <1>6 DEF Loop, DelayInv
<1>7. CASE Sleep(u)
  BY <1>7 DEF Sleep
<1>8. CASE Resume(u)
  BY <1>8 DEF Resume
<1>9. CASE Check(u)
  BY <1>9 DEF Check, Again, DelayInv
<1>10. CASE \E c \in Calls : WaitDio(u, c)
  BY <1>10 DEF WaitDio
<1>11. CASE \E c \in Calls, d \in Timeouts : WaitDioTimeout(u, c, d)
  BY <1>11 DEF WaitDioTimeout
<1>12. CASE \E d \in Timeouts : WaitMessage(u, d)
  BY <1>12 DEF WaitMessage
<1> QED
  BY <1>1, <1>2, <1>3, <1>4, <1>5, <1>6, <1>7, <1>8, <1>9, <1>10, <1>11, <1>12
     DEF Next, InWait

LEMMA AsleepStep ==
    ASSUME TypeOK, AsleepInv, Next
    PROVE  AsleepInv'
<1> SUFFICES ASSUME NEW u \in Callers, pc'[u] = "asleep"
             PROVE  Mask(call'[u]) \cap epending'[u] = {}
  BY DEF AsleepInv, Mask
<1> DEFINE Goal == Mask(call'[u]) \cap epending'[u] = {}
<1> USE DEF TypeOK, lines, Goto, Return, Begin
<1>1. ASSUME NEW l \in Lines, Edge(l) PROVE Goal
  BY <1>1 DEF Edge, AsleepInv, times
<1>2. ASSUME NEW l \in Lines, Isr(l) PROVE Goal
  <2>1. pc[u] = "asleep" /\ (u = owner => l \notin Mask(call[u])) /\ call'[u] = call[u]
    BY <1>2 DEF Isr
  <2>2. epending'[u] = IF u = owner THEN epending[u] \cup {l} ELSE epending[u]
    BY <1>2, ThreadsAssumption DEF Isr, Signal
  <2> QED
    BY <2>1, <2>2 DEF AsleepInv
<1>3. CASE Tick
  BY <1>3 DEF Tick, AsleepInv
<1>4. ASSUME NEW t \in Callers, t # u,
             \/ InWait(t)
             \/ \E c \in Calls : WaitDio(t, c)
             \/ \E c \in Calls, d \in Timeouts : WaitDioTimeout(t, c, d)
             \/ \E d \in Timeouts : WaitMessage(t, d)
      PROVE  Goal
  <2>1. pc'[u] = pc[u] /\ call'[u] = call[u] /\ epending'[u] = epending[u]
    BY <1>4, Others
  <2> QED
    BY <2>1 DEF AsleepInv
<1>5. CASE Sleep(u)
  BY <1>5, ThreadsAssumption DEF Sleep
<1>6. ASSUME \/ Look(u) \/ Loop(u) \/ Resume(u) \/ Check(u)
             \/ \E c \in Calls : WaitDio(u, c)
             \/ \E c \in Calls, d \in Timeouts : WaitDioTimeout(u, c, d)
             \/ \E d \in Timeouts : WaitMessage(u, d)
      PROVE  pc'[u] # "asleep"
  BY <1>6 DEF Look, Loop, Resume, Check, Again, WaitDio, WaitDioTimeout, WaitMessage
<1> QED
  BY <1>1, <1>2, <1>3, <1>4, <1>5, <1>6 DEF Next, InWait

\* A line that comes to the value waited for is latched.
LEMMA EdgeLatched ==
    ASSUME TypeOK, NEW c \in Calls, NEW l \in Lines, Edge(l), ~Satisfied(c), Satisfied(c)'
    PROVE  l \in Mask(c) /\ l \in exti'
<1>1. level' = [level EXCEPT ![l] = 1 - @]
  BY DEF Edge
<1>2. CASE c.kind = "message"
  <2>1. PICK m \in Message : level'[m] = 1 /\ level[m] # 1
    BY <1>2 DEF Satisfied
  <2>2. m = l /\ level'[l] = 1
    BY <2>1, <1>1, LinesAssumption DEF TypeOK
  <2> QED
    BY <1>2, <2>1, <2>2 DEF Mask, Edge, Latched
<1>3. CASE c.kind # "message"
  <2>1. c.line \in Lines /\ (c.line \in Rising => c.value = 1)
    BY <1>3, LinesAssumption DEF Calls
  <2>2. level'[c.line] = c.value /\ level[c.line] # c.value
    BY <1>3 DEF Satisfied
  <2>3. c.line = l
    BY <1>1, <2>1, <2>2 DEF TypeOK
  <2> QED
    BY <1>3, <2>1, <2>2, <2>3 DEF Mask, Edge, Latched
<1> QED
  BY <1>2, <1>3

LEMMA WatchStep ==
    ASSUME IInv, Next
    PROVE  WatchInv'
<1> SUFFICES ASSUME NEW u \in Callers, u = owner', pc'[u] \in {"loop", "sleep", "asleep"},
                    Satisfied(call[u])'
             PROVE  OnItsWay(u)'
  BY DEF WatchInv
<1> USE DEF IInv, TypeOK, lines, Goto, Return, Begin
<1> DEFINE Before == pc[u] \in {"loop", "sleep", "asleep"} /\ Satisfied(call[u])
<1>0. u \in Threads /\ u = owner
  BY ThreadsAssumption DEF Next, InWait, Edge, Isr, Tick, Look, Loop, Sleep, Resume, Check,
     WaitDio, WaitDioTimeout, WaitMessage
<1>1. ASSUME NEW l \in Lines, Edge(l) PROVE OnItsWay(u)'
  <2>1. pc'[u] = pc[u] /\ call'[u] = call[u] /\ epending'[u] = epending[u]
        /\ exti \subseteq exti'
    BY <1>1 DEF Edge
  <2>2. CASE Satisfied(call[u])
    BY <1>0, <2>1, <2>2 DEF WatchInv, OnItsWay
  <2>3. CASE ~Satisfied(call[u])
    <3>1. Satisfied(call[u])' <=> (Satisfied(call[u]))'
      OBVIOUS
    <3> DEFINE c == call[u]
    <3>2. c \in Calls /\ c' = c
      BY <2>1
    <3>3. l \in Mask(call[u]) /\ l \in exti'
      BY <1>1, <2>3, <3>2, EdgeLatched DEF Satisfied
    <3> QED
      BY <2>1, <3>3 DEF OnItsWay
  <2> QED
    BY <2>2, <2>3
<1>2. ASSUME NEW l \in Lines, Isr(l) PROVE OnItsWay(u)'
  <2>1. pc'[u] = pc[u] /\ call'[u] = call[u] /\ level' = level
    BY <1>2 DEF Isr
  <2>2. exti' \cup epending'[u] = exti \cup epending[u]
    BY <1>0, <1>2 DEF Isr, Signal
  <2>3. Satisfied(call[u])
    BY <2>1 DEF Satisfied
  <2> QED
    BY <1>0, <2>1, <2>2, <2>3 DEF WatchInv, OnItsWay, Mask
<1>3. CASE Tick
  <2>1. pc[u] = pc'[u] /\ UNCHANGED <<call, level, exti, epending>>
    BY <1>3 DEF Tick
  <2> QED
    BY <1>0, <2>1 DEF WatchInv, OnItsWay, Satisfied, Mask
<1>4. ASSUME NEW t \in Callers, t # u,
             \/ InWait(t)
             \/ \E c \in Calls : WaitDio(t, c)
             \/ \E c \in Calls, d \in Timeouts : WaitDioTimeout(t, c, d)
             \/ \E d \in Timeouts : WaitMessage(t, d)
      PROVE  OnItsWay(u)'
  <2>1. /\ pc'[u] = pc[u] /\ call'[u] = call[u] /\ epending'[u] = epending[u]
        /\ UNCHANGED <<level, exti>>
    BY <1>4, Others
  <2> QED
    BY <1>0, <2>1 DEF WatchInv, OnItsWay, Satisfied, Mask
<1>5. CASE Look(u)
  BY <1>5 DEF Look, Satisfied
<1>6. CASE Loop(u)
  <2>1. pc[u] = "loop" /\ UNCHANGED <<call, level, exti, epending>>
    BY <1>6 DEF Loop
  <2> QED
    BY <1>0, <2>1 DEF WatchInv, OnItsWay, Satisfied, Mask
<1>7. CASE Sleep(u)
  <2>1. /\ pc[u] = "sleep" /\ UNCHANGED <<call, level, exti>>
        /\ Mask(call[u]) \cap epending[u] = {}
    BY <1>7 DEF Sleep
  <2>2. epending'[u] = epending[u] \ Mask(call[u])
    BY <1>0, <1>7 DEF Sleep
  <2>3. Satisfied(call[u]) /\ Mask(call[u]) \cap exti # {}
    BY <1>0, <2>1 DEF WatchInv, OnItsWay, Satisfied
  <2> QED
    BY <2>1, <2>3 DEF OnItsWay, Mask
<1>8. CASE Resume(u)
  BY <1>8 DEF Resume
<1>9. CASE Check(u)
  BY <1>9 DEF Check, Again, Satisfied
<1>10. CASE \E c \in Calls : WaitDio(u, c)
  BY <1>10 DEF WaitDio, Satisfied
<1>11. CASE \E c \in Calls, d \in Timeouts : WaitDioTimeout(u, c, d)
  BY <1>11 DEF WaitDioTimeout, Satisfied
<1>12. CASE \E d \in Timeouts : WaitMessage(u, d)
  BY <1>12 DEF WaitMessage
<1> QED
  BY <1>1, <1>2, <1>3, <1>4, <1>5, <1>6, <1>7, <1>8, <1>9, <1>10, <1>11, <1>12
     DEF Next, InWait

LEMMA TimeStep ==
    ASSUME IInv, Next
    PROVE  TimeInv'
<1> DEFINE Ok(u) == ~Idle(u) /\ call[u].kind = "timed" =>
                        /\ 2 * due[u] < Modulus
                        /\ due[u] > 0 => (deadline[u] - clock) % Modulus = due[u]
<1> SUFFICES ASSUME NEW u \in Callers PROVE Ok(u)'
  BY DEF TimeInv
<1> USE DEF IInv, TypeOK, lines, Goto, Return, Begin
<1>0. Ok(u)
  BY DEF TimeInv
<1>1. ASSUME NEW l \in Lines, Edge(l) PROVE Ok(u)'
  BY <1>0, <1>1 DEF Edge, Idle, times
<1>2. ASSUME NEW l \in Lines, Isr(l) PROVE Ok(u)'
  <2>1. /\ pc'[u] \in {"true", "false"} => pc[u] = pc'[u]
        /\ pc[u] \in {"true", "false"} => pc[u] = pc'[u]
    BY <1>2 DEF Isr
  <2> QED
    BY <1>0, <1>2, <2>1 DEF Isr, Idle
<1>3. CASE Tick
  <2>1. /\ due'[u] = Sooner(due[u]) /\ clock' = (clock + 1) % Modulus
        /\ deadline'[u] = deadline[u] /\ call'[u] = call[u]
        /\ Idle(u)' => Idle(u)
        /\ Idle(u) => Idle(u)'
    BY <1>3 DEF Tick, Idle
  <2>2. CASE due[u] = 0
    BY <1>0, <2>1, <2>2 DEF Sooner
  <2>3. CASE due[u] > 0 /\ ~Idle(u) /\ call[u].kind = "timed"
    <3>1. due[u] \in Nat /\ deadline[u] \in 0 .. Modulus - 1 /\ clock \in 0 .. Modulus - 1
      OBVIOUS
    <3>2. (deadline[u] - clock) % Modulus = due[u] /\ due'[u] = due[u] - 1
      BY <1>0, <2>1, <2>3, <3>1 DEF Sooner
    <3>3. (deadline[u] - clock') % Modulus = due[u] - 1
      <4>1. (deadline[u] - clock) % Modulus > 0
        BY <2>3, <3>1, <3>2
      <4>2. clock' = (clock + 1) % Modulus
        BY <2>1
      <4> HIDE DEF IInv, TypeOK
      <4>3. (deadline[u] - ((clock + 1) % Modulus)) % Modulus = ((deadline[u] - clock) % Modulus) - 1
        BY <3>1, <4>1, Nearer
      <4>4. (deadline[u] - clock') % Modulus = ((deadline[u] - clock) % Modulus) - 1
        BY <4>2, <4>3, Zenon
      <4>5. ((deadline[u] - clock) % Modulus) - 1 = due[u] - 1
        BY <3>2, Zenon
      <4> QED
        BY <4>4, <4>5, Zenon
    <3>4. 2 * due[u] < Modulus
      BY <1>0, <2>3
    <3> HIDE DEF IInv, TypeOK
    <3> QED
      BY <2>1, <3>1, <3>2, <3>3, <3>4, TimesAssumption
  <2> QED
    BY <2>1, <2>2, <2>3
<1>4. ASSUME NEW t \in Callers, t # u,
             \/ InWait(t)
             \/ \E c \in Calls : WaitDio(t, c)
             \/ \E c \in Calls, d \in Timeouts : WaitDioTimeout(t, c, d)
             \/ \E d \in Timeouts : WaitMessage(t, d)
      PROVE  Ok(u)'
  <2>1. /\ pc'[u] = pc[u] /\ call'[u] = call[u] /\ deadline'[u] = deadline[u]
        /\ due'[u] = due[u] /\ clock' = clock
    BY <1>4, Others
  <2> QED
    BY <1>0, <2>1 DEF Idle
<1>5. ASSUME InWait(u) PROVE Ok(u)'
  <2>1. /\ ~Idle(u) /\ clock' = clock /\ call' = call
        /\ pc'[u] \notin {"true", "false"} => deadline'[u] = deadline[u] /\ due'[u] = due[u]
    BY <1>5 DEF InWait, Look, Loop, Sleep, Resume, Check, Again, Idle
  <2> QED
    BY <1>0, <2>1 DEF Idle
<1>6. ASSUME NEW c \in Calls, WaitDio(u, c) PROVE Ok(u)'
  BY <1>6 DEF WaitDio
<1>7. ASSUME NEW c \in Calls, NEW d \in Timeouts, WaitDioTimeout(u, c, d) PROVE Ok(u)'
  <2>1. /\ d \in Nat /\ 2 * d < Modulus /\ d \in 0 .. Modulus - 1
        /\ clock \in 0 .. Modulus - 1
    BY TimesAssumption
  <2>2. (Deadline(d) - clock) % Modulus = d
    BY <2>1, Ahead DEF Deadline
  <2>3. due'[u] = d /\ deadline'[u] = Deadline(d) /\ clock' = clock
    BY <1>7 DEF WaitDioTimeout
  <2> QED
    BY <2>1, <2>2, <2>3
<1>8. ASSUME NEW d \in Timeouts, WaitMessage(u, d) PROVE Ok(u)'
  BY <1>8 DEF WaitMessage
<1> QED
  BY <1>1, <1>2, <1>3, <1>4, <1>5, <1>6, <1>7, <1>8 DEF Next

LEMMA QuietStep ==
    ASSUME TypeOK, DelayInv, QuietInv, Next
    PROVE  QuietInv'
<1> DEFINE Ok(u) == call[u].kind = "message" =>
                /\ pc[u] \in {"look", "sleep"} =>
                     due[u] <= delay[u] /\ (epending[u] \cap Message # {} => signalled[u] = 1)
                /\ pc[u] = "asleep" => timer[u] \in Nat /\ due[u] <= timer[u]
                /\ pc[u] = "awake" => signalled[u] = 1
                /\ pc[u] = "check" => due[u] = 0 \/ signalled[u] = 1
<1> SUFFICES ASSUME NEW u \in Callers PROVE Ok(u)'
  BY DEF QuietInv
<1> USE DEF TypeOK, lines, Goto, Return, Begin
<1>0. Ok(u)
  BY DEF QuietInv
<1>1. ASSUME NEW l \in Lines, Edge(l) PROVE Ok(u)'
  BY <1>0, <1>1 DEF Edge, times
<1>2. ASSUME NEW l \in Lines, Isr(l) PROVE Ok(u)'
  <2>1. /\ UNCHANGED <<call, timer, due, delay>>
        /\ u # owner \/ Idle(u) => signalled'[u] = signalled[u]
        /\ u = owner /\ ~Idle(u) => signalled'[u] = 1
        /\ pc'[u] = pc[u] \/ (u = owner /\ pc[u] = "asleep" /\ pc'[u] = "awake")
        /\ u # owner => epending'[u] = epending[u]
    BY <1>2, ThreadsAssumption DEF Isr, Signal
  <2> QED
    BY <1>0, <2>1 DEF Idle
<1>3. CASE Tick
  <2>1. /\ UNCHANGED <<call, epending, delay, signalled>>
        /\ due'[u] = Sooner(due[u])
        /\ due'[u] <= due[u]
        /\ pc'[u] = IF pc[u] = "asleep" /\ timer[u] = 1 THEN "check" ELSE pc[u]
        /\ timer'[u] = IF timer[u] \in {NoTimer, 1} THEN NoTimer ELSE timer[u] - 1
        /\ timer[u] \in (Nat \ {0}) \cup {NoTimer}
        /\ due[u] \in Nat /\ delay[u] \in Nat
    BY <1>3 DEF Tick, Sooner
  <2> QED
    BY <1>0, <2>1, TimesAssumption DEF Sooner
<1>4. ASSUME NEW t \in Callers, t # u,
             \/ InWait(t)
             \/ \E c \in Calls : WaitDio(t, c)
             \/ \E c \in Calls, d \in Timeouts : WaitDioTimeout(t, c, d)
             \/ \E d \in Timeouts : WaitMessage(t, d)
      PROVE  Ok(u)'
  <2>1. /\ pc'[u] = pc[u] /\ call'[u] = call[u] /\ delay'[u] = delay[u]
        /\ due'[u] = due[u] /\ timer'[u] = timer[u] /\ epending'[u] = epending[u]
        /\ signalled'[u] = signalled[u]
    BY <1>4, Others
  <2> QED
    BY <1>0, <2>1
<1>5. CASE Look(u)
  BY <1>0, <1>5 DEF Look
<1>6. CASE Loop(u)
  BY <1>6 DEF Loop, DelayInv
<1>7. CASE Sleep(u)
  <2>1. SUFFICES ASSUME call[u].kind = "message" PROVE Ok(u)'
    BY <1>7 DEF Sleep
  <2>2. /\ UNCHANGED <<call, due, signalled>> /\ Mask(call[u]) = Message
        /\ due[u] <= delay[u]
        /\ epending[u] \cap Message # {} => signalled[u] = 1
    BY <1>0, <1>7, <2>1 DEF Sleep, Mask
  <2>3. CASE epending[u] \cap Message # {} \/ delay[u] = 0
    BY <1>7, <2>1, <2>2, <2>3 DEF Sleep
  <2>4. CASE ~(epending[u] \cap Message # {} \/ delay[u] = 0)
    BY <1>7, <2>1, <2>2, <2>4 DEF Sleep
  <2> QED
    BY <2>3, <2>4
<1>8. CASE Resume(u)
  BY <1>0, <1>8 DEF Resume
<1>9. CASE Check(u)
  BY <1>9 DEF Check, Again
<1>10. ASSUME NEW c \in Calls, WaitDio(u, c) PROVE Ok(u)'
  BY <1>10 DEF WaitDio
<1>11. ASSUME NEW c \in Calls, NEW d \in Timeouts, WaitDioTimeout(u, c, d) PROVE Ok(u)'
  BY <1>11 DEF WaitDioTimeout
<1>12. ASSUME NEW d \in Timeouts, WaitMessage(u, d) PROVE Ok(u)'
  <2>1. d \in Nat /\ epending'[u] \cap Message = {}
    BY <1>12, ThreadsAssumption, TimesAssumption DEF WaitMessage, Cleared
  <2> QED
    BY <1>12, <2>1 DEF WaitMessage
<1> QED
  BY <1>1, <1>2, <1>3, <1>4, <1>5, <1>6, <1>7, <1>8, <1>9, <1>10, <1>11, <1>12
     DEF Next, InWait

\* Every reachable state satisfies the inductive invariant: an edge that was
\* not looked at is pending, as an interrupt or as an event.
THEOREM Invariance == Spec => []IInv
<1>1. IInv /\ UNCHANGED vars => IInv'
  BY DEF IInv, TypeOK, DelayInv, WatchInv, AsleepInv, TimeInv, QuietInv, OnItsWay, Satisfied,
         Mask, Idle, vars, lines, times, Calls
<1>2. IInv /\ Next => IInv'
  BY TypeStep, DelayStep, WatchStep, AsleepStep, TimeStep, QuietStep DEF IInv
<1> QED
  BY InitInv, <1>1, <1>2, PTL DEF Spec

\* The variables keep their types; no timer is ever set for no time.
THEOREM TypeCorrect == Spec => []TypeOK
BY Invariance, PTL DEF IInv

\* No edge is lost between the look at a line and the sleep of the listener.
THEOREM NothingMissed == Spec => []NoLostWakeup
<1>1. IInv => NoLostWakeup
  BY DEF IInv, WatchInv, AsleepInv, OnItsWay, NoLostWakeup
<1> QED
  BY Invariance, <1>1, PTL

\* wait_dion_timeout gives up only when its time is over, and only with the
\* event pending of an edge that it did not see.
THEOREM TimedWaitGivesUpRightly == Spec => GivesUpRightly
<1> DEFINE A == \A t \in Callers : GivesUp(t) /\ call[t].kind = "timed" =>
                  /\ due[t] = 0
                  /\ t = owner /\ Satisfied(call[t]) => call[t].line \in exti \cup epending[t]
<1>1. ASSUME IInv, Next PROVE A
  <2> SUFFICES ASSUME NEW u \in Callers, GivesUp(u), call[u].kind = "timed"
               PROVE  /\ due[u] = 0
                      /\ u = owner /\ Satisfied(call[u])
                           => call[u].line \in exti \cup epending[u]
    OBVIOUS
  <2> USE DEF GivesUp, Idle, Goto, Return
  <2>0. TypeOK
    BY <1>1 DEF IInv
  <2>1. ~ \E l \in Lines : Edge(l) \/ Isr(l)
    BY <2>0 DEF TypeOK, Edge, Isr
  <2>2. ~Tick
    BY <2>0 DEF TypeOK, Tick
  <2>3. ASSUME NEW t \in Callers, t # u PROVE
            ~ (\/ InWait(t)
               \/ \E c \in Calls : WaitDio(t, c)
               \/ \E c \in Calls, d \in Timeouts : WaitDioTimeout(t, c, d)
               \/ \E d \in Timeouts : WaitMessage(t, d))
    BY <2>0, <2>3, Others
  <2>4. ~ (\/ Sleep(u) \/ Resume(u) \/ Look(u) \/ Check(u)
           \/ \E c \in Calls : WaitDio(u, c)
           \/ \E c \in Calls, d \in Timeouts : WaitDioTimeout(u, c, d)
           \/ \E d \in Timeouts : WaitMessage(u, d))
    BY <1>1, <2>0 DEF TypeOK, IInv, DelayInv, Sleep, Resume, Look, Check, Again, WaitDio,
       WaitDioTimeout, WaitMessage
  <2>5. pc[u] = "loop" /\ Left(u) <= 0
    <3>1. Loop(u)
      BY <1>1, <2>1, <2>2, <2>3, <2>4 DEF Next, InWait
    <3>2. deadline[u] - clock \in Int
      BY <2>0 DEF TypeOK
    <3>3. Left(u) \in Int
      BY <3>2, Wrapped, TimesAssumption DEF Left
    <3> QED
      BY <3>1, <3>3, <2>0 DEF Loop, TypeOK
  <2>6. due[u] = 0
    <3>1. /\ due[u] \in Nat /\ 2 * due[u] < Modulus
          /\ due[u] > 0 => (deadline[u] - clock) % Modulus = due[u]
      BY <1>1, <2>0, <2>5 DEF IInv, TimeInv, TypeOK
    <3> QED
      BY <2>5, <3>1 DEF Left
  <2>7. ASSUME u = owner, Satisfied(call[u]) PROVE call[u].line \in exti \cup epending[u]
    BY <1>1, <2>5, <2>7 DEF IInv, WatchInv, OnItsWay, Mask
  <2> QED
    BY <2>6, <2>7
<1>2. IInv /\ [Next]_vars => [A]_vars
  BY <1>1
<1> QED
  BY Invariance, <1>2, PTL DEF Spec, GivesUpRightly

\* wait_message gives up before its time only after an event that came since
\* it began.
THEOREM MessageGivesUpQuietly == Spec => QuietUntilTimeout
<1> DEFINE A == \A t \in Callers : GivesUp(t) /\ call[t].kind = "message" =>
                  due[t] = 0 \/ signalled[t] = 1
<1>1. ASSUME IInv, Next PROVE A
  <2> SUFFICES ASSUME NEW u \in Callers, GivesUp(u), call[u].kind = "message"
               PROVE  due[u] = 0 \/ signalled[u] = 1
    OBVIOUS
  <2> USE DEF GivesUp, Idle, Goto, Return
  <2>0. TypeOK
    BY <1>1 DEF IInv
  <2>1. ~ (Tick \/ \E l \in Lines : Edge(l) \/ Isr(l))
    BY <2>0 DEF TypeOK, Edge, Isr, Tick
  <2>2. ASSUME NEW t \in Callers, t # u PROVE
            ~ (\/ InWait(t)
               \/ \E c \in Calls : WaitDio(t, c)
               \/ \E c \in Calls, d \in Timeouts : WaitDioTimeout(t, c, d)
               \/ \E d \in Timeouts : WaitMessage(t, d))
    BY <2>0, <2>2, Others
  <2>3. ~ (\/ Sleep(u) \/ Resume(u) \/ Look(u) \/ Loop(u)
           \/ \E c \in Calls : WaitDio(u, c)
           \/ \E c \in Calls, d \in Timeouts : WaitDioTimeout(u, c, d)
           \/ \E d \in Timeouts : WaitMessage(u, d))
    BY <1>1, <2>0 DEF TypeOK, IInv, DelayInv, Sleep, Resume, Look, Loop, WaitDio,
       WaitDioTimeout, WaitMessage
  <2>4. pc[u] = "check"
    BY <1>1, <2>1, <2>2, <2>3 DEF Next, InWait, Check
  <2> QED
    BY <1>1, <2>4 DEF IInv, QuietInv
<1>2. IInv /\ [Next]_vars => [A]_vars
  BY <1>1
<1> QED
  BY Invariance, <1>2, PTL DEF Spec, QuietUntilTimeout

=============================================================================
