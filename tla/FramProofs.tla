----------------------------- MODULE FramProofs -----------------------------
(***************************************************************************)
(* Theorems about Fram, for every set of threads, addresses and values.    *)
(***************************************************************************)
EXTENDS Fram, TLAPS

USE RolesAssumption, NothingAssumption

\* One chip, one transaction: a thread is past start_spi exactly while it owns
\* the bus (fram.c:40-62).
OneTransaction == \A t \in Threads : phase[t] # "wait" <=> bus = t

\* What a thread in the middle of a call knows of its arguments and its role.
CallsInv == \A t \in Threads :
    /\ pc[t] = "idle" => phase[t] = "wait" /\ call[t] = NoCall
    /\ pc[t] \in {"WREN", "WRITE"} =>
            t \in Writers /\ call[t].addr \in Addresses /\ call[t].data \in Values
    /\ pc[t] = "READ" => call[t].addr \in Addresses
    /\ pc[t] = "SLEEP" => t \in Sleepers /\ call[t] = NoCall

\* From the end of its WREN to its WRITE the latch stays set for a writer that
\* no other thread has crossed.
LatchInv == \A t \in Threads :
    /\ pc[t] = "WREN" /\ phase[t] = "over" /\ t \notin crossed => wel = 1
    /\ pc[t] = "WRITE" /\ phase[t] # "over" /\ t \notin crossed => wel = 1

IInv ==
    /\ TypeOK
    /\ OneTransaction
    /\ NeverTalksToSleeper
    /\ CallsInv
    /\ LatchInv
    /\ LandsUnlessCrossed

LEMMA InitIInv == Init => IInv
  BY DEF Init, IInv, TypeOK, OneTransaction, NeverTalksToSleeper, CallsInv,
         LatchInv, LandsUnlessCrossed, NoCall

LEMMA TypeStep ==
    ASSUME IInv, [Next]_vars
    PROVE  TypeOK'
<1> USE DEF IInv, TypeOK
<1>1. CASE UNCHANGED vars
  BY <1>1 DEF vars, driver, chip
<1>2. ASSUME NEW t \in Threads, NEW a \in Addresses, NEW v \in Values, Write(t, a, v)
      PROVE TypeOK'
  BY <1>2 DEF Write, chip
<1>3. ASSUME NEW t \in Threads, NEW a \in Addresses, Read(t, a)
      PROVE TypeOK'
  BY <1>3 DEF Read, chip
<1>4. ASSUME NEW t \in Threads, Sleep(t)
      PROVE TypeOK'
  BY <1>4 DEF Sleep, chip
<1>5. ASSUME NEW t \in Threads, Acquire(t)
      PROVE TypeOK'
  BY <1>5 DEF Acquire, chip
<1>6. ASSUME NEW t \in Threads, Wake(t)
      PROVE TypeOK'
  BY <1>6 DEF Wake
<1>7. ASSUME NEW t \in Threads, Release(t)
      PROVE TypeOK'
  <2>1. NoCall \in [addr : Addresses \cup {Nothing}, data : Values \cup {Nothing}]
    BY DEF NoCall
  <2>2. call' \in [Threads -> [addr : Addresses \cup {Nothing},
                              data : Values \cup {Nothing}]]
    BY <1>7, <2>1 DEF Release
  <2> QED
    BY <1>7, <2>2 DEF Release, chip
<1>8. ASSUME NEW t \in Threads, SendWren(t)
      PROVE TypeOK'
  BY <1>8 DEF SendWren, Transferred
<1>9. ASSUME NEW t \in Threads, SendWrite(t)
      PROVE TypeOK'
  BY <1>9 DEF SendWrite, Transferred, CrossOthers, CallsInv
<1>10. ASSUME NEW t \in Threads, SendRead(t)
       PROVE TypeOK'
  BY <1>10 DEF SendRead, Transferred, Answers, CallsInv, chip
<1>11. ASSUME NEW t \in Threads, SendSleep(t)
       PROVE TypeOK'
  BY <1>11 DEF SendSleep, Transferred, CrossOthers
<1> QED
  BY <1>1, <1>2, <1>3, <1>4, <1>5, <1>6, <1>7, <1>8, <1>9, <1>10, <1>11 DEF Next

LEMMA StateStep ==
    ASSUME IInv, [Next]_vars, TypeOK'
    PROVE  /\ OneTransaction' /\ NeverTalksToSleeper' /\ CallsInv'
           /\ LatchInv' /\ LandsUnlessCrossed'
<1> DEFINE Kept == /\ OneTransaction' /\ NeverTalksToSleeper' /\ CallsInv'
                   /\ LatchInv' /\ LandsUnlessCrossed'
<1> USE DEF IInv, TypeOK, OneTransaction, NeverTalksToSleeper, CallsInv,
            LatchInv, LandsUnlessCrossed
<1>1. CASE UNCHANGED vars
  BY <1>1 DEF vars, driver, chip
<1>2. ASSUME NEW t \in Threads, NEW a \in Addresses, NEW v \in Values, Write(t, a, v)
      PROVE Kept
  BY <1>2 DEF Write, chip
<1>3. ASSUME NEW t \in Threads, NEW a \in Addresses, Read(t, a)
      PROVE Kept
  BY <1>3 DEF Read, chip
<1>4. ASSUME NEW t \in Threads, Sleep(t)
      PROVE Kept
  BY <1>4 DEF Sleep, chip
<1>5. ASSUME NEW t \in Threads, Acquire(t)
      PROVE Kept
  BY <1>5 DEF Acquire, chip
<1>6. ASSUME NEW t \in Threads, Wake(t)
      PROVE Kept
  BY <1>6 DEF Wake
<1>7. ASSUME NEW t \in Threads, Release(t)
      PROVE Kept
  BY <1>7 DEF Release, chip
<1>8. ASSUME NEW t \in Threads, SendWren(t)
      PROVE Kept
  BY <1>8 DEF SendWren, Transferred
<1>9. ASSUME NEW t \in Threads, SendWrite(t)
      PROVE Kept
  BY <1>9 DEF SendWrite, Transferred, CrossOthers
<1>10. ASSUME NEW t \in Threads, SendRead(t)
       PROVE Kept
  BY <1>10 DEF SendRead, Transferred, Answers, chip
<1>11. ASSUME NEW t \in Threads, SendSleep(t)
       PROVE Kept
  BY <1>11 DEF SendSleep, Transferred, CrossOthers
<1> QED
  BY <1>1, <1>2, <1>3, <1>4, <1>5, <1>6, <1>7, <1>8, <1>9, <1>10, <1>11 DEF Next

\* The inductive invariant: the types, the bus, the sleep flag and the latch
\* hold together in every reachable state of the driver.
THEOREM Invariance == Spec => []IInv
<1>1. Init => IInv
  BY InitIInv
<1>2. IInv /\ [Next]_vars => IInv'
  <2> SUFFICES ASSUME IInv, [Next]_vars PROVE IInv'
    OBVIOUS
  <2>1. TypeOK'
    BY TypeStep
  <2> QED
    BY <2>1, StateStep DEF IInv
<1> QED
  BY <1>1, <1>2, PTL DEF Spec

\* Every variable of the driver and of the chip keeps its type, for any threads in
\* any roles (fram.c:22-31).
THEOREM TypeCorrect == Spec => []TypeOK
  BY Invariance, PTL DEF IInv

\* No op-code is ever sent to a sleeping chip, whatever thread puts it to sleep
\* and whatever thread wakes it (fram.c:40-49, 154-161).
THEOREM ChipAwake == Spec => []NeverTalksToSleeper
  BY Invariance, PTL DEF IInv

\* fram_write stores its data unless another thread's transaction crossed its
\* own two (fram.c:138-149).
THEOREM WritesLand == Spec => []LandsUnlessCrossed
  BY Invariance, PTL DEF IInv

----------------------------------------------------------------------------
(* The driver implements FramStore *)

USE DEF Store!New, Store!Idle, Store!Pending

LEMMA InitStore == Init => Store!Init
<1> SUFFICES ASSUME Init PROVE Store!Init
  OBVIOUS
<1>1. ASSUME NEW t \in Threads PROVE Entry(t) = Store!Idle
  BY DEF Init, Entry, Kind, NoCall
<1> QED
  BY <1>1 DEF Init, Store!Init, StoreCall

\* A step of thread t changes no entry but its own.
LEMMA OneEntry ==
    ASSUME NEW t \in Threads, TypeOK, TypeOK',
           \A u \in Threads \ {t} :
                pc'[u] = pc[u] /\ phase'[u] = phase[u] /\ call'[u] = call[u]
    PROVE  StoreCall' = [StoreCall EXCEPT ![t] = Entry(t)']
<1>1. ASSUME NEW u \in Threads, u # t PROVE Entry(u)' = Entry(u)
  BY <1>1 DEF Entry, Kind
<1> QED
  BY <1>1 DEF StoreCall

\* A step that changes no entry and not the memory either is a stutter.
LEMMA Stutter ==
    ASSUME mem' = mem, crossed' = crossed, \A t \in Threads : Entry(t)' = Entry(t)
    PROVE  UNCHANGED Store!vars
  BY DEF StoreCall, Store!vars

\* The writers a transfer crosses are in the middle of their calls.
LEMMA CrossExposes ==
    ASSUME NEW t \in Threads, IInv, phase[t] = "talking", CrossOthers(t)
    PROVE  Store!Expose(t)
<1> DEFINE S == {u \in Threads \ {t} : pc[u] = "WRITE"}
<1>1. crossed' = crossed \cup S
  BY DEF CrossOthers
<1>2. ASSUME NEW u \in S
      PROVE  StoreCall[u].kind = "write" /\ StoreCall[u].stage = "pending"
  BY DEF IInv, TypeOK, OneTransaction, StoreCall, Entry, Kind
<1> HIDE DEF S
<1>3. S \in SUBSET {u \in Threads \ {t} :
                      StoreCall[u].kind = "write" /\ StoreCall[u].stage = "pending"}
  BY <1>2 DEF S
<1> QED
  BY <1>1, <1>3 DEF Store!Expose

\* Every step of the driver is a step of the memory or leaves it alone.
LEMMA StepStore ==
    ASSUME IInv, IInv', [Next]_vars
    PROVE  [Store!Next]_Store!vars
<1> USE DEF IInv
<1>1. CASE UNCHANGED vars
  BY <1>1, Stutter DEF vars, driver, chip, Entry, Kind
<1>2. ASSUME NEW t \in Threads, NEW a \in Addresses, NEW v \in Values, Write(t, a, v)
      PROVE  Store!Begin(t)
  <2>1. Entry(t) = Store!Idle
    BY <1>2 DEF Write, CallsInv, NoCall, Entry, Kind
  <2>2. Entry(t)' = Store!New("write", a, v)
    BY <1>2 DEF Write, CallsInv, TypeOK, Entry, Kind
  <2>3. StoreCall' = [StoreCall EXCEPT ![t] = Entry(t)']
    BY <1>2, OneEntry DEF Write, TypeOK
  <2> QED
    BY <1>2, <2>1, <2>2, <2>3 DEF Write, chip, StoreCall, Store!Begin
<1>3. ASSUME NEW t \in Threads, NEW a \in Addresses, Read(t, a)
      PROVE  Store!Begin(t)
  <2>1. Entry(t) = Store!Idle
    BY <1>3 DEF Read, CallsInv, NoCall, Entry, Kind
  <2>2. Entry(t)' = Store!New("read", a, Nothing)
    BY <1>3 DEF Read, CallsInv, TypeOK, Entry, Kind
  <2>3. StoreCall' = [StoreCall EXCEPT ![t] = Entry(t)']
    BY <1>3, OneEntry DEF Read, TypeOK
  <2> QED
    BY <1>3, <2>1, <2>2, <2>3 DEF Read, chip, StoreCall, Store!Begin
<1>4. ASSUME NEW t \in Threads, Sleep(t)
      PROVE  Store!Begin(t)
  <2>1. Entry(t) = Store!Idle
    BY <1>4 DEF Sleep, CallsInv, NoCall, Entry, Kind
  <2>2. Entry(t)' = Store!New("sleep", Nothing, Nothing)
    BY <1>4 DEF Sleep, CallsInv, TypeOK, NoCall, Entry, Kind
  <2>3. StoreCall' = [StoreCall EXCEPT ![t] = Entry(t)']
    BY <1>4, OneEntry DEF Sleep, TypeOK
  <2> QED
    BY <1>4, <2>1, <2>2, <2>3 DEF Sleep, chip, StoreCall, Store!Begin
<1>5. ASSUME NEW t \in Threads, Acquire(t)
      PROVE  UNCHANGED Store!vars
  BY <1>5, Stutter DEF Acquire, chip, TypeOK, Entry, Kind
<1>6. ASSUME NEW t \in Threads, Wake(t)
      PROVE  UNCHANGED Store!vars
  BY <1>6, Stutter DEF Wake, TypeOK, Entry, Kind
<1>7. ASSUME NEW t \in Threads, Release(t)
      PROVE  Store!End(t) \/ UNCHANGED Store!vars
  <2>1. CASE pc[t] = "WREN"
    BY <1>7, <2>1, Stutter DEF Release, chip, TypeOK, CallsInv, Entry, Kind
  <2>2. CASE pc[t] # "WREN"
    <3>1. Entry(t).stage = "done"
      BY <1>7, <2>2 DEF Release, Entry
    <3>2. Entry(t)' = Store!Idle
      BY <1>7, <2>2 DEF Release, TypeOK, NoCall, Entry, Kind
    <3>3. StoreCall' = [StoreCall EXCEPT ![t] = Entry(t)']
      BY <1>7, OneEntry DEF Release, TypeOK
    <3> QED
      BY <1>7, <3>1, <3>2, <3>3 DEF Release, chip, StoreCall, Store!End
  <2> QED
    BY <2>1, <2>2
<1>8. ASSUME NEW t \in Threads, SendWren(t)
      PROVE  UNCHANGED Store!vars
  BY <1>8, Stutter DEF SendWren, Transferred, TypeOK, Entry, Kind
<1>9. ASSUME NEW t \in Threads, SendWrite(t)
      PROVE  Store!EffectWrite(t)
  <2>1. \/ mem' = [mem EXCEPT ![call[t].addr] = call[t].data]
        \/ t \in crossed /\ mem' = mem
    BY <1>9 DEF SendWrite, Transferred, CallsInv, NeverTalksToSleeper, LatchInv
  <2>2. StoreCall[t] = Entry(t)
    BY DEF StoreCall
  <2>3. Entry(t) = Store!New("write", call[t].addr, call[t].data)
    BY <1>9 DEF SendWrite, Transferred, Entry, Kind
  <2>4. Entry(t)' = [Entry(t) EXCEPT !.stage = "done"]
    BY <1>9, <2>3 DEF SendWrite, Transferred, TypeOK, Entry, Kind
  <2>5. StoreCall' = [StoreCall EXCEPT ![t] = Entry(t)']
    BY <1>9, OneEntry DEF SendWrite, Transferred, TypeOK
  <2>6. Store!Expose(t)
    BY <1>9, CrossExposes DEF SendWrite, Transferred
  <2> QED
    BY <2>1, <2>2, <2>3, <2>4, <2>5, <2>6 DEF Store!EffectWrite
<1>10. ASSUME NEW t \in Threads, SendRead(t)
       PROVE  Store!EffectRead(t)
  <2>1. call' = [call EXCEPT ![t].data = mem[call[t].addr]]
    BY <1>10 DEF SendRead, Transferred, Answers, NeverTalksToSleeper
  <2>2. StoreCall[t] = Entry(t)
    BY DEF StoreCall
  <2>3. Entry(t) = Store!New("read", call[t].addr, call[t].data)
    BY <1>10 DEF SendRead, Transferred, Entry, Kind
  <2>4. Entry(t)' = [kind |-> "read", addr |-> call[t].addr,
                     data |-> mem[call[t].addr], stage |-> "done"]
    BY <1>10, <2>1 DEF SendRead, Transferred, TypeOK, Entry, Kind
  <2>5. StoreCall' = [StoreCall EXCEPT ![t] = Entry(t)']
    BY <1>10, <2>1, OneEntry DEF SendRead, Transferred, TypeOK
  <2>6. UNCHANGED <<mem, crossed>>
    BY <1>10 DEF SendRead, chip
  <2> QED
    BY <2>2, <2>3, <2>4, <2>5, <2>6 DEF Store!EffectRead
<1>11. ASSUME NEW t \in Threads, SendSleep(t)
       PROVE  Store!EffectSleep(t)
  <2>1. StoreCall[t] = Entry(t)
    BY DEF StoreCall
  <2>2. Entry(t) = Store!New("sleep", call[t].addr, call[t].data)
    BY <1>11 DEF SendSleep, Transferred, Entry, Kind
  <2>3. Entry(t)' = [Entry(t) EXCEPT !.stage = "done"]
    BY <1>11, <2>2 DEF SendSleep, Transferred, TypeOK, Entry, Kind
  <2>4. StoreCall' = [StoreCall EXCEPT ![t] = Entry(t)']
    BY <1>11, OneEntry DEF SendSleep, Transferred, TypeOK
  <2>5. Store!Expose(t)
    BY <1>11, CrossExposes DEF SendSleep, Transferred
  <2>6. UNCHANGED mem
    BY <1>11 DEF SendSleep
  <2> QED
    BY <2>1, <2>2, <2>3, <2>4, <2>5, <2>6 DEF Store!EffectSleep
<1> QED
  BY <1>1, <1>2, <1>3, <1>4, <1>5, <1>6, <1>7, <1>8, <1>9, <1>10, <1>11
     DEF Next, Store!Next

\* The two transactions of fram_write act as one write of the memory, which is
\* lost at most when another thread's call got in its way (fram.c:138-161).
THEOREM Memory == Spec => ImplementsStore
<1>1. IInv /\ IInv' /\ [Next]_vars => [Store!Next]_Store!vars
  BY StepStore
<1> QED
  BY <1>1, InitStore, Invariance, PTL DEF Spec, ImplementsStore, Store!Spec

----------------------------------------------------------------------------
(* One thread writes and puts the chip to sleep, the others read *)

\* Then nobody crosses it, and the memory loses nothing.
THEOREM OneWriterLosesNothing ==
    ASSUME NEW w \in Threads, Writers \subseteq {w}, Sleepers \subseteq {w}
    PROVE  Spec => []WriteLands
<1> DEFINE Uncrossed == w \notin crossed
<1>1. Init => Uncrossed
  BY DEF Init
<1>2. IInv /\ Uncrossed /\ [Next]_vars => Uncrossed'
  <2> SUFFICES ASSUME IInv, Uncrossed, [Next]_vars PROVE w \notin crossed'
    OBVIOUS
  <2>1. ASSUME NEW t \in Threads, CrossOthers(t), pc[t] \in {"WRITE", "SLEEP"}
        PROVE  w \notin crossed'
    BY <2>1 DEF CrossOthers, IInv, CallsInv
  <2> QED
    BY <2>1 DEF Next, vars, chip, driver, Write, Read, Sleep, Acquire, Wake, Release,
             SendWren, SendWrite, SendRead, SendSleep, Transferred
<1>3. IInv /\ Uncrossed => WriteLands
  BY DEF IInv, CallsInv, LandsUnlessCrossed, WriteLands
<1> QED
  BY <1>1, <1>2, <1>3, Invariance, PTL DEF Spec

=============================================================================
