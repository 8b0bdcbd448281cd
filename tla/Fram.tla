-------------------------------- MODULE Fram --------------------------------
(***************************************************************************)
(* The FRAM driver, src/waded_sx1231/fram.c, used by several threads.      *)
(*                                                                         *)
(* Every exchange with the chip is one SPI transaction under the mutex of  *)
(* the bus, but a write takes two: WREN sets the write-enable latch of the *)
(* chip, and the WRITE that follows is ignored unless the latch is still   *)
(* set, and clears it.  The driver flag sleep_mode says whether the chip   *)
(* has been put to sleep; a sleeping chip wakes up some 400us after it is  *)
(* selected and ignores what it is sent before.                            *)
(*                                                                         *)
(* A burst is one address and one value; what SLEEP does to the latch is   *)
(* not stated anywhere, so both outcomes are possible.                     *)
(***************************************************************************)
EXTENDS Integers

CONSTANTS
    Threads,
    Writers,        \* the threads that call fram_write
    Sleepers,       \* the threads that call fram_sleep
    Addresses,
    Values,
    Nothing         \* no thread, no address, no data

ASSUME RolesAssumption == Writers \subseteq Threads /\ Sleepers \subseteq Threads
ASSUME NothingAssumption ==
    Nothing \notin Threads /\ Nothing \notin Addresses /\ Nothing \notin Values

VARIABLES
    pc,             \* the transaction a thread is in or waits to start
    phase,          \* how far that transaction has got
    call,           \* the arguments, and the data a read has returned
    bus,            \* the owner of the bus mutex of SPID2
    sleep_mode,     \* the flag of the driver
    power,          \* whether the chip is awake
    wel,            \* the write-enable latch of the chip, 0 or 1
    mem,            \* the contents of the chip
    crossed         \* history: the threads whose latch was touched by another

driver == <<pc, phase, call, bus>>
chip == <<power, wel, mem>>
vars == <<driver, sleep_mode, chip, crossed>>

NoCall == [addr |-> Nothing, data |-> Nothing]

Init ==
    /\ pc = [t \in Threads |-> "idle"]
    /\ phase = [t \in Threads |-> "wait"]
    /\ call = [t \in Threads |-> NoCall]
    /\ bus = Nothing
    /\ sleep_mode = 1
    /\ power \in {"awake", "asleep"}
    /\ wel = 0
    /\ mem \in [Addresses -> Values]
    /\ crossed = {}

----------------------------------------------------------------------------
\* fram_write: the WREN transaction comes first.
Write(t, a, v) ==
    /\ t \in Writers
    /\ pc[t] = "idle"
    /\ pc' = [pc EXCEPT ![t] = "WREN"]
    /\ call' = [call EXCEPT ![t] = [addr |-> a, data |-> v]]
    /\ crossed' = crossed \ {t}
    /\ UNCHANGED <<phase, bus, sleep_mode, chip>>

\* fram_read.
Read(t, a) ==
    /\ pc[t] = "idle"
    /\ pc' = [pc EXCEPT ![t] = "READ"]
    /\ call' = [call EXCEPT ![t] = [addr |-> a, data |-> Nothing]]
    /\ UNCHANGED <<phase, bus, sleep_mode, chip, crossed>>

\* fram_sleep looks at the flag before it takes the bus.
Sleep(t) ==
    /\ t \in Sleepers
    /\ pc[t] = "idle"
    /\ sleep_mode = 0
    /\ pc' = [pc EXCEPT ![t] = "SLEEP"]
    /\ UNCHANGED <<phase, call, bus, sleep_mode, chip, crossed>>

----------------------------------------------------------------------------
(* One SPI transaction *)

\* start_spi: acquire the bus and select the chip.
Acquire(t) ==
    /\ pc[t] # "idle" /\ phase[t] = "wait"
    /\ bus = Nothing
    /\ bus' = t
    /\ phase' = [phase EXCEPT ![t] = "selected"]
    /\ UNCHANGED <<pc, call, sleep_mode, chip, crossed>>

\* Mutation: sleep_mode is counted down by every transaction.
MutWake(t) ==
    /\ phase[t] = "selected"
    /\ phase' = [phase EXCEPT ![t] = "talking"]
    /\ sleep_mode' = sleep_mode - 1
    /\ power' = "awake"
    /\ UNCHANGED <<pc, call, bus, wel, mem, crossed>>

\* start_spi: let the chip wake up, if the driver has put it to sleep.
Wake(t) ==
    /\ phase[t] = "selected"
    /\ phase' = [phase EXCEPT ![t] = "talking"]
    /\ IF sleep_mode = 1
         THEN sleep_mode' = 0 /\ power' = "awake"
         ELSE UNCHANGED <<sleep_mode, power>>
    /\ UNCHANGED <<pc, call, bus, wel, mem, crossed>>

\* The transfer of transaction op is over and the chip is deselected.
Transferred(t, op) ==
    /\ pc[t] = op /\ phase[t] = "talking"
    /\ phase' = [phase EXCEPT ![t] = "over"]

\* The write-enable latch has been touched under the other writers.
CrossOthers(t) ==
    crossed' = crossed \cup {u \in Threads \ {t} : pc[u] = "WRITE"}

\* Mutation: the byte sent before the WRITE is not the op-code WREN, and the
\* latch stays as it is.
MutSendWren(t) ==
    /\ Transferred(t, "WREN")
    /\ UNCHANGED <<pc, call, bus, sleep_mode, chip, crossed>>

SendWren(t) ==
    /\ Transferred(t, "WREN")
    /\ wel' = IF power = "awake" THEN 1 ELSE wel
    /\ UNCHANGED <<pc, call, bus, sleep_mode, power, mem, crossed>>

SendWrite(t) ==
    /\ Transferred(t, "WRITE")
    /\ IF power = "awake" /\ wel = 1
         THEN /\ mem' = [mem EXCEPT ![call[t].addr] = call[t].data]
              /\ wel' = 0
         ELSE UNCHANGED <<wel, mem>>
    /\ CrossOthers(t)
    /\ UNCHANGED <<pc, call, bus, sleep_mode, power>>

\* What comes out of the chip; nothing sensible from a sleeping one.
Answers(a) == IF power = "awake" THEN {mem[a]} ELSE Values

SendRead(t) ==
    /\ Transferred(t, "READ")
    /\ \E v \in Answers(call[t].addr) : call' = [call EXCEPT ![t].data = v]
    /\ UNCHANGED <<pc, bus, sleep_mode, chip, crossed>>

\* Mutation: the flag is left to the next transaction.
MutSendSleep(t) ==
    /\ Transferred(t, "SLEEP")
    /\ power' = "asleep"
    /\ wel' \in {wel, 0}
    /\ CrossOthers(t)
    /\ UNCHANGED <<pc, call, bus, sleep_mode, mem>>

SendSleep(t) ==
    /\ Transferred(t, "SLEEP")
    /\ power' = "asleep"
    /\ sleep_mode' = 1
    /\ wel' \in {wel, 0}
    /\ CrossOthers(t)
    /\ UNCHANGED <<pc, call, bus, mem>>

\* Mutation: spiReleaseBus is forgotten after WREN.
MutRelease(t) ==
    /\ phase[t] = "over"
    /\ bus' = IF pc[t] = "WREN" THEN bus ELSE Nothing
    /\ phase' = [phase EXCEPT ![t] = "wait"]
    /\ IF pc[t] = "WREN"
         THEN /\ pc' = [pc EXCEPT ![t] = "WRITE"]
              /\ UNCHANGED call
         ELSE /\ pc' = [pc EXCEPT ![t] = "idle"]
              /\ call' = [call EXCEPT ![t] = NoCall]
    /\ UNCHANGED <<sleep_mode, chip, crossed>>

\* end_spi; after WREN the driver goes on to the WRITE transaction, and every
\* other call returns.
Release(t) ==
    /\ phase[t] = "over"
    /\ bus' = Nothing
    /\ phase' = [phase EXCEPT ![t] = "wait"]
    /\ IF pc[t] = "WREN"
         THEN /\ pc' = [pc EXCEPT ![t] = "WRITE"]
              /\ UNCHANGED call
         ELSE /\ pc' = [pc EXCEPT ![t] = "idle"]
              /\ call' = [call EXCEPT ![t] = NoCall]
    /\ UNCHANGED <<sleep_mode, chip, crossed>>

Next == \E t \in Threads :
    \/ \E a \in Addresses : Read(t, a) \/ \E v \in Values : Write(t, a, v)
    \/ Sleep(t)
    \/ Acquire(t) \/ Wake(t) \/ Release(t)
    \/ SendWren(t) \/ SendWrite(t) \/ SendRead(t) \/ SendSleep(t)

Spec == Init /\ [][Next]_vars

\* A thread that has called the driver keeps running, a transfer ends, and the
\* queue of the bus mutex hands it to each waiting thread in turn.
Fairness == \A t \in Threads :
    /\ SF_vars(Acquire(t))
    /\ WF_vars(Wake(t) \/ Release(t))
    /\ WF_vars(SendWren(t) \/ SendWrite(t) \/ SendRead(t) \/ SendSleep(t))

FairSpec == Spec /\ Fairness

----------------------------------------------------------------------------
(* Properties *)

\* Every variable keeps its type: a call holds its arguments, and the memory a
\* value at every address (fram.c:120-161).
TypeOK ==
    /\ pc \in [Threads -> {"idle", "WREN", "WRITE", "READ", "SLEEP"}]
    /\ phase \in [Threads -> {"wait", "selected", "talking", "over"}]
    /\ call \in [Threads -> [addr : Addresses \cup {Nothing},
                             data : Values \cup {Nothing}]]
    /\ bus \in Threads \cup {Nothing}
    /\ mem \in [Addresses -> Values]
    /\ sleep_mode \in {0, 1} /\ wel \in {0, 1}
    /\ power \in {"awake", "asleep"}
    /\ crossed \subseteq Threads

\* Although fram_sleep decides outside the bus lock (fram.c:156) and threads
\* put the chip to sleep and wake it up in any order, sleep_mode never misses
\* a sleeping chip, so that no op-code is sent to one (fram.c:44-47).
NeverTalksToSleeper ==
    /\ power = "asleep" => sleep_mode = 1
    /\ \A t \in Threads : phase[t] = "talking" => power = "awake"

\* fram_write has stored its data when the WRITE transaction ends, unless
\* another thread's WRITE or SLEEP came between its own two transactions
\* (fram.c:140-147).
LandsUnlessCrossed == \A t \in Threads :
    pc[t] = "WRITE" /\ phase[t] = "over" /\ t \notin crossed =>
        mem[call[t].addr] = call[t].data

\* The comment of fram_write ("Write in burst on the fram", fram.c:132) without
\* that condition: two concurrent writers both store their data.
WriteLands == \A t \in Threads :
    pc[t] = "WRITE" /\ phase[t] = "over" => mem[call[t].addr] = call[t].data

\* A caller of the driver returns (the bus is released on every path).
CallsReturn == \A t \in Threads : pc[t] # "idle" ~> pc[t] = "idle"

\* The driver is the memory of FramStore: a call takes effect at the moment of
\* its transfer (fram.c:120-161).
Kind(t) == CASE pc[t] \in {"WREN", "WRITE"} -> "write"
             [] pc[t] = "READ" -> "read"
             [] pc[t] = "SLEEP" -> "sleep"
             [] OTHER -> "none"

Entry(t) == [kind |-> Kind(t), addr |-> call[t].addr, data |-> call[t].data,
             stage |-> IF pc[t] # "WREN" /\ phase[t] = "over"
                         THEN "done" ELSE "pending"]

StoreCall == [t \in Threads |-> Entry(t)]

Store == INSTANCE FramStore WITH call <- StoreCall, exposed <- crossed

ImplementsStore == Store!Spec

=============================================================================
