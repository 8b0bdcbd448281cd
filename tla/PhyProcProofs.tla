--------------------------- MODULE PhyProcProofs ---------------------------
(***************************************************************************)
(* Theorems about PhyProc, for every set of threads, every buffer size and *)
(* every bound.                                                            *)
(***************************************************************************)
EXTENDS PhyProc, SequenceTheorems, FiniteSetTheorems, TLAPS

\* What the phases of a procedure know of the buffer.  The type of the indices
\* is not inductive without it: phy_add_frame tests phy_frame_pos against
\* NFrames by equality (phy.c:336), and the send loop trusts phy_frame_pos.
PhaseInv ==
    /\ \A t \in Threads : pc[t] = "rx" =>
            fi < NFrames /\ added = <<>> /\ proc_event # "SEND"
    /\ \A t \in Threads : pc[t] = "tx" => added # <<>> /\ fi <= phy_frame_pos
    /\ added # <<>> => \E t \in Threads : pc[t] \in {"in", "tx"}
    /\ added # <<>> => phy_frame_pos <= NFrames /\ phy_frame_filled = 0
    /\ proc_event = "SEND" => phy_frame_pos <= NFrames
    /\ \A t \in Threads : pc[t] = "in" /\ proc_event = "SEND" =>
            /\ phy_frame_filled = 0
            /\ added = <<>> => phy_frame_pos = 0

IInv == TypeOK /\ ProcedureExclusive /\ PhaseInv

USE ThreadsAssumption, FramesAssumption, NFramesAssumption,
    MaxCallsAssumption

\* What a step that changes nothing of a reception, or gives it up, says of it.
USE DEF reception, ReceptionOver

\* The steps that neither take nor pass on the mutex: they are made by its
\* owner inside a procedure, and leave it there.
LEMMA InsideKeepsExclusive ==
    ASSUME TypeOK, ProcedureExclusive, NEW t \in Threads,
           pc[t] \in {"in", "tx", "rx"},
           NEW where \in {"in", "tx", "rx"},
           pc' = [pc EXCEPT ![t] = where],
           UNCHANGED <<phy_proc_mtx, waiting>>
    PROVE  ProcedureExclusive'
  BY DEF TypeOK, ProcedureExclusive, Holding

LEMMA InitIInv == Init => IInv
<1> SUFFICES ASSUME Init PROVE IInv
  OBVIOUS
<1>1. phy_frame_buf \in [0 .. NFrames - 1 -> Slot]
  <2> DEFINE row == [by |-> Radio, frame |-> Garbled,
                     class |-> "BACKGROUND", white |-> FALSE]
  <2>1. row \in Slot
    BY DEF Slot, Classes
  <2>2. phy_frame_buf = [i \in 0 .. NFrames - 1 |-> row]
    BY DEF Init
  <2> HIDE DEF row
  <2> QED
    BY <2>1, <2>2
<1>2. /\ added \in Seq(Frames) /\ got \in Seq(Frames)
      /\ heard \in Seq(Frames \cup {Garbled})
      /\ air \in Seq(Slot) /\ waiting \in Seq(Threads)
  BY DEF Init
<1>3. /\ pc \in [Threads -> {"out", "locking", "blocked", "entering",
                             "in", "tx", "rx"}]
      /\ pack_class \in Classes
      /\ phy_frame_pos = 0 /\ phy_frame_filled = 0 /\ fi = 0 /\ calls = 0
  BY DEF Init, Classes
<1>4. TypeOK
  <2>1. /\ ended \in {"none", "whole", "over", "broken"}
        /\ reclassed \in BOOLEAN /\ overtaken \in BOOLEAN
    BY DEF Init
  <2>2. /\ phy_proc_mtx \in Threads \cup {NoThread}
        /\ proc_event \in Events
    BY DEF Init, Events
  <2>3. /\ phy_frame_pos \in 0 .. NFrames + 1
        /\ phy_frame_filled \in 0 .. NFrames + 1
        /\ fi \in 0 .. NFrames
        /\ calls \in 0 .. MaxCalls
    BY <1>3
  <2> QED
    BY <1>1, <1>2, <1>3, <2>1, <2>2, <2>3 DEF TypeOK
<1>5. ProcedureExclusive
  BY DEF Init, ProcedureExclusive, Holding
<1>6. PhaseInv
  BY DEF Init, PhaseInv
<1> QED
  BY <1>4, <1>5, <1>6 DEF IInv

\* The flags of the history keep their types.
LEMMA FlagStep ==
    TypeOK /\ Next => /\ ended' \in {"none", "whole", "over", "broken"}
                      /\ reclassed' \in BOOLEAN /\ overtaken' \in BOOLEAN
<1> SUFFICES ASSUME TypeOK, NEW t \in Threads, StartWrite(t) \/ InProcedure(t)
             PROVE  /\ ended' \in {"none", "whole", "over", "broken"}
                    /\ reclassed' \in BOOLEAN /\ overtaken' \in BOOLEAN
  BY DEF Next
<1>1. /\ ended \in {"none", "whole", "over", "broken"}
      /\ reclassed \in BOOLEAN /\ overtaken \in BOOLEAN
  BY DEF TypeOK
<1>2. CASE StartWrite(t)
  BY <1>1, <1>2, Zenon DEF StartWrite
<1>3. CASE InProcedure(t)
  <2>1. ended' \in {ended, "none", "whole", "over", "broken"}
    BY <1>3, Zenon
       DEF InProcedure, StartLock, StartReset, Finish, Config, AddFrame,
           AddRefused, SendBusy, SendStart, SendFrame, SendDone, Listen,
           ListenTimeout, ReadBroken, ListenReturns, ReadFrame, GetFrame,
           GetBadCrc, GetNoSpace, history
  <2>2. reclassed' \in BOOLEAN /\ overtaken' \in BOOLEAN
    BY <1>1, <1>3, Zenon
       DEF InProcedure, StartLock, StartReset, Finish, Config, AddFrame,
           AddRefused, SendBusy, SendStart, SendFrame, SendDone, Listen,
           ListenTimeout, ReadBroken, ReadFrame, GetFrame,
           GetBadCrc, GetNoSpace, history
  <2> QED
    BY <1>1, <2>1, <2>2
<1> QED
  BY <1>2, <1>3

\* The byte that counts the rows is no larger than the count.
LEMMA CountByte ==
    ASSUME NEW n \in 0 .. 256
    PROVE  n % 256 \in 0 .. n
  OBVIOUS

\* Filling a row, wherever the iterator is, leaves a buffer of rows.
LEMMA FilledType ==
    ASSUME TypeOK, NEW f \in Frames \cup {Garbled}
    PROVE  Filled(f) \in [0 .. NFrames - 1 -> Slot]
<1> DEFINE row == [by |-> Radio, frame |-> f,
                   class |-> pack_class, white |-> FALSE]
<1>1. row \in Slot
  BY DEF TypeOK, Slot
<1>2. Filled(f) = [phy_frame_buf EXCEPT ![fi] = row]
  BY DEF Filled
<1>3. phy_frame_buf \in [0 .. NFrames - 1 -> Slot]
  BY DEF TypeOK
<1> HIDE DEF row
<1>4. [phy_frame_buf EXCEPT ![fi] = row] \in [0 .. NFrames - 1 -> Slot]
  BY ONLY <1>1, <1>3
<1> QED
  BY <1>2, <1>4, Zenon

\* Every step preserves the types, given where the procedure stands.
LEMMA TypeStep == IInv /\ Next => TypeOK'
<1> SUFFICES ASSUME IInv, NEW t \in Threads, StartWrite(t) \/ InProcedure(t)
             PROVE  TypeOK'
  BY DEF Next
<1>0. /\ ended' \in {"none", "whole", "over", "broken"}
      /\ reclassed' \in BOOLEAN /\ overtaken' \in BOOLEAN
  BY FlagStep DEF IInv, Next
<1> USE <1>0 DEF IInv, TypeOK, Events, Classes
<1>1. CASE StartWrite(t)
  BY <1>1 DEF StartWrite
<1>2. CASE StartLock(t)
  <2>1. waiting' \in Seq(Threads)
    <3>1. waiting' = waiting \/ waiting' = Append(waiting, t)
      BY <1>2 DEF StartLock
    <3>2. waiting \in Seq(Threads)
      OBVIOUS
    <3> QED
      BY ONLY <3>1, <3>2, t \in Threads
  <2>2. pc' = [pc EXCEPT ![t] = "entering"] \/ pc' = [pc EXCEPT ![t] = "blocked"]
    BY <1>2 DEF StartLock
  <2>3. phy_proc_mtx' \in Threads \cup {NoThread}
    BY <1>2 DEF StartLock
  <2> QED
    BY <1>2, <2>1, <2>2, <2>3 DEF StartLock, history
<1>3. CASE StartReset(t)
  BY <1>3 DEF StartReset
<1>4. CASE Finish(t)
  <2>0. /\ added' \in Seq(Frames) /\ got' \in Seq(Frames)
        /\ heard' \in Seq(Frames \cup {Garbled}) /\ calls' \in 0 .. MaxCalls
        /\ UNCHANGED <<proc_event, phy_frame_buf, phy_frame_pos,
                       phy_frame_filled, pack_class, fi, air>>
    <3>1. /\ added' = <<>> /\ got' = <<>> /\ heard' = <<>> /\ calls' = 0
          /\ UNCHANGED <<proc_event, phy_frame_buf, phy_frame_pos,
                         phy_frame_filled, pack_class, fi, air>>
      BY <1>4, Zenon DEF Finish
    <3>2. <<>> \in Seq(Frames) /\ <<>> \in Seq(Frames \cup {Garbled})
      OBVIOUS
    <3> QED
      BY <3>1, <3>2
  <2>1. CASE waiting = <<>>
    <3>1. /\ pc' = [pc EXCEPT ![t] = "out"] /\ phy_proc_mtx' = NoThread
          /\ waiting' = waiting
      BY <1>4, <2>1, Zenon DEF Finish
    <3> QED
      BY <2>0, <3>1
  <2>2. CASE waiting # <<>>
    <3>1. Head(waiting) \in Threads /\ Tail(waiting) \in Seq(Threads)
      BY <2>2, HeadTailProperties
    <3>2. pc' = [pc EXCEPT ![t] = "out", ![Head(waiting)] = "entering"]
      BY <1>4, <2>2 DEF Finish
    <3>3. phy_proc_mtx' = Head(waiting) /\ waiting' = Tail(waiting)
      BY <1>4, <2>2 DEF Finish
    <3>4. pc' \in [Threads -> {"out", "locking", "blocked", "entering",
                               "in", "tx", "rx"}]
      BY <3>1, <3>2
    <3>5. phy_proc_mtx' \in Threads \cup {NoThread} /\ waiting' \in Seq(Threads)
      BY <3>1, <3>3
    <3> QED
      BY <2>0, <3>4, <3>5
  <2> QED
    BY <2>1, <2>2
<1>5. CASE Config(t)
  BY <1>5 DEF Config, Call, history
<1>6. ASSUME NEW f \in Frames, AddFrame(t, f) PROVE TypeOK'
  <2> DEFINE pos == IF Restarted THEN 0 ELSE phy_frame_pos
             row == [by |-> t, frame |-> f,
                     class |-> pack_class, white |-> FALSE]
  <2>1. pos \in 0 .. NFrames - 1
    BY <1>6 DEF AddFrame, Full, Restarted, PhaseInv
  <2>2. row \in Slot
    BY DEF Slot
  <2>3. /\ phy_frame_buf' = [phy_frame_buf EXCEPT ![pos] = row]
        /\ phy_frame_pos' = pos + 1
    BY <1>6 DEF AddFrame
  <2>4. phy_frame_buf' \in [0 .. NFrames - 1 -> Slot]
    <3> HIDE DEF row, pos
    <3> QED
      BY <2>2, <2>3
  <2>5. phy_frame_pos' \in 0 .. NFrames + 1
    <3> HIDE DEF pos
    <3> QED
      BY <2>1, <2>3
  <2>6. phy_frame_filled' \in 0 .. NFrames + 1
    BY <1>6 DEF AddFrame
  <2>7. /\ added' \in Seq(Frames) /\ got' \in Seq(Frames)
        /\ heard' \in Seq(Frames \cup {Garbled})
    <3>1. added' = Append(added, f) /\ (got' = <<>> \/ got' = got)
          /\ (heard' = <<>> \/ heard' = heard)
      BY <1>6, Zenon DEF AddFrame
    <3>2. /\ added \in Seq(Frames) /\ got \in Seq(Frames)
          /\ heard \in Seq(Frames \cup {Garbled})
      OBVIOUS
    <3>3. <<>> \in Seq(Frames) /\ <<>> \in Seq(Frames \cup {Garbled})
      OBVIOUS
    <3>4. added' \in Seq(Frames)
      BY ONLY <3>1, <3>2, f \in Frames
    <3>5. got' \in Seq(Frames) /\ heard' \in Seq(Frames \cup {Garbled})
      BY ONLY <3>1, <3>2, <3>3
    <3> QED
      BY <3>4, <3>5
  <2>8. /\ proc_event' = "SEND" /\ calls' = calls + 1 /\ calls < MaxCalls
        /\ UNCHANGED <<pc, phy_proc_mtx, waiting, pack_class, fi, air>>
    BY <1>6, Zenon DEF AddFrame, Call
  <2> QED
    BY <2>4, <2>5, <2>6, <2>7, <2>8
<1>7. CASE AddRefused(t)
  <2>1. phy_frame_pos' \in 0 .. NFrames + 1
    BY <1>7 DEF AddRefused
  <2>2. phy_frame_filled' \in 0 .. NFrames + 1
    BY <1>7 DEF AddRefused
  <2>3. got' \in Seq(Frames) /\ heard' \in Seq(Frames \cup {Garbled})
    <3>1. (got' = <<>> \/ got' = got) /\ (heard' = <<>> \/ heard' = heard)
      BY <1>7, Zenon DEF AddRefused
    <3>2. got \in Seq(Frames) /\ heard \in Seq(Frames \cup {Garbled})
      OBVIOUS
    <3>3. <<>> \in Seq(Frames) /\ <<>> \in Seq(Frames \cup {Garbled})
      OBVIOUS
    <3> QED
      BY ONLY <3>1, <3>2, <3>3
  <2> QED
    BY <1>7, <2>1, <2>2, <2>3 DEF AddRefused, Call
<1>8. CASE SendBusy(t)
  BY <1>8 DEF SendBusy, Call, history
<1>9. CASE SendStart(t)
  <2>1. ASSUME NEW i \in 0 .. NFrames - 1
        PROVE  /\ phy_frame_buf[i] \in Slot
               /\ [phy_frame_buf[i] EXCEPT !.white = ~ phy_frame_buf[i].white]
                    \in Slot
    <3>1. phy_frame_buf[i] \in Slot
      OBVIOUS
    <3> QED
      BY <3>1, Zenon DEF Slot
  <2>2. phy_frame_buf' = Whitened(phy_frame_buf)
    BY <1>9 DEF SendStart
  <2>3. phy_frame_buf' \in [0 .. NFrames - 1 -> Slot]
    BY <2>1, <2>2 DEF Whitened
  <2> QED
    BY <1>9, <2>3 DEF SendStart, Call
<1>10. CASE SendFrame(t)
  BY <1>10 DEF SendFrame, PhaseInv
<1>11. CASE SendDone(t)
  BY <1>11 DEF SendDone
<1>12. CASE Listen(t)
  BY <1>12 DEF Listen, Call
<1>13. CASE ListenTimeout(t)
  BY <1>13 DEF ListenTimeout, history
<1>14. CASE ReadBroken(t)
  <2>1. fi \in 0 .. NFrames - 1
    BY <1>14 DEF ReadBroken, PhaseInv
  <2>2. phy_frame_buf' \in [0 .. NFrames - 1 -> Slot]
    BY <1>14, FilledType DEF ReadBroken
  <2>3. phy_frame_filled' \in 0 .. NFrames + 1
    <3>1. phy_frame_filled' = (fi + 1) % 256 /\ fi + 1 \in 0 .. 256
      BY <1>14, <2>1 DEF ReadBroken, ListenReturns
    <3>2. (fi + 1) % 256 \in 0 .. (fi + 1)
      BY <3>1, CountByte
    <3> QED
      BY <2>1, <3>1, <3>2
  <2>4. /\ pc' = [pc EXCEPT ![t] = "in"] /\ phy_frame_pos' = 0 /\ fi' = 0
        /\ UNCHANGED <<phy_proc_mtx, waiting, proc_event, pack_class, calls,
                       added, air, heard, got>>
    BY <1>14, Zenon DEF ReadBroken, ListenReturns
  <2> QED
    BY <2>2, <2>3, <2>4
<1>15. ASSUME NEW f \in Frames \cup {Garbled}, NEW cont \in BOOLEAN,
              ReadFrame(t, f, cont)
       PROVE  TypeOK'
  <2>1. fi \in 0 .. NFrames - 1
    BY <1>15 DEF ReadFrame, PhaseInv
  <2>2. phy_frame_buf' \in [0 .. NFrames - 1 -> Slot]
    BY <1>15, FilledType DEF ReadFrame
  <2>3. heard' \in Seq(Frames \cup {Garbled})
    BY <1>15, AppendProperties DEF ReadFrame
  <2>4. CASE cont /\ fi + 1 < NFrames
    BY <1>15, <2>1, <2>2, <2>3, <2>4 DEF ReadFrame
  <2>5. CASE ~(cont /\ fi + 1 < NFrames)
    <3>1. phy_frame_filled' \in 0 .. NFrames + 1
      <4>1. PICK i \in {fi, NFrames} : phy_frame_filled' = (i + 1) % 256
        BY <1>15, <2>5, Zenon DEF ReadFrame, ListenReturns
      <4>2. i + 1 \in 0 .. 256 /\ i <= NFrames
        BY <2>1
      <4>3. (i + 1) % 256 \in 0 .. (i + 1)
        BY <4>2, CountByte
      <4> QED
        BY <4>1, <4>2, <4>3
    <3>2. /\ pc' = [pc EXCEPT ![t] = "in"] /\ phy_frame_pos' = 0 /\ fi' = 0
          /\ UNCHANGED <<phy_proc_mtx, waiting, proc_event, pack_class, calls,
                         added, air, got>>
      BY <1>15, <2>5, Zenon DEF ReadFrame, ListenReturns
    <3> QED
      BY <2>2, <2>3, <3>1, <3>2
  <2> QED
    BY <2>4, <2>5
<1>16. CASE GetFrame(t)
  BY <1>16 DEF GetFrame, Fetch, Call, Intact, Slot
<1>17. CASE GetBadCrc(t)
  BY <1>17 DEF GetBadCrc, Fetch, Call, history
<1>18. CASE GetNoSpace(t)
  BY <1>18 DEF GetNoSpace, Fetch, Call, history
<1> HIDE DEF IInv, TypeOK, Events, Classes
<1> QED
  BY <1>1, <1>2, <1>3, <1>4, <1>5, <1>6, <1>7, <1>8, <1>9, <1>10, <1>11,
     <1>12, <1>13, <1>14, <1>15, <1>16, <1>17, <1>18 DEF InProcedure

\* The mutex and its queue go on telling who may touch the buffer: only taking,
\* queueing and handing over have to be looked at.
LEMMA ExclusiveStep == TypeOK /\ ProcedureExclusive /\ Next => ProcedureExclusive'
<1> SUFFICES ASSUME TypeOK, ProcedureExclusive, NEW t \in Threads,
                    StartWrite(t) \/ InProcedure(t)
             PROVE  ProcedureExclusive'
  BY DEF Next
<1>0. /\ pc \in [Threads -> {"out", "locking", "blocked", "entering",
                             "in", "tx", "rx"}]
      /\ phy_proc_mtx \in Threads \cup {NoThread}
      /\ waiting \in Seq(Threads)
  BY DEF TypeOK
<1>1. CASE StartWrite(t)
  BY <1>0, <1>1 DEF StartWrite, ProcedureExclusive, Holding
<1>2. CASE StartLock(t)
  <2>1. CASE phy_proc_mtx = NoThread
    <3>1. phy_proc_mtx' = t /\ pc' = [pc EXCEPT ![t] = "entering"]
          /\ waiting' = waiting /\ pc[t] = "locking"
      BY <1>2, <2>1 DEF StartLock
    <3> QED
      BY <1>0, <2>1, <3>1 DEF ProcedureExclusive, Holding
  <2>2. CASE phy_proc_mtx # NoThread
    <3>1. phy_proc_mtx' = phy_proc_mtx /\ pc' = [pc EXCEPT ![t] = "blocked"]
          /\ waiting' = Append(waiting, t) /\ pc[t] = "locking"
      BY <1>2, <2>2 DEF StartLock
    <3>2. /\ Len(waiting') = Len(waiting) + 1
          /\ waiting'[Len(waiting) + 1] = t
          /\ \A i \in 1 .. Len(waiting) : waiting'[i] = waiting[i]
          /\ Len(waiting) \in Nat
      BY <1>0, <3>1
    <3>3. \A i \in 1 .. Len(waiting) : waiting[i] # t
      BY <3>1 DEF ProcedureExclusive
    <3>4. \A i, j \in 1 .. Len(waiting') : waiting'[i] = waiting'[j] => i = j
      BY <3>2, <3>3 DEF ProcedureExclusive
    <3>5. \A u \in Threads : pc'[u] = "blocked" <=>
                \E i \in 1 .. Len(waiting') : waiting'[i] = u
      BY <1>0, <3>1, <3>2 DEF ProcedureExclusive
    <3>6. \A u \in Threads : pc'[u] \in Holding <=> phy_proc_mtx' = u
      BY <1>0, <3>1 DEF ProcedureExclusive, Holding
    <3> QED
      BY <2>2, <3>1, <3>4, <3>5, <3>6 DEF ProcedureExclusive
  <2> QED
    BY <2>1, <2>2
<1>3. CASE StartReset(t)
  BY <1>0, <1>3 DEF StartReset, ProcedureExclusive, Holding
<1>4. CASE Finish(t)
  <2>1. CASE waiting = <<>>
    <3>1. phy_proc_mtx' = NoThread /\ pc' = [pc EXCEPT ![t] = "out"]
          /\ waiting' = waiting /\ pc[t] = "in"
      BY <1>4, <2>1 DEF Finish
    <3> QED
      BY <1>0, <2>1, <3>1 DEF ProcedureExclusive, Holding
  <2>2. CASE waiting # <<>>
    <3> DEFINE next == Head(waiting)
    <3>1. phy_proc_mtx' = next
          /\ pc' = [pc EXCEPT ![t] = "out", ![next] = "entering"]
          /\ waiting' = Tail(waiting) /\ pc[t] = "in"
      BY <1>4, <2>2 DEF Finish
    <3>2. /\ next = waiting[1] /\ next \in Threads /\ Len(waiting) \in Nat \ {0}
          /\ Len(waiting') = Len(waiting) - 1
          /\ \A i \in 1 .. Len(waiting') : waiting'[i] = waiting[i + 1]
      BY <1>0, <2>2, <3>1
    <3>3. pc[next] = "blocked" /\ next # t
      BY <3>1, <3>2 DEF ProcedureExclusive
    <3> HIDE DEF next
    <3>4. \A i, j \in 1 .. Len(waiting') : waiting'[i] = waiting'[j] => i = j
      BY <3>2 DEF ProcedureExclusive
    <3>5. \A u \in Threads : pc'[u] = "blocked" <=> pc[u] = "blocked" /\ u # next
      BY <1>0, <3>1, <3>2, <3>3
    <3>6. \A u \in Threads : (pc[u] = "blocked" /\ u # next) <=>
                \E i \in 1 .. Len(waiting') : waiting'[i] = u
      <4>1. ASSUME NEW u \in Threads, pc[u] = "blocked", u # next
            PROVE  \E i \in 1 .. Len(waiting') : waiting'[i] = u
        <5>1. PICK i \in 1 .. Len(waiting) : waiting[i] = u
          BY <4>1 DEF ProcedureExclusive
        <5>2. i - 1 \in 1 .. Len(waiting')
          BY <3>2, <4>1, <5>1
        <5>3. waiting'[i - 1] = u
          BY <3>2, <5>1, <5>2
        <5> QED
          BY <5>2, <5>3
      <4>2. ASSUME NEW u \in Threads, NEW i \in 1 .. Len(waiting'),
                   waiting'[i] = u
            PROVE  pc[u] = "blocked" /\ u # next
        <5>1. i + 1 \in 1 .. Len(waiting) /\ waiting[i + 1] = u /\ i + 1 # 1
              /\ 1 \in 1 .. Len(waiting)
          BY <3>2, <4>2
        <5> QED
          BY <3>2, <5>1 DEF ProcedureExclusive
      <4> QED
        BY <4>1, <4>2
    <3>7. \A u \in Threads : pc'[u] \in Holding <=> phy_proc_mtx' = u
      BY <1>0, <3>1, <3>2, <3>3 DEF ProcedureExclusive, Holding
    <3>8. phy_proc_mtx' # NoThread
      BY <3>1, <3>2
    <3> QED
      BY <3>4, <3>5, <3>6, <3>7, <3>8 DEF ProcedureExclusive
  <2> QED
    BY <2>1, <2>2
<1>5. CASE \/ Config(t) \/ (\E f \in Frames : AddFrame(t, f)) \/ AddRefused(t)
           \/ SendBusy(t) \/ SendFrame(t)
           \/ GetFrame(t) \/ GetBadCrc(t) \/ GetNoSpace(t)
  <2>1. UNCHANGED <<pc, phy_proc_mtx, waiting>>
    BY <1>5, Zenon DEF Config, AddFrame, AddRefused, SendBusy, SendFrame,
                       GetFrame, GetBadCrc, GetNoSpace
  <2> QED
    BY <2>1 DEF ProcedureExclusive
<1>6. CASE SendStart(t) \/ Listen(t)
  <2>1. pc[t] = "in" /\ (pc' = [pc EXCEPT ![t] = "tx"] \/ pc' = [pc EXCEPT ![t] = "rx"])
        /\ UNCHANGED <<phy_proc_mtx, waiting>>
    BY <1>6 DEF SendStart, Listen, Call
  <2> QED
    BY <2>1, InsideKeepsExclusive
<1>7. CASE SendDone(t) \/ ListenTimeout(t) \/ ReadBroken(t)
  <2>1. pc[t] \in {"tx", "rx"} /\ pc' = [pc EXCEPT ![t] = "in"]
        /\ UNCHANGED <<phy_proc_mtx, waiting>>
    BY <1>7 DEF SendDone, ListenTimeout, ReadBroken, ListenReturns
  <2> QED
    BY <2>1, InsideKeepsExclusive
<1>8. ASSUME NEW f \in Frames \cup {Garbled}, NEW cont \in BOOLEAN,
             ReadFrame(t, f, cont)
      PROVE  ProcedureExclusive'
  <2>1. pc[t] = "rx" /\ (pc' = pc \/ pc' = [pc EXCEPT ![t] = "in"])
        /\ UNCHANGED <<phy_proc_mtx, waiting>>
    BY <1>8, Zenon DEF ReadFrame, ListenReturns
  <2>2. CASE pc' = pc
    BY <2>1, <2>2 DEF ProcedureExclusive
  <2>3. CASE pc' = [pc EXCEPT ![t] = "in"]
    BY <2>1, <2>3, InsideKeepsExclusive
  <2> QED
    BY <2>1, <2>2, <2>3
<1> QED
  BY <1>1, <1>2, <1>3, <1>4, <1>5, <1>6, <1>7, <1>8 DEF InProcedure

\* Every step preserves the phases.  Only the owner of the mutex moves the
\* buffer; the one thing another thread can do to it is to set proc_event to
\* "START", which no conjunct minds.
LEMMA PhaseStep == IInv /\ Next => PhaseInv'
<1> SUFFICES ASSUME IInv, NEW t \in Threads, StartWrite(t) \/ InProcedure(t)
             PROVE  PhaseInv'
  BY DEF Next
<1>0. /\ pc \in [Threads -> {"out", "locking", "blocked", "entering",
                             "in", "tx", "rx"}]
      /\ phy_frame_pos \in 0 .. NFrames + 1
      /\ phy_frame_filled \in 0 .. NFrames + 1
      /\ fi \in 0 .. NFrames
      /\ added \in Seq(Frames)
  BY DEF IInv, TypeOK
<1>a. PhaseInv /\ \A u \in Threads : pc[u] \in Holding <=> phy_proc_mtx = u
  BY DEF IInv, ProcedureExclusive
<1>1. CASE StartWrite(t)
  BY <1>0, <1>a, <1>1 DEF StartWrite, PhaseInv
<1>2. CASE StartLock(t)
  <2>1. /\ pc[t] = "locking"
        /\ pc' = [pc EXCEPT ![t] = "entering"] \/ pc' = [pc EXCEPT ![t] = "blocked"]
        /\ UNCHANGED <<fi, added, proc_event, phy_frame_pos, phy_frame_filled>>
    BY <1>2, Zenon DEF StartLock, history
  <2> QED
    BY <1>0, <1>a, <2>1 DEF PhaseInv
<1>3. CASE StartReset(t)
  BY <1>0, <1>a, <1>3 DEF StartReset, PhaseInv, Holding
<1>4. CASE Finish(t)
  <2>1. /\ pc[t] = "in" /\ added' = <<>>
        /\ \A u \in Threads : pc'[u] \in {"in", "tx", "rx"} => pc'[u] = pc[u] /\ u # t
        /\ UNCHANGED <<fi, proc_event, phy_frame_pos, phy_frame_filled>>
    <3>1. \/ pc' = [pc EXCEPT ![t] = "out"]
          \/ pc' = [pc EXCEPT ![t] = "out", ![Head(waiting)] = "entering"]
      BY <1>4, Zenon DEF Finish
    <3>2. /\ pc[t] = "in" /\ added' = <<>>
          /\ UNCHANGED <<fi, proc_event, phy_frame_pos, phy_frame_filled>>
      BY <1>4 DEF Finish
    <3> QED
      BY <1>0, <3>1, <3>2
  <2> QED
    BY <1>0, <1>a, <2>1 DEF PhaseInv, Holding
<1>5. CASE Config(t) \/ SendBusy(t) \/ GetNoSpace(t)
  <2>1. UNCHANGED <<pc, fi, added, proc_event, phy_frame_pos, phy_frame_filled>>
    BY <1>5, Zenon DEF Config, SendBusy, GetNoSpace, history
  <2> QED
    BY <1>a, <2>1 DEF PhaseInv
<1>6. ASSUME NEW f \in Frames, AddFrame(t, f) PROVE PhaseInv'
  <2>1. /\ pc[t] = "in" /\ pc' = pc /\ proc_event' = "SEND" /\ fi' = fi
        /\ added' = Append(added, f)
    BY <1>6, Zenon DEF AddFrame, Call
  <2>2. CASE proc_event = "SEND"
    <3>1. phy_frame_pos # NFrames /\ phy_frame_pos' = phy_frame_pos + 1
          /\ phy_frame_filled' = phy_frame_filled
      BY <1>6, <2>2 DEF AddFrame, Full, Restarted
    <3> QED
      BY <1>0, <1>a, <2>1, <2>2, <3>1 DEF PhaseInv, Holding
  <2>3. CASE proc_event # "SEND"
    <3>1. phy_frame_pos' = 1 /\ phy_frame_filled' = 0
      BY <1>6, <2>3 DEF AddFrame, Full, Restarted
    <3> QED
      BY <1>0, <1>a, <2>1, <2>3, <3>1 DEF PhaseInv, Holding
  <2> QED
    BY <2>2, <2>3
<1>7. CASE AddRefused(t)
  <2>1. /\ pc[t] = "in" /\ pc' = pc /\ proc_event' = "SEND" /\ fi' = fi
        /\ added' = added
    BY <1>7, Zenon DEF AddRefused, Call
  <2>2. CASE proc_event = "SEND"
    <3>1. UNCHANGED <<phy_frame_pos, phy_frame_filled>>
      BY <1>7, <2>2 DEF AddRefused, Restarted
    <3> QED
      BY <1>0, <1>a, <2>1, <2>2, <3>1 DEF PhaseInv, Holding
  <2>3. CASE proc_event # "SEND"
    <3>1. phy_frame_pos' = 0 /\ phy_frame_filled' = 0
      BY <1>7, <2>3 DEF AddRefused, Restarted
    <3> QED
      BY <1>0, <1>a, <2>1, <2>3, <3>1 DEF PhaseInv, Holding
  <2> QED
    BY <2>2, <2>3
<1>8. CASE SendStart(t)
  <2>1. /\ pc[t] = "in" /\ pc' = [pc EXCEPT ![t] = "tx"] /\ added # <<>> /\ fi' = 0
        /\ UNCHANGED <<added, proc_event, phy_frame_pos, phy_frame_filled>>
    BY <1>8 DEF SendStart, Call
  <2> QED
    BY <1>0, <1>a, <2>1 DEF PhaseInv, Holding
<1>9. CASE SendFrame(t)
  <2>1. /\ pc[t] = "tx" /\ pc' = pc /\ fi < phy_frame_pos /\ fi' = fi + 1
        /\ UNCHANGED <<added, proc_event, phy_frame_pos, phy_frame_filled>>
    BY <1>9 DEF SendFrame
  <2> QED
    BY <1>0, <1>a, <2>1 DEF PhaseInv, Holding
<1>10. CASE SendDone(t)
  BY <1>0, <1>a, <1>10 DEF SendDone, PhaseInv, Holding
<1>11. CASE Listen(t)
  BY <1>0, <1>a, <1>11 DEF Listen, Call, PhaseInv, Holding
<1>12. CASE ListenTimeout(t)
  <2>1. /\ pc[t] = "rx" /\ pc' = [pc EXCEPT ![t] = "in"]
        /\ UNCHANGED <<fi, added, proc_event, phy_frame_pos, phy_frame_filled>>
    BY <1>12, Zenon DEF ListenTimeout, history
  <2> QED
    BY <1>0, <1>a, <2>1 DEF PhaseInv, Holding
<1>13. CASE ReadBroken(t)
  <2>1. /\ pc[t] = "rx" /\ pc' = [pc EXCEPT ![t] = "in"] /\ phy_frame_pos' = 0
        /\ UNCHANGED <<added, proc_event>>
    BY <1>13, Zenon DEF ReadBroken, ListenReturns
  <2> QED
    BY <1>0, <1>a, <2>1 DEF PhaseInv, Holding
<1>14. ASSUME NEW f \in Frames \cup {Garbled}, NEW cont \in BOOLEAN,
              ReadFrame(t, f, cont)
       PROVE  PhaseInv'
  <2>1. pc[t] = "rx" /\ UNCHANGED <<added, proc_event>>
    BY <1>14, Zenon DEF ReadFrame
  <2>2. CASE cont /\ fi + 1 < NFrames
    <3>1. UNCHANGED <<pc, phy_frame_pos, phy_frame_filled>> /\ fi' = fi + 1
      BY <1>14, <2>2 DEF ReadFrame
    <3> QED
      BY <1>0, <1>a, <2>1, <2>2, <3>1 DEF PhaseInv, Holding
  <2>3. CASE ~(cont /\ fi + 1 < NFrames)
    <3>1. pc' = [pc EXCEPT ![t] = "in"] /\ phy_frame_pos' = 0
      BY <1>14, <2>3, Zenon DEF ReadFrame, ListenReturns
    <3> QED
      BY <1>0, <1>a, <2>1, <3>1 DEF PhaseInv, Holding
  <2> QED
    BY <2>2, <2>3
<1>15. CASE GetFrame(t) \/ GetBadCrc(t)
  <2>1. /\ pc[t] = "in" /\ pc' = pc /\ phy_frame_pos < phy_frame_filled
        /\ phy_frame_pos' = phy_frame_pos + 1
        /\ UNCHANGED <<fi, added, proc_event, phy_frame_filled>>
    BY <1>15, Zenon DEF GetFrame, GetBadCrc, Fetch, Call, history
  <2> QED
    BY <1>0, <1>a, <2>1 DEF PhaseInv, Holding
<1> QED
  BY <1>1, <1>2, <1>3, <1>4, <1>5, <1>6, <1>7, <1>8, <1>9, <1>10, <1>11,
     <1>12, <1>13, <1>14, <1>15 DEF InProcedure

\* A step that changes no variable changes no invariant.
LEMMA StutterIInv == IInv /\ UNCHANGED vars => IInv'
  BY DEF IInv, TypeOK, ProcedureExclusive, PhaseInv, vars, history

THEOREM Invariance == Spec => []IInv
<1>1. IInv /\ [Next]_vars => IInv'
  BY TypeStep, ExclusiveStep, PhaseStep, StutterIInv DEF IInv
<1> QED
  BY InitIInv, <1>1, PTL DEF Spec

\* The types hold in every reachable state, for every number of threads and
\* every buffer size: no index leaves 0 .. NFrames + 1.
THEOREM TypeCorrect == Spec => []TypeOK
  BY Invariance, PTL DEF IInv

\* One thread at a time runs a procedure and the queue of the mutex loses
\* nobody, whatever the threads do.
THEOREM MutualExclusion == Spec => []ProcedureExclusive
  BY Invariance, PTL DEF IInv

----------------------------------------------------------------------------
(* No frame is lost but to another thread's phy_proc_start. *)

KeepInv ==
    ~overtaken /\ added # <<>> =>
        proc_event = "SEND" /\ phy_frame_pos = Len(added)

LEMMA KeepStep == IInv /\ KeepInv /\ Next => KeepInv'
<1> SUFFICES ASSUME IInv, KeepInv, NEW t \in Threads,
                    StartWrite(t) \/ InProcedure(t)
             PROVE  KeepInv'
  BY DEF Next
<1>0. /\ phy_frame_pos \in 0 .. NFrames + 1 /\ added \in Seq(Frames)
      /\ PhaseInv /\ \A u \in Threads : pc[u] \in Holding <=> phy_proc_mtx = u
  BY DEF IInv, TypeOK, ProcedureExclusive
<1>1. CASE StartWrite(t)
  <2>1. /\ phy_proc_mtx = NoThread => added = <<>>
    BY <1>0 DEF PhaseInv, Holding
  <2>2. added' = added /\ (phy_proc_mtx # NoThread => overtaken')
    BY <1>1, Zenon DEF StartWrite
  <2> QED
    BY <2>1, <2>2 DEF KeepInv
<1>2. CASE StartLock(t) \/ Config(t) \/ SendBusy(t) \/ GetNoSpace(t)
           \/ SendStart(t) \/ SendFrame(t) \/ ListenTimeout(t)
  <2>1. UNCHANGED <<overtaken, added, proc_event, phy_frame_pos>>
    BY <1>2, Zenon DEF StartLock, Config, SendBusy, GetNoSpace, SendStart,
                       SendFrame, ListenTimeout, history
  <2> QED
    BY <2>1 DEF KeepInv
<1>3. CASE StartReset(t)
  <2>1. added = <<>> /\ added' = added
    BY <1>0, <1>3 DEF StartReset, PhaseInv, Holding
  <2> QED
    BY <2>1 DEF KeepInv
<1>4. CASE Finish(t) \/ SendDone(t) \/ Listen(t)
  <2>1. added' = <<>>
    BY <1>4, Zenon DEF Finish, SendDone, Listen
  <2> QED
    BY <2>1 DEF KeepInv
<1>5. ASSUME NEW f \in Frames, AddFrame(t, f) PROVE KeepInv'
  <2>1. /\ pc[t] = "in" /\ proc_event' = "SEND" /\ added' = Append(added, f)
        /\ overtaken' = overtaken
    BY <1>5, Zenon DEF AddFrame, Call
  <2>2. CASE proc_event = "SEND"
    <3>1. phy_frame_pos' = phy_frame_pos + 1
      BY <1>5, <2>2 DEF AddFrame, Restarted
    <3>2. ~overtaken => phy_frame_pos = Len(added)
      BY <1>0, <2>1, <2>2 DEF KeepInv, PhaseInv
    <3> QED
      BY <1>0, <2>1, <3>1, <3>2 DEF KeepInv
  <2>3. CASE proc_event # "SEND"
    <3>1. phy_frame_pos' = 1
      BY <1>5, <2>3 DEF AddFrame, Restarted
    <3>2. ~overtaken => added = <<>>
      BY <2>3 DEF KeepInv
    <3> QED
      BY <1>0, <2>1, <3>1, <3>2 DEF KeepInv
  <2> QED
    BY <2>2, <2>3
<1>6. CASE AddRefused(t)
  <2>1. proc_event' = "SEND" /\ UNCHANGED <<added, overtaken>>
    BY <1>6, Zenon DEF AddRefused
  <2>2. CASE proc_event = "SEND"
    <3>1. phy_frame_pos' = phy_frame_pos
      BY <1>6, <2>2 DEF AddRefused, Restarted
    <3> QED
      BY <2>1, <2>2, <3>1 DEF KeepInv
  <2>3. CASE proc_event # "SEND"
    BY <2>1, <2>3 DEF KeepInv
  <2> QED
    BY <2>2, <2>3
<1>7. CASE ReadBroken(t) \/ (\E f \in Frames \cup {Garbled}, cont \in BOOLEAN :
                                ReadFrame(t, f, cont))
  <2>1. pc[t] = "rx" /\ added' = added
    BY <1>7, Zenon DEF ReadBroken, ReadFrame
  <2> QED
    BY <1>0, <2>1 DEF KeepInv, PhaseInv
<1>8. CASE GetFrame(t) \/ GetBadCrc(t)
  <2>1. pc[t] = "in" /\ phy_frame_pos < phy_frame_filled /\ added' = added
    BY <1>8, Zenon DEF GetFrame, GetBadCrc, Fetch, Call, history
  <2> QED
    BY <1>0, <2>1 DEF KeepInv, PhaseInv
<1> QED
  BY <1>1, <1>2, <1>3, <1>4, <1>5, <1>6, <1>7, <1>8 DEF InProcedure

\* As long as no other thread calls phy_proc_start, the packet holds every
\* frame added for it: proc_event_handler (phy.c:64) loses frames to the write
\* of phy.c:294 only.
THEOREM NothingElseLosesFrames == Spec => []LostOnlyWhenOvertaken
<1>1. Init => KeepInv
  BY DEF Init, KeepInv
<1>2. IInv /\ KeepInv /\ [Next]_vars => KeepInv'
  BY KeepStep DEF KeepInv, vars, history
<1>3. KeepInv => LostOnlyWhenOvertaken
  BY DEF KeepInv, LostOnlyWhenOvertaken
<1> QED
  BY Invariance, <1>1, <1>2, <1>3, PTL DEF Spec

----------------------------------------------------------------------------
(* The rows to be sent are the procedure's own, whatever it configures in    *)
(* between.                                                                  *)

\* BufferIsOwn without the owner's name, which the mutex supplies.
Rows ==
    /\ phy_frame_pos \in 1 .. Len(added)
    /\ \A i \in 0 .. phy_frame_pos - 1 :
          /\ phy_frame_buf[i].by = phy_proc_mtx
          /\ phy_frame_buf[i].frame = added[Len(added) - phy_frame_pos + i + 1]

Aired ==
    /\ Len(air) = fi
    /\ \A i \in 1 .. Len(air) :
          /\ air[i].by = phy_proc_mtx
          /\ air[i].frame = added[Len(added) - phy_frame_pos + i]

OwnInv ==
    /\ added # <<>> => Rows
    /\ \A t \in Threads : pc[t] = "tx" => Aired

\* Steps that touch neither the frames of the packet nor the send loop.
LEMMA OwnUntouched ==
    ASSUME OwnInv,
           \A t \in Threads : pc'[t] = "tx" => pc[t] = "tx",
           UNCHANGED <<added, air, fi, phy_proc_mtx, phy_frame_pos,
                       phy_frame_buf>>
    PROVE  OwnInv'
  BY DEF OwnInv, Rows, Aired

\* Once nothing is added and nothing sent there is nothing to show.
LEMMA OwnNothing ==
    ASSUME added' = <<>>, \A t \in Threads : pc'[t] # "tx"
    PROVE  OwnInv'
  BY DEF OwnInv

LEMMA OwnStep == IInv /\ OwnInv /\ Next => OwnInv'
<1> SUFFICES ASSUME IInv, OwnInv, NEW t \in Threads,
                    StartWrite(t) \/ InProcedure(t)
             PROVE  OwnInv'
  BY DEF Next
<1>0. /\ pc \in [Threads -> {"out", "locking", "blocked", "entering",
                             "in", "tx", "rx"}]
      /\ phy_frame_pos \in 0 .. NFrames + 1 /\ added \in Seq(Frames)
      /\ fi \in 0 .. NFrames
      /\ phy_frame_buf \in [0 .. NFrames - 1 -> Slot] /\ air \in Seq(Slot)
      /\ PhaseInv /\ \A u \in Threads : pc[u] \in Holding <=> phy_proc_mtx = u
  BY DEF IInv, TypeOK, ProcedureExclusive
<1>1. CASE StartWrite(t)
  <2>1. pc' = [pc EXCEPT ![t] = "locking"]
        /\ UNCHANGED <<added, air, fi, phy_proc_mtx, phy_frame_pos,
                       phy_frame_buf>>
    BY <1>1, Zenon DEF StartWrite
  <2> QED
    BY <1>0, <2>1, OwnUntouched
<1>2. CASE StartLock(t)
  <2>1. CASE phy_proc_mtx = NoThread
    <3>1. added = <<>> /\ \A u \in Threads : pc[u] # "tx"
      BY <1>0, <2>1 DEF PhaseInv, Holding
    <3>2. added' = added /\ pc' = [pc EXCEPT ![t] = "entering"]
      BY <1>2, <2>1, Zenon DEF StartLock, history
    <3> QED
      BY <1>0, <3>1, <3>2, OwnNothing
  <2>2. CASE phy_proc_mtx # NoThread
    <3>1. pc' = [pc EXCEPT ![t] = "blocked"]
          /\ UNCHANGED <<added, air, fi, phy_proc_mtx, phy_frame_pos,
                         phy_frame_buf>>
      BY <1>2, <2>2, Zenon DEF StartLock, history
    <3> QED
      BY <1>0, <3>1, OwnUntouched
  <2> QED
    BY <2>1, <2>2
<1>3. CASE StartReset(t)
  <2>1. added = <<>> /\ \A u \in Threads : pc[u] # "tx"
    BY <1>0, <1>3 DEF StartReset, PhaseInv, Holding
  <2>2. added' = added /\ pc' = [pc EXCEPT ![t] = "in"]
    BY <1>3, Zenon DEF StartReset
  <2> QED
    BY <1>0, <2>1, <2>2, OwnNothing
<1>4. CASE Finish(t)
  <2>1. pc[t] = "in" /\ \A u \in Threads : pc[u] # "tx"
    BY <1>0, <1>4 DEF Finish, Holding
  <2>2. added' = <<>> /\
        \/ pc' = [pc EXCEPT ![t] = "out"]
        \/ pc' = [pc EXCEPT ![t] = "out", ![Head(waiting)] = "entering"]
    BY <1>4, Zenon DEF Finish
  <2> QED
    BY <1>0, <2>1, <2>2, OwnNothing
<1>5. CASE Config(t) \/ SendBusy(t) \/ GetNoSpace(t)
  <2>1. /\ pc' = pc
        /\ UNCHANGED <<added, air, fi, phy_proc_mtx, phy_frame_pos,
                       phy_frame_buf>>
    BY <1>5, Zenon DEF Config, SendBusy, GetNoSpace, Fetch, Call, history
  <2> QED
    BY <1>0, <2>1, OwnUntouched
<1>6. ASSUME NEW f \in Frames, AddFrame(t, f) PROVE OwnInv'
  <2> DEFINE pos == IF Restarted THEN 0 ELSE phy_frame_pos
             row == [by |-> t, frame |-> f,
                     class |-> pack_class, white |-> FALSE]
  <2>1. /\ pc[t] = "in" /\ pc' = pc /\ pos # NFrames
        /\ phy_frame_buf' = [phy_frame_buf EXCEPT ![pos] = row]
        /\ phy_frame_pos' = pos + 1 /\ added' = Append(added, f)
        /\ phy_proc_mtx' = phy_proc_mtx
    BY <1>6, Zenon DEF AddFrame, Call, Full
  <2>2. pos \in 0 .. NFrames - 1
    BY <1>0, <2>1 DEF PhaseInv, Restarted
  <2>3. pos <= Len(added) /\ \A i \in 0 .. pos - 1 :
              /\ phy_frame_buf[i].by = t
              /\ phy_frame_buf[i].frame = added[Len(added) - pos + i + 1]
    <3>1. CASE Restarted
      BY <1>0, <3>1
    <3>2. CASE ~Restarted /\ added = <<>>
      BY <1>0, <2>1, <3>2 DEF Restarted, PhaseInv
    <3>3. CASE ~Restarted /\ added # <<>>
      BY <1>0, <2>1, <3>3 DEF OwnInv, Rows, Holding
    <3> QED
      BY <3>1, <3>2, <3>3
  <2>4. row.by = t /\ row.frame = f
    OBVIOUS
  <2>5. phy_proc_mtx = t /\ \A u \in Threads : pc[u] # "tx"
    BY <1>0, <2>1 DEF Holding
  <2>6. Rows'
    <3> HIDE DEF pos, row
    <3>1. /\ Len(added') = Len(added) + 1 /\ added'[Len(added) + 1] = f
          /\ \A i \in 1 .. Len(added) : added'[i] = added[i]
          /\ Len(added) \in Nat
      BY <1>0, <2>1
    <3>2. phy_frame_pos' \in 1 .. Len(added')
      BY <2>1, <2>2, <2>3, <3>1
    <3>3. ASSUME NEW i \in 0 .. pos
          PROVE  /\ phy_frame_buf'[i].by = t
                 /\ phy_frame_buf'[i].frame = added'[Len(added) - pos + i + 1]
      <4>1. CASE i = pos
        BY <1>0, <2>1, <2>2, <2>4, <3>1, <4>1
      <4>2. CASE i # pos
        <5>1. i \in 0 .. pos - 1 /\ phy_frame_buf'[i] = phy_frame_buf[i]
          BY <1>0, <2>1, <2>2, <4>2
        <5>2. Len(added) - pos + i + 1 \in 1 .. Len(added)
          BY <2>2, <2>3, <3>1, <5>1
        <5> QED
          BY <2>3, <3>1, <5>1, <5>2
      <4> QED
        BY <4>1, <4>2
    <3>4. /\ 0 .. phy_frame_pos' - 1 = 0 .. pos
          /\ \A i \in 0 .. pos :
                Len(added') - phy_frame_pos' + i + 1 = Len(added) - pos + i + 1
      BY <2>1, <2>2, <3>1
    <3> QED
      BY <2>1, <2>5, <3>2, <3>3, <3>4 DEF Rows
  <2> QED
    BY <1>0, <2>1, <2>5, <2>6 DEF OwnInv
<1>7. CASE AddRefused(t)
  <2>1. /\ pc[t] = "in" /\ pc' = pc
        /\ UNCHANGED <<added, phy_frame_buf, phy_proc_mtx>>
    BY <1>7, Zenon DEF AddRefused, Call
  <2>2. \A u \in Threads : pc[u] # "tx"
    BY <1>0, <2>1 DEF Holding
  <2>3. phy_frame_pos' = phy_frame_pos
    BY <1>7 DEF AddRefused, Full, Restarted
  <2> QED
    BY <1>0, <2>1, <2>2, <2>3 DEF OwnInv, Rows
<1>8. CASE SendStart(t)
  <2>1. /\ pc[t] = "in" /\ pc' = [pc EXCEPT ![t] = "tx"]
        /\ phy_frame_buf' = Whitened(phy_frame_buf) /\ fi' = 0 /\ air' = <<>>
        /\ UNCHANGED <<phy_proc_mtx, phy_frame_pos, added>>
    BY <1>8, Zenon DEF SendStart, Call
  <2>2. ASSUME NEW i \in 0 .. NFrames - 1
        PROVE  /\ phy_frame_buf'[i].by = phy_frame_buf[i].by
               /\ phy_frame_buf'[i].frame = phy_frame_buf[i].frame
    <3>1. \/ phy_frame_buf'[i] = phy_frame_buf[i]
          \/ phy_frame_buf'[i] = [phy_frame_buf[i] EXCEPT !.white =
                                        ~ phy_frame_buf[i].white]
      BY <1>0, <2>1, Zenon DEF Whitened
    <3>2. phy_frame_buf[i] \in Slot
      BY <1>0
    <3> QED
      BY ONLY <3>1, <3>2, Zenon DEF Slot
  <2>3. added # <<>> => Rows'
    <3>1. SUFFICES ASSUME added # <<>>
                   PROVE  Rows'
      OBVIOUS
    <3>2. Rows /\ phy_frame_pos <= NFrames
      BY <1>0, <3>1 DEF OwnInv, PhaseInv
    <3>3. 0 .. phy_frame_pos - 1 \subseteq 0 .. NFrames - 1
      BY <1>0, <3>2
    <3>4. /\ phy_frame_pos' = phy_frame_pos /\ added' = added
          /\ phy_proc_mtx' = phy_proc_mtx
      BY <2>1
    <3>5. \A i \in 0 .. phy_frame_pos - 1 :
            /\ phy_frame_buf'[i].by = phy_proc_mtx
            /\ phy_frame_buf'[i].frame =
                  added[Len(added) - phy_frame_pos + i + 1]
      BY <2>2, <3>2, <3>3 DEF Rows
    <3> QED
      BY <3>2, <3>4, <3>5 DEF Rows
  <2>4. Aired'
    BY <2>1 DEF Aired
  <2> QED
    BY <2>1, <2>3, <2>4 DEF OwnInv
<1>9. CASE SendFrame(t)
  <2>1. /\ pc[t] = "tx" /\ pc' = pc /\ fi < phy_frame_pos /\ fi' = fi + 1
        /\ air' = Append(air, phy_frame_buf[fi])
        /\ UNCHANGED <<added, phy_proc_mtx, phy_frame_pos, phy_frame_buf>>
    BY <1>9, Zenon DEF SendFrame
  <2>2. Aired /\ Rows /\ phy_frame_pos <= NFrames
    BY <1>0, <2>1 DEF OwnInv, PhaseInv
  <2>3. phy_frame_buf[fi].by = phy_proc_mtx
        /\ phy_frame_buf[fi].frame = added[Len(added) - phy_frame_pos + fi + 1]
    <3>1. fi \in 0 .. phy_frame_pos - 1
      BY <1>0, <2>1
    <3> QED
      BY <2>2, <3>1, Zenon DEF Rows
  <2>4. /\ Len(air') = fi + 1 /\ air'[fi + 1] = phy_frame_buf[fi]
        /\ \A i \in 1 .. fi : air'[i] = air[i]
    BY <1>0, <2>1, <2>2 DEF Aired
  <2>5. Aired'
    <3>1. ASSUME NEW i \in 1 .. fi + 1
          PROVE  /\ air'[i].by = phy_proc_mtx
                 /\ air'[i].frame = added[Len(added) - phy_frame_pos + i]
      <4>1. CASE i = fi + 1
        <5>1. Len(added) - phy_frame_pos + i = Len(added) - phy_frame_pos + fi + 1
          BY <1>0, <4>1
        <5> QED
          BY <2>3, <2>4, <4>1, <5>1, Zenon
      <4>2. CASE i # fi + 1
        <5>1. i \in 1 .. fi /\ i \in 1 .. Len(air)
          BY <1>0, <2>2, <4>2 DEF Aired
        <5>2. /\ air[i].by = phy_proc_mtx
              /\ air[i].frame = added[Len(added) - phy_frame_pos + i]
          BY <2>2, <5>1, Zenon DEF Aired
        <5> QED
          BY <2>4, <5>1, <5>2, Zenon
      <4> QED
        BY <4>1, <4>2
    <3> QED
      BY <2>1, <2>4, <3>1, Zenon DEF Aired
  <2> QED
    BY <2>1, <2>2, <2>5 DEF OwnInv, Rows
<1>10. CASE SendDone(t)
  <2>1. pc[t] = "tx" /\ pc' = [pc EXCEPT ![t] = "in"] /\ added' = <<>>
    BY <1>10, Zenon DEF SendDone
  <2> QED
    BY <1>0, <2>1, OwnNothing DEF Holding
<1>11. CASE Listen(t)
  <2>1. pc[t] = "in" /\ pc' = [pc EXCEPT ![t] = "rx"] /\ added' = <<>>
    BY <1>11, Zenon DEF Listen, Call
  <2> QED
    BY <1>0, <2>1, OwnNothing DEF Holding
<1>12. CASE ListenTimeout(t) \/ ReadBroken(t)
            \/ (\E f \in Frames \cup {Garbled}, cont \in BOOLEAN :
                    ReadFrame(t, f, cont))
  <2>1. pc[t] = "rx" /\ (pc' = pc \/ pc' = [pc EXCEPT ![t] = "in"]) /\ added' = added
    BY <1>12, Zenon
       DEF ListenTimeout, ReadBroken, ReadFrame, ListenReturns, history
  <2> QED
    BY <1>0, <2>1, OwnNothing DEF PhaseInv, Holding
<1>13. CASE GetFrame(t) \/ GetBadCrc(t)
  <2>1. pc[t] = "in" /\ pc' = pc /\ added' = added
        /\ phy_frame_pos < phy_frame_filled
    BY <1>13, Zenon DEF GetFrame, GetBadCrc, Fetch, Call, history
  <2> QED
    BY <1>0, <2>1, OwnNothing DEF PhaseInv, Holding
<1> QED
  BY <1>1, <1>2, <1>3, <1>4, <1>5, <1>6, <1>7, <1>8, <1>9, <1>10,
     <1>11, <1>12, <1>13 DEF InProcedure

LEMMA OwnInvariance == Spec => []OwnInv
<1>1. Init => OwnInv
  BY DEF Init, OwnInv
<1>2. IInv /\ OwnInv /\ [Next]_vars => OwnInv'
  BY OwnStep DEF OwnInv, Rows, Aired, vars, history
<1> QED
  BY Invariance, <1>1, <1>2, PTL DEF Spec

\* The rows phy_send_packet is going to take were all added by the procedure
\* that sends them, in order, and there is at least one.
THEOREM BufferOwnership == Spec => []BufferIsOwn
<1>1. IInv /\ OwnInv => BufferIsOwn
  BY DEF IInv, ProcedureExclusive, Holding, OwnInv, Rows, BufferIsOwn
<1> QED
  BY Invariance, OwnInvariance, <1>1, PTL

\* A packet on the air holds frames of its sender only, in the order added.
THEOREM PacketOwnership == Spec => []PacketIsOwn
<1>1. IInv /\ OwnInv => PacketIsOwn
  BY DEF IInv, ProcedureExclusive, Holding, OwnInv, Aired, PacketIsOwn
<1> QED
  BY Invariance, OwnInvariance, <1>1, PTL

----------------------------------------------------------------------------
(* What phy_receive_packet counts.                                           *)

\* While a packet is received the iterator counts its frames; once it has been
\* the rows are filled, the thread is back in its procedure and no frame has
\* been added since: phy_add_frame would have started the buffer afresh.
Count == Len(heard) + (IF ended = "whole" THEN 0 ELSE 1)

CountInv ==
    /\ \A t \in Threads : pc[t] = "rx" => ended = "none" /\ Len(heard) = fi
    /\ \A t \in Threads : pc[t] \in {"in", "rx"} /\ ended = "none" =>
            phy_frame_filled = 0
    /\ ended # "none" =>
         /\ \E t \in Threads : pc[t] = "in"
         /\ added = <<>> /\ proc_event # "SEND"
         /\ phy_frame_filled = Count % 256 /\ Len(heard) <= NFrames
         /\ ended = "over" => Len(heard) = NFrames
         /\ ended = "broken" => Len(heard) < NFrames
         /\ phy_frame_pos <= phy_frame_filled

\* Steps after which nothing counts as received and nobody receives.
LEMMA CountNothing ==
    ASSUME ended' = "none", \A t \in Threads : pc'[t] # "rx",
           \A t \in Threads : pc'[t] = "in" => phy_frame_filled' = 0
    PROVE  CountInv'
  BY DEF CountInv

\* Steps that leave the received packet alone, made by a thread that does not
\* leave its procedure.
LEMMA CountUntouched ==
    ASSUME CountInv, NEW t \in Threads,
           pc \in [Threads -> {"out", "locking", "blocked", "entering",
                               "in", "tx", "rx"}],
           \/ pc' = pc
           \/ pc[t] \notin Holding /\
              \E where \in {"locking", "blocked", "entering"} :
                  pc' = [pc EXCEPT ![t] = where],
           proc_event' \in {proc_event, "START"},
           UNCHANGED <<ended, heard, fi, added, phy_frame_filled, phy_frame_pos>>
    PROVE  CountInv'
  BY DEF CountInv, Count, Holding

LEMMA CountStep == IInv /\ CountInv /\ Next => CountInv'
<1> SUFFICES ASSUME IInv, CountInv, NEW t \in Threads,
                    StartWrite(t) \/ InProcedure(t)
             PROVE  CountInv'
  BY DEF Next
<1>0. /\ pc \in [Threads -> {"out", "locking", "blocked", "entering",
                             "in", "tx", "rx"}]
      /\ phy_frame_pos \in 0 .. NFrames + 1 /\ phy_frame_filled \in 0 .. NFrames + 1
      /\ fi \in 0 .. NFrames /\ heard \in Seq(Frames \cup {Garbled})
      /\ PhaseInv /\ \A u \in Threads : pc[u] \in Holding <=> phy_proc_mtx = u
  BY DEF IInv, TypeOK, ProcedureExclusive
<1>1. CASE StartWrite(t)
  <2>1. pc[t] = "out" /\ pc' = [pc EXCEPT ![t] = "locking"] /\ proc_event' = "START"
        /\ UNCHANGED <<ended, heard, fi, added, phy_frame_filled, phy_frame_pos>>
    BY <1>1, Zenon DEF StartWrite
  <2> QED
    BY <1>0, <2>1, CountUntouched DEF Holding
<1>2. CASE StartLock(t)
  <2>1. pc[t] = "locking" /\ (\/ pc' = [pc EXCEPT ![t] = "entering"]
                              \/ pc' = [pc EXCEPT ![t] = "blocked"])
        /\ UNCHANGED <<ended, heard, fi, added, proc_event,
                       phy_frame_filled, phy_frame_pos>>
    BY <1>2, Zenon DEF StartLock, history
  <2> QED
    BY <1>0, <2>1, CountUntouched DEF Holding
<1>3. CASE StartReset(t)
  <2>1. ended = "none" /\ \A u \in Threads : pc[u] # "rx"
    BY <1>0, <1>3 DEF StartReset, CountInv, Holding
  <2>2. ended' = ended /\ pc' = [pc EXCEPT ![t] = "in"] /\ phy_frame_filled' = 0
    BY <1>3, Zenon DEF StartReset
  <2> QED
    BY <1>0, <2>1, <2>2, CountNothing
<1>4. CASE Finish(t)
  <2>1. \A u \in Threads : u # t => pc[u] \notin {"in", "rx"}
    BY <1>0, <1>4 DEF Finish, Holding
  <2>2. ended' = "none" /\
        \/ pc' = [pc EXCEPT ![t] = "out"]
        \/ pc' = [pc EXCEPT ![t] = "out", ![Head(waiting)] = "entering"]
    BY <1>4, Zenon DEF Finish
  <2>3. \A u \in Threads : pc'[u] \notin {"in", "rx"}
    BY <1>0, <2>1, <2>2
  <2> QED
    BY <2>2, <2>3, CountNothing
<1>5. CASE Config(t) \/ SendBusy(t) \/ GetNoSpace(t)
  <2>1. UNCHANGED <<pc, ended, heard, fi, added, proc_event,
                    phy_frame_filled, phy_frame_pos>>
    BY <1>5, Zenon DEF Config, SendBusy, GetNoSpace, history
  <2> QED
    BY <1>0, <2>1, CountUntouched
<1>6. CASE AddRefused(t) \/ \E f \in Frames : AddFrame(t, f)
  <2>1. /\ pc[t] = "in" /\ pc' = pc
        /\ \/ ended' = "none" /\ phy_frame_filled' = 0
           \/ /\ proc_event = "SEND"
              /\ UNCHANGED <<ended, phy_frame_filled>>
    BY <1>6, Zenon DEF AddRefused, AddFrame, Call, Restarted
  <2>2. \A u \in Threads : pc'[u] # "rx"
    BY <1>0, <2>1 DEF Holding
  <2>3. ended' = "none" /\ phy_frame_filled' = 0
    BY <2>1, Zenon DEF CountInv
  <2> QED
    BY <2>2, <2>3, CountNothing
<1>7. CASE SendStart(t) \/ SendFrame(t) \/ SendDone(t)
  <2>1. added # <<>> /\ \A u \in Threads : u # t => pc[u] # "rx"
    BY <1>0, <1>7 DEF SendStart, SendFrame, SendDone, Call, PhaseInv, Holding
  <2>2. UNCHANGED <<ended, phy_frame_filled>> /\ pc[t] # "rx"
        /\ (pc' = pc \/ pc' = [pc EXCEPT ![t] = "tx"] \/ pc' = [pc EXCEPT ![t] = "in"])
    BY <1>7 DEF SendStart, SendFrame, SendDone, Call
  <2>3. ended' = "none" /\ \A u \in Threads : pc'[u] # "rx"
    BY <1>0, <2>1, <2>2 DEF CountInv
  <2>4. phy_frame_filled' = 0
    BY <1>0, <2>1, <2>2 DEF PhaseInv
  <2> QED
    BY <2>3, <2>4, CountNothing
<1>8. CASE Listen(t)
  <2>1. ended' = "none" /\ heard' = <<>> /\ fi' = 0 /\ phy_frame_filled' = 0
    BY <1>8, Zenon DEF Listen
  <2> QED
    BY <2>1 DEF CountInv
<1>9. CASE ListenTimeout(t)
  <2>1. pc[t] = "rx" /\ pc' = [pc EXCEPT ![t] = "in"]
        /\ UNCHANGED <<ended, phy_frame_filled>>
    BY <1>9, Zenon DEF ListenTimeout, history
  <2>2. ended' = "none" /\ phy_frame_filled' = 0
    BY <2>1, Zenon DEF CountInv
  <2>3. \A u \in Threads : pc'[u] # "rx"
    BY <1>0, <2>1 DEF Holding
  <2> QED
    BY <2>2, <2>3, CountNothing
\* The two ways a reception ends, which declare the rows up to the iterator.
<1>10. ASSUME pc[t] = "rx", NEW i \in 0 .. NFrames, NEW how \in {"whole", "over", "broken"},
              ListenReturns(t, i, how), UNCHANGED <<added, proc_event>>,
              Len(heard') + (IF how = "whole" THEN 0 ELSE 1) = i + 1,
              Len(heard') \in 0 .. NFrames,
              how = "over" => Len(heard') = NFrames,
              how = "broken" => Len(heard') < NFrames
       PROVE  CountInv'
  <2>1. /\ pc' = [pc EXCEPT ![t] = "in"] /\ phy_frame_pos' = 0
        /\ phy_frame_filled' = (i + 1) % 256 /\ ended' = how
    BY <1>10, Zenon DEF ListenReturns
  <2>2. added = <<>> /\ proc_event # "SEND"
    BY <1>0, <1>10 DEF PhaseInv
  <2>3. pc'[t] = "in" /\ \A u \in Threads : pc'[u] # "rx"
    BY <1>0, <1>10, <2>1 DEF Holding
  <2>4. Count' = i + 1
    BY <1>10, <2>1, Zenon DEF Count
  <2>5. phy_frame_filled' = Count' % 256
    BY <2>1, <2>4, Zenon
  <2>6. i + 1 \in 0 .. 256
    BY <1>10, NFramesAssumption
  <2>7. phy_frame_pos' <= phy_frame_filled'
    <3> DEFINE k == i + 1
    <3> HIDE DEF k
    <3>1. k % 256 \in 0 .. k
      BY <2>6, CountByte DEF k
    <3>2. phy_frame_pos' = 0 /\ phy_frame_filled' = k % 256 /\ k \in 0 .. 256
      BY <2>1, <2>6 DEF k
    <3> QED
      BY <3>1, <3>2
  <2>8. Len(heard') <= NFrames /\ how # "none"
    BY <1>10
  <2> QED
    BY <1>10, <2>1, <2>2, <2>3, <2>5, <2>7, <2>8, Zenon DEF CountInv
<1>11. CASE ReadBroken(t)
  <2>1. /\ pc[t] = "rx" /\ ListenReturns(t, fi, "broken")
        /\ UNCHANGED <<heard, added, proc_event>>
    BY <1>11, Zenon DEF ReadBroken
  <2>2. Len(heard') = fi /\ fi \in Nat /\ fi < NFrames
    BY <1>0, <2>1 DEF CountInv, PhaseInv
  <2> QED
    BY <1>10, <2>1, <2>2
<1>12. ASSUME NEW f \in Frames \cup {Garbled}, NEW cont \in BOOLEAN,
              ReadFrame(t, f, cont)
       PROVE  CountInv'
  <2>1. /\ pc[t] = "rx" /\ heard' = Append(heard, f)
        /\ UNCHANGED <<added, proc_event>>
    BY <1>12, Zenon DEF ReadFrame
  <2>2. /\ Len(heard') = fi + 1 /\ ended = "none" /\ phy_frame_filled = 0
        /\ fi \in Nat /\ fi < NFrames
    BY <1>0, <2>1 DEF CountInv, PhaseInv
  <2>3. CASE cont /\ fi + 1 < NFrames
    <3>1. UNCHANGED <<pc, ended, phy_frame_filled>> /\ fi' = fi + 1
      BY <1>12, <2>3, Zenon DEF ReadFrame
    <3> QED
      BY <2>2, <3>1 DEF CountInv
  <2>4. CASE cont /\ ~(fi + 1 < NFrames)
    <3>1. ListenReturns(t, NFrames, "over")
      BY <1>12, <2>4, Zenon DEF ReadFrame
    <3>2. Len(heard') = NFrames
      BY <2>2, <2>4
    <3> QED
      BY <1>10, <2>1, <3>1, <3>2
  <2>5. CASE ~cont
    <3>1. ListenReturns(t, fi, "whole")
      BY <1>12, <2>5, Zenon DEF ReadFrame
    <3> QED
      BY <1>10, <2>1, <2>2, <3>1
  <2> QED
    BY <2>3, <2>4, <2>5
<1>13. CASE GetFrame(t) \/ GetBadCrc(t)
  <2>1. /\ pc[t] = "in" /\ pc' = pc /\ phy_frame_pos < phy_frame_filled
        /\ phy_frame_pos' = phy_frame_pos + 1
        /\ UNCHANGED <<ended, heard, fi, added, proc_event, phy_frame_filled>>
    BY <1>13, Zenon DEF GetFrame, GetBadCrc, Fetch, Call, history
  <2>2. Count' = Count
    BY <2>1 DEF Count
  <2>3. phy_frame_pos' <= phy_frame_filled'
    BY <1>0, <2>1
  <2> QED
    BY <2>1, <2>2, <2>3, Zenon DEF CountInv
<1> QED
  BY <1>1, <1>2, <1>3, <1>4, <1>5, <1>6, <1>7, <1>8, <1>9, <1>11, <1>12, <1>13
     DEF InProcedure

LEMMA CountInvariance == Spec => []CountInv
<1>1. Init => CountInv
  BY DEF Init, CountInv
<1>2. CountInv /\ UNCHANGED vars => CountInv'
  <2> SUFFICES ASSUME CountInv, UNCHANGED vars PROVE CountInv'
    OBVIOUS
  <2>1. UNCHANGED <<pc, ended, heard, fi, added, proc_event, phy_frame_filled,
                    phy_frame_pos>>
    BY DEF vars, history
  <2>2. Count' = Count
    BY <2>1 DEF Count
  <2> QED
    BY <2>1, <2>2, Zenon DEF CountInv
<1>3. IInv /\ CountInv /\ [Next]_vars => CountInv'
  BY <1>2, CountStep
<1> QED
  BY Invariance, <1>1, <1>3, PTL DEF Spec

\* phy_receive_packet (phy.c:134-146, 183-192) leaves in phy_frame_filled the
\* number of frames it has read, or one more exactly when it broke off in a row
\* or ran out of rows, for every size of the buffer and in the width of a byte.
THEOREM FramesCounted == Spec => []ReceivedCount
<1>1. CountInv => ReceivedCount
  BY DEF CountInv, Count, ReceivedCount
<1> QED
  BY CountInvariance, <1>1, PTL

----------------------------------------------------------------------------
(* phy_get_frame hands out the received packet.                              *)

\* The rows hold the frames that were read, and the receiver would check them
\* as it did not when the class was changed since.
RowsHeard ==
    \A i \in 1 .. Len(heard) :
        /\ phy_frame_buf[i - 1].frame = heard[i]
        /\ ~reclassed => phy_frame_buf[i - 1].class = pack_class
        /\ ~phy_frame_buf[i - 1].white

DeliverInv ==
    /\ ended = "none" => got = <<>>
    /\ \A t \in Threads : pc[t] = "rx" => RowsHeard /\ ~reclassed
    /\ ended # "none" => RowsHeard
    /\ DeliveredInOrder
    /\ DeliveredFromPacket

\* The intact frames among the first rows are counted one by one.
LEMMA IntactCounts ==
    ASSUME NEW n \in Nat, Len(heard) \in Nat
    PROVE  /\ IsFiniteSet(IntactUpTo(n))
           /\ Cardinality(IntactUpTo(n)) \in Nat
           /\ n < Len(heard) /\ heard[n + 1] # Garbled =>
                /\ IntactUpTo(n + 1) = IntactUpTo(n) \cup {n + 1}
                /\ Cardinality(IntactUpTo(n + 1)) = Cardinality(IntactUpTo(n)) + 1
           /\ n >= Len(heard) \/ heard[n + 1] = Garbled =>
                IntactUpTo(n + 1) = IntactUpTo(n)
           /\ \A j \in IntactUpTo(n) :
                Cardinality(IntactUpTo(j)) \in 1 .. Cardinality(IntactUpTo(n))
<1>1. \A k \in Nat : IsFiniteSet(IntactUpTo(k)) /\ Cardinality(IntactUpTo(k)) \in Nat
  <2> TAKE k \in Nat
  <2>1. IsFiniteSet(1 .. Len(heard)) /\ IntactUpTo(k) \in SUBSET (1 .. Len(heard))
    BY FS_Interval DEF IntactUpTo
  <2>2. IsFiniteSet(IntactUpTo(k))
    BY <2>1, FS_Subset
  <2> QED
    BY <2>2, FS_CardinalityType
<1>2. IntactUpTo(n + 1) =
        IF n < Len(heard) /\ heard[n + 1] # Garbled
        THEN IntactUpTo(n) \cup {n + 1} ELSE IntactUpTo(n)
  BY DEF IntactUpTo
<1>3. n + 1 \notin IntactUpTo(n)
  BY DEF IntactUpTo
<1>4. Cardinality(IntactUpTo(n) \cup {n + 1}) = Cardinality(IntactUpTo(n)) + 1
  BY <1>1, <1>3, FS_AddElement
<1>5. ASSUME NEW j \in IntactUpTo(n)
      PROVE  Cardinality(IntactUpTo(j)) \in 1 .. Cardinality(IntactUpTo(n))
  <2>1. j \in Nat /\ IntactUpTo(j) \in SUBSET IntactUpTo(n) /\ j \in IntactUpTo(j)
    BY DEF IntactUpTo
  <2>2. Cardinality(IntactUpTo(j)) <= Cardinality(IntactUpTo(n))
    BY <1>1, <2>1, FS_Subset
  <2>3. Cardinality(IntactUpTo(j)) # 0
    BY <1>1, <2>1, FS_EmptySet
  <2> QED
    BY <1>1, <2>1, <2>2, <2>3
<1>6. ASSUME n < Len(heard), heard[n + 1] # Garbled
      PROVE  IntactUpTo(n + 1) = IntactUpTo(n) \cup {n + 1}
  BY <1>2, <1>6, Zenon
<1>7. ASSUME n >= Len(heard) \/ heard[n + 1] = Garbled
      PROVE  IntactUpTo(n + 1) = IntactUpTo(n)
  <2>1. n >= Len(heard) => ~(n < Len(heard))
    OBVIOUS
  <2> QED
    BY <1>2, <1>7, <2>1, Zenon
<1> QED
  BY <1>1, <1>4, <1>5, <1>6, <1>7, Zenon

\* Steps that leave the received packet and its rows alone.
LEMMA DeliverUntouched ==
    ASSUME DeliverInv,
           \A t \in Threads : pc'[t] = "rx" => pc[t] = "rx",
           UNCHANGED <<ended, reclassed, heard, got, phy_frame_pos,
                       phy_frame_buf, pack_class>>
    PROVE  DeliverInv'
<1>1. DeliveredInOrder' /\ DeliveredFromPacket'
  BY DEF DeliverInv, DeliveredInOrder, DeliveredFromPacket, IntactUpTo, Leftover
<1>2. RowsHeard => RowsHeard'
  BY DEF RowsHeard
<1> QED
  BY <1>1, <1>2, Zenon DEF DeliverInv

\* Steps after which nothing counts as received and nobody receives.
LEMMA DeliverNothing ==
    ASSUME ended' = "none", got' = <<>>, \A t \in Threads : pc'[t] # "rx"
    PROVE  DeliverInv'
<1>1. DeliveredFromPacket'
  BY DEF DeliveredFromPacket
<1> QED
  BY <1>1, Zenon DEF DeliverInv, DeliveredInOrder

\* Steps that end a reception: no frame of it has been fetched.
LEMMA DeliverAtFirst ==
    ASSUME RowsHeard', got' = <<>>, phy_frame_pos' = 0, Len(heard') \in Nat,
           \A t \in Threads : pc'[t] # "rx"
    PROVE  DeliverInv'
<1>1. DeliveredFromPacket'
  BY DEF DeliveredFromPacket
<1>2. DeliveredInOrder'
  <2>1. IntactUpTo(phy_frame_pos)' = {}
    BY DEF IntactUpTo
  <2>2. Len(got') = 0
    OBVIOUS
  <2> QED
    BY <2>1, <2>2, FS_EmptySet DEF DeliveredInOrder
<1> QED
  BY <1>1, <1>2, Zenon DEF DeliverInv

\* A frame read into the row after those of the frames before it.
LEMMA RowRead ==
    ASSUME TypeOK, NEW f \in Frames \cup {Garbled}, fi < NFrames,
           Len(heard) = fi, RowsHeard, ~reclassed,
           phy_frame_buf' = Filled(f), heard' = Append(heard, f),
           UNCHANGED <<pack_class, reclassed>>
    PROVE  RowsHeard'
<1> DEFINE row == [by |-> Radio, frame |-> f,
                   class |-> pack_class, white |-> FALSE]
<1>1. /\ phy_frame_buf \in [0 .. NFrames - 1 -> Slot]
      /\ fi \in 0 .. NFrames /\ heard \in Seq(Frames \cup {Garbled})
  BY DEF TypeOK
<1>2. phy_frame_buf' = [phy_frame_buf EXCEPT ![fi] = row]
  BY Zenon DEF Filled
<1>3. row.frame = f /\ row.class = pack_class /\ ~row.white
  BY Zenon
<1> HIDE DEF row
<1>4. phy_frame_buf'[fi] = row
      /\ \A i \in 0 .. fi - 1 : phy_frame_buf'[i] = phy_frame_buf[i]
  BY <1>1, <1>2
<1>5. /\ Len(heard') = fi + 1 /\ heard'[fi + 1] = f
      /\ \A i \in 1 .. fi : heard'[i] = heard[i]
  BY <1>1
<1> SUFFICES ASSUME NEW i \in 1 .. Len(heard')
             PROVE  /\ phy_frame_buf'[i - 1].frame = heard'[i]
                    /\ phy_frame_buf'[i - 1].class = pack_class'
                    /\ ~phy_frame_buf'[i - 1].white
  BY DEF RowsHeard
<1>6. CASE i = fi + 1
  <2>1. i - 1 = fi
    BY <1>1, <1>6
  <2> QED
    BY <1>3, <1>4, <1>5, <1>6, <2>1, Zenon
<1>7. CASE i # fi + 1
  <2>1. i \in 1 .. fi /\ i - 1 \in 0 .. fi - 1
    BY <1>1, <1>5, <1>7
  <2>2. /\ phy_frame_buf[i - 1].frame = heard[i]
        /\ phy_frame_buf[i - 1].class = pack_class
        /\ ~phy_frame_buf[i - 1].white
    BY <2>1, Zenon DEF RowsHeard
  <2>3. phy_frame_buf'[i - 1] = phy_frame_buf[i - 1] /\ heard'[i] = heard[i]
    BY <1>4, <1>5, <2>1, Zenon
  <2> QED
    BY <2>2, <2>3, Zenon
<1> QED
  BY <1>6, <1>7

\* A broken reception leaves the rows of the frames before it alone.
LEMMA RowBroken ==
    ASSUME TypeOK, fi < NFrames, Len(heard) = fi, RowsHeard,
           phy_frame_buf' \in {Filled(Garbled), phy_frame_buf},
           UNCHANGED <<pack_class, reclassed, heard>>
    PROVE  RowsHeard'
<1>1. phy_frame_buf \in [0 .. NFrames - 1 -> Slot] /\ fi \in 0 .. NFrames
  BY DEF TypeOK
<1>2. \A i \in 1 .. fi : phy_frame_buf'[i - 1] = phy_frame_buf[i - 1]
  BY <1>1 DEF Filled
<1> QED
  BY <1>2, Zenon DEF RowsHeard

\* A frame is asked for only after a reception, and at most one row past the
\* frames that were read whole.
LEMMA FetchInReach ==
    ASSUME IInv, CountInv, NEW t \in Threads, Fetch(t)
    PROVE  /\ phy_frame_pos \in Nat /\ Len(heard) \in Nat
           /\ phy_frame_pos <= Len(heard) /\ Len(heard) <= NFrames
           /\ ended # "none" /\ ~Leftover
           /\ phy_frame_pos = Len(heard) /\ phy_frame_pos < NFrames =>
                ended = "broken"
<1>1. /\ phy_frame_pos \in 0 .. NFrames + 1 /\ phy_frame_filled \in 0 .. NFrames + 1
      /\ heard \in Seq(Frames \cup {Garbled})
      /\ ended \in {"none", "whole", "over", "broken"}
  BY DEF IInv, TypeOK
<1>2. pc[t] = "in" /\ phy_frame_pos < phy_frame_filled
  BY DEF Fetch, Call
<1>3. ended # "none"
  BY <1>1, <1>2 DEF CountInv
<1>4. /\ phy_frame_filled = Count % 256 /\ Len(heard) <= NFrames
      /\ ended = "over" => Len(heard) = NFrames
  BY <1>3, Zenon DEF CountInv
<1>5. Len(heard) \in 0 .. 255
  <2> DEFINE n == Len(heard)
  <2>1. n \in Nat
    BY <1>1
  <2>2. n <= NFrames
    BY <1>4, Zenon
  <2> HIDE DEF n
  <2>3. n \in 0 .. 255
    BY ONLY <2>1, <2>2, NFramesAssumption
  <2> QED
    BY <2>3, Zenon DEF n
<1>6. Count \in 0 .. 256 /\ Count <= Len(heard) + 1
      /\ (ended = "whole" => Count = Len(heard))
  <2> DEFINE n == Len(heard)
  <2>1. Count = IF ended = "whole" THEN n + 0 ELSE n + 1
    BY Zenon DEF Count
  <2>2. n \in 0 .. 255
    BY <1>5, Zenon
  <2> HIDE DEF n
  <2>3. Count \in 0 .. 256 /\ Count <= n + 1 /\ (ended = "whole" => Count = n)
    BY <2>1, <2>2
  <2> QED
    BY <2>3, Zenon DEF n
<1>7. phy_frame_filled <= Count
  <2> DEFINE k == Count
  <2> HIDE DEF k
  <2>1. k % 256 \in 0 .. k
    BY <1>6, CountByte DEF k
  <2>2. phy_frame_filled = k % 256 /\ k \in 0 .. 256
    BY <1>4, <1>6 DEF k
  <2> QED
    BY <2>1, <2>2 DEF k
<1>8. phy_frame_pos <= Len(heard)
  BY <1>1, <1>2, <1>5, <1>6, <1>7
<1>9. ended = "whole" => phy_frame_pos < Len(heard)
  BY <1>1, <1>2, <1>5, <1>6, <1>7
<1> QED
  BY <1>1, <1>3, <1>4, <1>5, <1>8, <1>9 DEF Leftover

\* The intact row at phy_frame_pos is returned next.
LEMMA FrameDelivered ==
    ASSUME IInv, CountInv, DeliverInv, NEW t \in Threads, GetFrame(t)
    PROVE  DeliveredInOrder' /\ DeliveredFromPacket'
<1> DEFINE pos == phy_frame_pos
           f == phy_frame_buf[pos].frame
<1>1. /\ pos \in Nat /\ Len(heard) \in Nat /\ pos <= Len(heard)
      /\ Len(heard) <= NFrames /\ ended # "none" /\ ~Leftover
      /\ (pos = Len(heard) /\ pos < NFrames => ended = "broken")
  BY FetchInReach DEF GetFrame
<1>2. /\ f # Garbled /\ got' = Append(got, f) /\ pos < NFrames
      /\ pos' = pos + 1 /\ UNCHANGED <<heard, ended, reclassed>>
  BY Zenon DEF GetFrame, Intact
<1>3. got \in Seq(Frames) /\ f \in Frames
  <2>1. phy_frame_buf \in [0 .. NFrames - 1 -> Slot] /\ got \in Seq(Frames)
        /\ NFrames \in Nat
    BY NFramesAssumption DEF IInv, TypeOK
  <2>2. pos \in 0 .. NFrames - 1
    BY <1>1, <1>2, <2>1
  <2>3. phy_frame_buf[pos] \in Slot
    BY <2>1, <2>2
  <2> QED
    BY <1>2, <2>1, <2>3 DEF Slot
<1>4. pos < Len(heard) => f = heard[pos + 1]
  <2> SUFFICES ASSUME pos < Len(heard) PROVE f = heard[pos + 1]
    OBVIOUS
  <2>1. RowsHeard
    BY <1>1 DEF DeliverInv
  <2>2. (pos + 1) - 1 = pos /\ pos + 1 \in 1 .. Len(heard)
    BY <1>1
  <2> QED
    BY <2>1, <2>2 DEF RowsHeard
<1>5. /\ \A i \in 1 .. Len(got) : \E j \in 1 .. Len(heard) : got[i] = heard[j]
      /\ ~reclassed =>
            /\ Len(got) = Cardinality(IntactUpTo(pos))
            /\ \A j \in IntactUpTo(pos) : got[Cardinality(IntactUpTo(j))] = heard[j]
  BY <1>1 DEF DeliverInv, DeliveredInOrder, DeliveredFromPacket
<1>6. /\ Cardinality(IntactUpTo(pos)) \in Nat
      /\ pos < Len(heard) =>
            /\ IntactUpTo(pos + 1) = IntactUpTo(pos) \cup {pos + 1}
            /\ Cardinality(IntactUpTo(pos + 1)) = Cardinality(IntactUpTo(pos)) + 1
      /\ pos >= Len(heard) => IntactUpTo(pos + 1) = IntactUpTo(pos)
      /\ \A j \in IntactUpTo(pos) :
            Cardinality(IntactUpTo(j)) \in 1 .. Cardinality(IntactUpTo(pos))
  BY <1>1, <1>2, <1>4, IntactCounts
<1>7. \A n \in Nat : IntactUpTo(n)' = IntactUpTo(n)
  BY <1>2 DEF IntactUpTo
<1>8. phy_frame_pos' = pos + 1 /\ IntactUpTo(phy_frame_pos)' = IntactUpTo(pos + 1)
  BY <1>1, <1>2, <1>7 DEF IntactUpTo
<1>9. \A j \in IntactUpTo(pos + 1) : IntactUpTo(j)' = IntactUpTo(j)
  BY <1>1, <1>7 DEF IntactUpTo
<1>10. pos >= Len(heard) => Leftover'
  BY <1>1, <1>2 DEF Leftover
<1> HIDE DEF f, pos
<1>11. /\ Len(got') = Len(got) + 1 /\ got'[Len(got) + 1] = f /\ Len(got) \in Nat
       /\ \A i \in 1 .. Len(got) : got'[i] = got[i]
  BY <1>2, <1>3
<1>12. ASSUME ~reclassed, pos < Len(heard)
       PROVE  DeliveredInOrder'
  <2>1. Len(got') = Cardinality(IntactUpTo(pos + 1))
    BY <1>5, <1>6, <1>11, <1>12
  <2>2. ASSUME NEW j \in IntactUpTo(pos + 1)
        PROVE  got'[Cardinality(IntactUpTo(j))] = heard[j]
    <3>1. CASE j = pos + 1
      BY <1>4, <1>5, <1>6, <1>11, <1>12, <3>1
    <3>2. CASE j \in IntactUpTo(pos)
      BY <1>5, <1>6, <1>11, <1>12, <3>2
    <3> QED
      BY <1>6, <1>12, <3>1, <3>2
  <2> QED
    BY <1>2, <1>8, <1>9, <2>1, <2>2, Zenon DEF DeliveredInOrder
<1>13. ASSUME ~reclassed, pos >= Len(heard)
       PROVE  DeliveredInOrder'
  <2>1. Len(got') = Cardinality(IntactUpTo(pos + 1)) + 1
    BY <1>5, <1>6, <1>11, <1>13
  <2>2. ASSUME NEW j \in IntactUpTo(pos + 1)
        PROVE  got'[Cardinality(IntactUpTo(j))] = heard[j]
    BY <1>5, <1>6, <1>11, <1>13
  <2> QED
    BY <1>2, <1>8, <1>9, <1>10, <1>13, <2>1, <2>2, Zenon DEF DeliveredInOrder
<1>14. DeliveredInOrder'
  <2>1. CASE reclassed
    BY <1>2, <2>1, Zenon DEF DeliveredInOrder
  <2>2. CASE ~reclassed
    <3>1. pos < Len(heard) \/ pos >= Len(heard)
      BY <1>1 DEF pos
    <3> QED
      BY <1>12, <1>13, <2>2, <3>1
  <2> QED
    BY <2>1, <2>2
<1>15. DeliveredFromPacket'
  <2> SUFFICES ASSUME NEW i \in 1 .. Len(got')
               PROVE  \/ \E j \in 1 .. Len(heard) : got'[i] = heard[j]
                      \/ Leftover' /\ i = Len(got')
    BY <1>2 DEF DeliveredFromPacket
  <2>1. CASE i = Len(got) + 1 /\ pos < Len(heard)
    <3>1. pos + 1 \in 1 .. Len(heard)
      BY <1>1, <2>1 DEF pos
    <3> QED
      BY <1>4, <1>11, <2>1, <3>1, Zenon
  <2>2. CASE i = Len(got) + 1 /\ pos >= Len(heard)
    BY <1>10, <1>11, <2>2, Zenon
  <2>3. CASE i # Len(got) + 1
    <3>1. i \in 1 .. Len(got)
      BY <1>11, <2>3
    <3> QED
      BY <1>5, <1>11, <3>1, Zenon
  <2>4. pos < Len(heard) \/ pos >= Len(heard)
    BY <1>1 DEF pos
  <2> QED
    BY <2>1, <2>2, <2>3, <2>4
<1> QED
  BY <1>14, <1>15

\* A row whose CRC does not match is passed over.
LEMMA GarbledPassedOver ==
    ASSUME IInv, CountInv, DeliverInv, NEW t \in Threads, GetBadCrc(t)
    PROVE  DeliveredInOrder' /\ DeliveredFromPacket'
<1>1. /\ phy_frame_pos \in Nat /\ Len(heard) \in Nat /\ phy_frame_pos <= Len(heard)
      /\ Len(heard) <= NFrames /\ ended # "none" /\ ~Leftover
  BY FetchInReach DEF GetBadCrc
<1>2. phy_frame_pos' = phy_frame_pos + 1
      /\ UNCHANGED <<ended, reclassed, heard, got>>
  BY Zenon DEF GetBadCrc, history
<1>3. ASSUME ~reclassed, phy_frame_pos < Len(heard)
      PROVE  heard[phy_frame_pos + 1] = Garbled
  <2>1. phy_frame_pos < NFrames /\ phy_frame_pos + 1 \in 1 .. Len(heard)
        /\ (phy_frame_pos + 1) - 1 = phy_frame_pos
    BY <1>1, <1>3, NFramesAssumption
  <2>2. RowsHeard
    BY <1>1, Zenon DEF DeliverInv
  <2>3. /\ phy_frame_buf[(phy_frame_pos + 1) - 1].frame = heard[phy_frame_pos + 1]
        /\ phy_frame_buf[(phy_frame_pos + 1) - 1].class = pack_class
        /\ ~phy_frame_buf[(phy_frame_pos + 1) - 1].white
    BY <1>3, <2>1, <2>2, Zenon DEF RowsHeard
  <2>4. ~Intact
    BY DEF GetBadCrc
  <2> QED
    BY <2>1, <2>3, <2>4, Zenon DEF Intact
<1>4. ~reclassed => IntactUpTo(phy_frame_pos + 1) = IntactUpTo(phy_frame_pos)
  <2> SUFFICES ASSUME ~reclassed
               PROVE  IntactUpTo(phy_frame_pos + 1) = IntactUpTo(phy_frame_pos)
    OBVIOUS
  <2>1. phy_frame_pos >= Len(heard) \/ heard[phy_frame_pos + 1] = Garbled
    BY <1>1, <1>3
  <2> QED
    BY <1>1, <2>1, IntactCounts, Zenon
<1>5. \A n : IntactUpTo(n)' = IntactUpTo(n)
  BY <1>2 DEF IntactUpTo
<1>6. DeliveredInOrder'
  BY <1>1, <1>2, <1>4, <1>5 DEF DeliverInv, DeliveredInOrder, IntactUpTo
<1>7. DeliveredFromPacket'
  BY <1>1, <1>2 DEF DeliverInv, DeliveredFromPacket
<1> QED
  BY <1>6, <1>7

LEMMA DeliverStep == IInv /\ CountInv /\ DeliverInv /\ Next => DeliverInv'
<1> SUFFICES ASSUME IInv, CountInv, DeliverInv,
                    NEW t \in Threads, StartWrite(t) \/ InProcedure(t)
             PROVE  DeliverInv'
  BY DEF Next
<1>0. /\ pc \in [Threads -> {"out", "locking", "blocked", "entering",
                             "in", "tx", "rx"}]
      /\ fi \in 0 .. NFrames /\ heard \in Seq(Frames \cup {Garbled})
      /\ Len(heard) \in Nat
      /\ PhaseInv /\ \A u \in Threads : pc[u] \in Holding <=> phy_proc_mtx = u
  BY DEF IInv, TypeOK, ProcedureExclusive
<1>1. CASE StartWrite(t) \/ StartLock(t) \/ SendBusy(t) \/ GetNoSpace(t)
  <2>1. /\ \/ pc' = pc
           \/ \E where \in {"locking", "entering", "blocked"} :
                pc' = [pc EXCEPT ![t] = where]
        /\ UNCHANGED <<ended, reclassed, heard, got, phy_frame_pos,
                       phy_frame_buf, pack_class>>
    BY <1>1, Zenon DEF StartWrite, StartLock, SendBusy, GetNoSpace, history
  <2>2. \A u \in Threads : pc'[u] = "rx" => pc[u] = "rx"
    BY <1>0, <2>1
  <2> QED
    BY <2>1, <2>2, DeliverUntouched, Zenon
<1>2. CASE StartReset(t)
  <2>1. ended = "none" /\ got = <<>> /\ \A u \in Threads : pc[u] # "rx"
    BY <1>0, <1>2 DEF StartReset, CountInv, DeliverInv, Holding
  <2>2. UNCHANGED <<ended, got>> /\ pc' = [pc EXCEPT ![t] = "in"]
    BY <1>2, Zenon DEF StartReset
  <2>3. \A u \in Threads : pc'[u] # "rx"
    BY <1>0, <2>1, <2>2
  <2> QED
    BY <2>1, <2>2, <2>3, DeliverNothing
<1>3. CASE Finish(t)
  <2>1. pc[t] = "in" /\ \A u \in Threads : pc[u] # "rx"
    BY <1>0, <1>3 DEF Finish, Holding
  <2>2. ended' = "none" /\ got' = <<>> /\
        \/ pc' = [pc EXCEPT ![t] = "out"]
        \/ pc' = [pc EXCEPT ![t] = "out", ![Head(waiting)] = "entering"]
    BY <1>3, Zenon DEF Finish
  <2> QED
    BY <1>0, <2>1, <2>2, DeliverNothing
<1>4. CASE Config(t)
  <2>1. /\ pc[t] = "in" /\ pc' = pc /\ pack_class' \in Classes
        /\ UNCHANGED <<ended, heard, got, phy_frame_buf, phy_frame_pos>>
        /\ reclassed' = (\/ reclassed
                         \/ /\ ended # "none"
                            /\ pack_class' # pack_class)
    BY <1>4, Zenon DEF Config, Call
  <2>2. \A u \in Threads : pc'[u] # "rx"
    BY <1>0, <2>1 DEF Holding
  <2>3. CASE ended = "none"
    BY <2>1, <2>2, <2>3, DeliverNothing DEF DeliverInv
  <2>4. CASE ended # "none"
    <3>1. RowsHeard'
      BY <2>1, <2>4, Zenon DEF DeliverInv, RowsHeard
    <3>2. DeliveredInOrder' /\ DeliveredFromPacket'
      BY <2>1 DEF DeliverInv, DeliveredInOrder, DeliveredFromPacket, IntactUpTo, Leftover
    <3> QED
      BY <2>1, <2>2, <2>4, <3>1, <3>2, Zenon DEF DeliverInv
  <2> QED
    BY <2>3, <2>4
<1>5. CASE AddRefused(t) \/ \E f \in Frames : AddFrame(t, f)
  <2>1. /\ pc[t] = "in" /\ pc' = pc
        /\ \/ ended' = "none" /\ got' = <<>>
           \/ proc_event = "SEND" /\ UNCHANGED <<ended, got>>
    BY <1>5, Zenon DEF AddRefused, AddFrame, Call, Restarted, ReceptionOver
  <2>2. \A u \in Threads : pc'[u] # "rx"
    BY <1>0, <2>1 DEF Holding
  <2>3. ended' = "none" /\ got' = <<>>
    BY <2>1, Zenon DEF CountInv, DeliverInv
  <2> QED
    BY <2>2, <2>3, DeliverNothing, Zenon
<1>6. CASE SendStart(t) \/ SendFrame(t) \/ SendDone(t)
  <2>1. added # <<>> /\ \A u \in Threads : u # t => pc[u] # "rx"
    BY <1>0, <1>6 DEF SendStart, SendFrame, SendDone, Call, PhaseInv, Holding
  <2>2. UNCHANGED <<ended, got>> /\ pc[t] # "rx"
        /\ (pc' = pc \/ pc' = [pc EXCEPT ![t] = "tx"] \/ pc' = [pc EXCEPT ![t] = "in"])
    BY <1>6 DEF SendStart, SendFrame, SendDone, Call
  <2>3. ended' = "none" /\ got' = <<>> /\ \A u \in Threads : pc'[u] # "rx"
    BY <1>0, <2>1, <2>2 DEF CountInv, DeliverInv
  <2> QED
    BY <2>3, DeliverNothing, Zenon
<1>7. CASE Listen(t)
  <2>1. ended' = "none" /\ heard' = <<>> /\ got' = <<>> /\ ~reclassed'
    BY <1>7, Zenon DEF Listen, ReceptionOver
  <2>2. RowsHeard' /\ DeliveredFromPacket'
    BY <2>1 DEF RowsHeard, DeliveredFromPacket
  <2> QED
    BY <2>1, <2>2, Zenon DEF DeliverInv, DeliveredInOrder
<1>8. CASE ListenTimeout(t)
  <2>1. pc[t] = "rx" /\ pc' = [pc EXCEPT ![t] = "in"] /\ UNCHANGED <<ended, got>>
    BY <1>8, Zenon DEF ListenTimeout, history
  <2>2. ended' = "none" /\ got' = <<>>
    BY <2>1, Zenon DEF CountInv, DeliverInv
  <2>3. \A u \in Threads : pc'[u] # "rx"
    BY <1>0, <2>1 DEF Holding
  <2> QED
    BY <2>2, <2>3, DeliverNothing, Zenon
<1>9. ASSUME pc[t] = "rx", NEW i, NEW how, ListenReturns(t, i, how),
             RowsHeard', UNCHANGED got, Len(heard') \in Nat
      PROVE  DeliverInv'
  <2>1. pc' = [pc EXCEPT ![t] = "in"] /\ phy_frame_pos' = 0
    BY <1>9, Zenon DEF ListenReturns
  <2>2. \A u \in Threads : pc'[u] # "rx"
    BY <1>0, <1>9, <2>1 DEF Holding
  <2>3. got' = <<>>
    BY <1>9, Zenon DEF CountInv, DeliverInv
  <2> QED
    BY <1>9, <2>1, <2>2, <2>3, DeliverAtFirst, Zenon
<1>10. CASE ReadBroken(t)
  <2>1. /\ pc[t] = "rx" /\ ListenReturns(t, fi, "broken")
        /\ phy_frame_buf' \in {Filled(Garbled), phy_frame_buf}
        /\ UNCHANGED <<heard, got, pack_class, reclassed>>
    BY <1>10, Zenon DEF ReadBroken
  <2>2. Len(heard) = fi /\ fi < NFrames /\ RowsHeard
    BY <2>1, <1>0 DEF CountInv, PhaseInv, DeliverInv
  <2>3. RowsHeard' /\ Len(heard') \in Nat
    BY <1>0, <2>1, <2>2, RowBroken DEF IInv
  <2> QED
    BY <1>9, <2>1, <2>3, Zenon
<1>11. ASSUME NEW f \in Frames \cup {Garbled}, NEW cont \in BOOLEAN,
              ReadFrame(t, f, cont)
       PROVE  DeliverInv'
  <2>1. /\ pc[t] = "rx" /\ heard' = Append(heard, f) /\ phy_frame_buf' = Filled(f)
        /\ UNCHANGED <<pack_class, got, reclassed>>
    BY <1>11, Zenon DEF ReadFrame
  <2>2. Len(heard) = fi /\ fi < NFrames /\ RowsHeard /\ ~reclassed
        /\ ended = "none" /\ got = <<>>
    BY <2>1, <1>0 DEF CountInv, PhaseInv, DeliverInv
  <2>3. RowsHeard' /\ Len(heard') \in Nat
    BY <1>0, <2>1, <2>2, RowRead DEF IInv
  <2>4. CASE \E i, how : ListenReturns(t, i, how)
    BY <1>9, <2>1, <2>3, <2>4, Zenon
  <2>5. CASE UNCHANGED ended
    <3>1. DeliveredFromPacket'
      BY <2>1, <2>2 DEF DeliveredFromPacket
    <3> QED
      BY <2>1, <2>2, <2>3, <2>5, <3>1, Zenon DEF DeliverInv, DeliveredInOrder
  <2> QED
    BY <1>11, <2>4, <2>5, Zenon DEF ReadFrame
<1>12. CASE GetFrame(t) \/ GetBadCrc(t)
  <2>1. /\ Fetch(t) /\ pc[t] = "in" /\ pc' = pc
        /\ UNCHANGED <<ended, reclassed, heard, phy_frame_buf, pack_class>>
    BY <1>12, Zenon DEF GetFrame, GetBadCrc, Fetch, Call, history
  <2>2. DeliveredInOrder' /\ DeliveredFromPacket'
    BY <1>12, FrameDelivered, GarbledPassedOver
  <2>3. ended # "none" /\ RowsHeard
    BY <2>1, FetchInReach DEF DeliverInv
  <2>4. RowsHeard'
    BY <2>1, <2>3 DEF RowsHeard
  <2>5. \A u \in Threads : pc'[u] # "rx"
    BY <1>0, <2>1 DEF Holding
  <2> QED
    BY <2>1, <2>2, <2>3, <2>4, <2>5, Zenon DEF DeliverInv
<1> QED
  BY <1>1, <1>2, <1>3, <1>4, <1>5, <1>6, <1>7, <1>8, <1>10, <1>11, <1>12
     DEF InProcedure

LEMMA DeliverInvariance == Spec => []DeliverInv
<1>1. Init => DeliverInv
  BY DEF Init, DeliverInv, DeliveredInOrder, DeliveredFromPacket
<1>2. DeliverInv /\ UNCHANGED vars => DeliverInv'
  <2> SUFFICES ASSUME DeliverInv, UNCHANGED vars
               PROVE  DeliverInv'
    OBVIOUS
  <2>1. UNCHANGED <<pc, ended, reclassed, heard, got, phy_frame_pos,
                    phy_frame_buf, pack_class>>
    BY DEF vars, history
  <2> QED
    BY <2>1, DeliverUntouched
<1>3. IInv /\ CountInv /\ DeliverInv /\ [Next]_vars => DeliverInv'
  BY <1>2, DeliverStep
<1> QED
  BY Invariance, CountInvariance, <1>1, <1>3, PTL DEF Spec

\* A caller that fetches gets the intact frames of the packet one by one in the
\* order received (phy.c:459-489), and at most the row a reception broke off in
\* after them, if it has not changed the class meanwhile.
THEOREM DeliveryInOrder == Spec => []DeliveredInOrder
  BY DeliverInvariance, PTL DEF DeliverInv

\* Nothing that is fetched, even after a reception that failed or a change of
\* class, was not in the packet received last, but for that row.
THEOREM DeliveryFromPacket == Spec => []DeliveredFromPacket
  BY DeliverInvariance, PTL DEF DeliverInv

----------------------------------------------------------------------------
(* Each packet is whitened once.                                              *)

\* The rows to be sent are plain until the channel is found free, whatever class
\* they were added under, and whitened by the class in force while they are sent.
RowsPlain == \A i \in 0 .. phy_frame_pos - 1 : ~phy_frame_buf[i].white

RowsWhite ==
    \A i \in 0 .. phy_frame_pos - 1 :
        phy_frame_buf[i].white <=> pack_class = "FOREGROUND" \/ i = 0

AirWhite ==
    \A i \in 1 .. Len(air) :
        air[i].white <=> pack_class = "FOREGROUND" \/ i = 1

WhiteInv ==
    /\ \A t \in Threads : pc[t] = "in" /\ added # <<>> => RowsPlain
    /\ \A t \in Threads : pc[t] = "tx" => RowsWhite /\ AirWhite

\* Steps that leave the rows, the air and the thread in the procedure alone.
LEMMA WhiteUntouched ==
    ASSUME WhiteInv,
           \A t \in Threads : pc'[t] \in {"in", "tx"} => pc'[t] = pc[t],
           UNCHANGED <<added, air, phy_frame_pos, phy_frame_buf>>,
           \A t \in Threads : pc'[t] = "tx" => UNCHANGED pack_class
    PROVE  WhiteInv'
<1>1. RowsPlain => RowsPlain'
  BY DEF RowsPlain
<1>2. UNCHANGED pack_class => (RowsWhite => RowsWhite') /\ (AirWhite => AirWhite')
  BY Zenon DEF RowsWhite, AirWhite
<1> QED
  BY <1>1, <1>2, Zenon DEF WhiteInv

\* Once nothing is added and nothing sent there is nothing to show.
LEMMA WhiteNothing ==
    ASSUME added' = <<>>, \A t \in Threads : pc'[t] # "tx"
    PROVE  WhiteInv'
  BY DEF WhiteInv

LEMMA WhiteStep == IInv /\ OwnInv /\ WhiteInv /\ Next => WhiteInv'
<1> SUFFICES ASSUME IInv, OwnInv, WhiteInv, NEW t \in Threads,
                    StartWrite(t) \/ InProcedure(t)
             PROVE  WhiteInv'
  BY DEF Next
<1>0. /\ pc \in [Threads -> {"out", "locking", "blocked", "entering",
                             "in", "tx", "rx"}]
      /\ phy_frame_pos \in 0 .. NFrames + 1 /\ added \in Seq(Frames)
      /\ fi \in 0 .. NFrames /\ pack_class \in Classes
      /\ phy_frame_buf \in [0 .. NFrames - 1 -> Slot] /\ air \in Seq(Slot)
      /\ PhaseInv /\ \A u \in Threads : pc[u] \in Holding <=> phy_proc_mtx = u
  BY DEF IInv, TypeOK, ProcedureExclusive
<1>1. CASE StartWrite(t) \/ StartLock(t) \/ SendBusy(t) \/ GetNoSpace(t)
  <2>1. /\ \/ pc' = pc
           \/ \E where \in {"locking", "entering", "blocked"} :
                pc' = [pc EXCEPT ![t] = where]
        /\ UNCHANGED <<added, air, phy_frame_pos, phy_frame_buf, pack_class>>
    BY <1>1, Zenon DEF StartWrite, StartLock, SendBusy, GetNoSpace, history
  <2>2. \A u \in Threads : pc'[u] \in {"in", "tx"} => pc'[u] = pc[u]
    BY <1>0, <2>1
  <2> QED
    BY <2>1, <2>2, WhiteUntouched, Zenon
<1>2. CASE StartReset(t)
  <2>1. added = <<>> /\ \A u \in Threads : pc[u] # "tx"
    BY <1>0, <1>2 DEF StartReset, PhaseInv, Holding
  <2>2. added' = added /\ pc' = [pc EXCEPT ![t] = "in"]
    BY <1>2, Zenon DEF StartReset
  <2> QED
    BY <1>0, <2>1, <2>2, WhiteNothing
<1>3. CASE Finish(t)
  <2>1. pc[t] = "in" /\ \A u \in Threads : pc[u] # "tx"
    BY <1>0, <1>3 DEF Finish, Holding
  <2>2. added' = <<>> /\
        \/ pc' = [pc EXCEPT ![t] = "out"]
        \/ pc' = [pc EXCEPT ![t] = "out", ![Head(waiting)] = "entering"]
    BY <1>3, Zenon DEF Finish
  <2> QED
    BY <1>0, <2>1, <2>2, WhiteNothing
<1>4. CASE Config(t)
  <2>1. pc[t] = "in" /\ pc' = pc
        /\ UNCHANGED <<added, air, phy_frame_pos, phy_frame_buf>>
    BY <1>4, Zenon DEF Config, Call
  <2>2. \A u \in Threads : pc'[u] # "tx"
    BY <1>0, <2>1 DEF Holding
  <2>3. \A u \in Threads : pc'[u] \in {"in", "tx"} => pc'[u] = pc[u]
    BY <2>1
  <2> QED
    BY <2>1, <2>2, <2>3, WhiteUntouched, Zenon
<1>5. ASSUME NEW f \in Frames, AddFrame(t, f) PROVE WhiteInv'
  <2> DEFINE pos == IF Restarted THEN 0 ELSE phy_frame_pos
             row == [by |-> t, frame |-> f,
                     class |-> pack_class, white |-> FALSE]
  <2>1. /\ pc[t] = "in" /\ pc' = pc /\ pos # NFrames
        /\ phy_frame_buf' = [phy_frame_buf EXCEPT ![pos] = row]
        /\ phy_frame_pos' = pos + 1 /\ pack_class' = pack_class
    BY <1>5, Zenon DEF AddFrame, Call, Full
  <2>2. pos \in 0 .. NFrames - 1
    BY <1>0, <2>1 DEF PhaseInv, Restarted
  <2>3. \A i \in 0 .. pos - 1 : ~phy_frame_buf[i].white
    <3>1. CASE pos = 0
      BY <3>1
    <3>2. CASE pos # 0
      <4>1. ~Restarted /\ added # <<>>
        BY <1>0, <2>1, <3>2 DEF Restarted, PhaseInv
      <4>2. RowsPlain
        BY <2>1, <4>1, Zenon DEF WhiteInv
      <4> QED
        BY <4>1, <4>2, Zenon DEF RowsPlain
    <3> QED
      BY <3>1, <3>2
  <2>4. ~row.white
    BY Zenon
  <2>5. \A u \in Threads : pc'[u] # "tx"
    BY <1>0, <2>1 DEF Holding
  <2>6. RowsPlain'
    <3> HIDE DEF pos, row
    <3>1. phy_frame_buf'[pos] = row
          /\ \A i \in 0 .. pos - 1 : phy_frame_buf'[i] = phy_frame_buf[i]
      BY <1>0, <2>1, <2>2
    <3>2. \A i \in 0 .. phy_frame_pos' - 1 : i = pos \/ i \in 0 .. pos - 1
      BY <2>1, <2>2
    <3> SUFFICES ASSUME NEW i \in 0 .. phy_frame_pos' - 1
                 PROVE  ~phy_frame_buf'[i].white
      BY Zenon DEF RowsPlain
    <3>3. CASE i = pos
      BY <2>4, <3>1, <3>3, Zenon
    <3>4. CASE i \in 0 .. pos - 1
      BY <2>3, <3>1, <3>4, Zenon
    <3> QED
      BY <3>2, <3>3, <3>4, Zenon
  <2> QED
    BY <2>5, <2>6, Zenon DEF WhiteInv
<1>6. CASE AddRefused(t)
  <2>1. /\ pc[t] = "in" /\ pc' = pc
        /\ UNCHANGED <<added, phy_frame_buf, pack_class, air>>
    BY <1>6, Zenon DEF AddRefused, Call
  <2>2. \A u \in Threads : pc[u] # "tx"
    BY <1>0, <2>1 DEF Holding
  <2>3. CASE added = <<>>
    BY <2>1, <2>2, <2>3, WhiteNothing
  <2>4. CASE added # <<>>
    <3>1. ~Restarted
      BY <1>6 DEF AddRefused, Full
    <3>2. phy_frame_pos' = phy_frame_pos
      BY <1>6, <3>1 DEF AddRefused
    <3>3. \A u \in Threads : pc'[u] \in {"in", "tx"} => pc'[u] = pc[u]
      BY <2>1
    <3> QED
      BY <2>1, <3>2, <3>3, WhiteUntouched, Zenon
  <2> QED
    BY <2>3, <2>4
<1>7. CASE SendStart(t)
  <2>1. /\ pc[t] = "in" /\ pc' = [pc EXCEPT ![t] = "tx"] /\ added # <<>>
        /\ phy_frame_buf' = Whitened(phy_frame_buf) /\ air' = <<>>
        /\ UNCHANGED <<phy_frame_pos, pack_class>>
    BY <1>7, Zenon DEF SendStart, Call
  <2>2. RowsPlain /\ phy_frame_pos <= NFrames
    BY <1>0, <2>1 DEF WhiteInv, PhaseInv
  <2>3. ASSUME NEW i \in 0 .. phy_frame_pos - 1
        PROVE  phy_frame_buf'[i].white <=> pack_class = "FOREGROUND" \/ i = 0
    <3>1. i \in 0 .. NFrames - 1 /\ i < phy_frame_pos
      BY <1>0, <2>2
    <3>2. phy_frame_buf[i] \in Slot
      BY <1>0, <3>1
    <3>3. phy_frame_buf'[i] =
            IF \/ pack_class = "BACKGROUND" /\ i = 0
               \/ pack_class = "FOREGROUND" /\ i < phy_frame_pos
            THEN [phy_frame_buf[i] EXCEPT !.white = ~ phy_frame_buf[i].white]
            ELSE phy_frame_buf[i]
      BY <1>0, <2>1, <3>1, Zenon DEF Whitened
    <3>4. pack_class = "FOREGROUND" \/ pack_class = "BACKGROUND"
      BY <1>0, Zenon DEF Classes
    <3>5. [phy_frame_buf[i] EXCEPT !.white = ~ phy_frame_buf[i].white].white
            = ~ phy_frame_buf[i].white
      BY <3>2, Zenon DEF Slot
    <3>6. ~phy_frame_buf[i].white
      BY <2>2, Zenon DEF RowsPlain
    <3>7. "FOREGROUND" # "BACKGROUND"
      OBVIOUS
    <3>8. CASE pack_class = "FOREGROUND" \/ i = 0
      <4>1. phy_frame_buf'[i] =
              [phy_frame_buf[i] EXCEPT !.white = ~ phy_frame_buf[i].white]
        BY <3>1, <3>3, <3>4, <3>8, Zenon
      <4> QED
        BY <3>5, <3>6, <3>8, <4>1, Zenon
    <3>9. CASE ~(pack_class = "FOREGROUND" \/ i = 0)
      <4>1. phy_frame_buf'[i] = phy_frame_buf[i]
        BY <3>3, <3>9, Zenon
      <4> QED
        BY <3>6, <3>9, <4>1, Zenon
    <3> QED
      BY <3>8, <3>9
  <2>4. RowsWhite'
    BY <2>1, <2>3, Zenon DEF RowsWhite
  <2>5. AirWhite'
    BY <2>1 DEF AirWhite
  <2>6. \A u \in Threads : pc'[u] # "in"
    BY <1>0, <2>1 DEF Holding
  <2> QED
    BY <2>4, <2>5, <2>6, Zenon DEF WhiteInv
<1>8. CASE SendFrame(t)
  <2>1. /\ pc[t] = "tx" /\ pc' = pc /\ fi < phy_frame_pos
        /\ air' = Append(air, phy_frame_buf[fi])
        /\ UNCHANGED <<phy_frame_pos, phy_frame_buf, pack_class>>
    BY <1>8, Zenon DEF SendFrame
  <2>2. RowsWhite /\ AirWhite /\ phy_frame_pos <= NFrames /\ Len(air) = fi
    BY <1>0, <2>1 DEF WhiteInv, PhaseInv, OwnInv, Aired
  <2>3. fi \in 0 .. phy_frame_pos - 1 /\ fi \in 0 .. NFrames - 1
        /\ (fi = 0 <=> Len(air) + 1 = 1)
    BY <1>0, <2>1, <2>2
  <2>4. phy_frame_buf[fi].white <=> pack_class = "FOREGROUND" \/ fi = 0
    BY <2>2, <2>3, Zenon DEF RowsWhite
  <2>5. phy_frame_buf[fi] \in Slot
    BY <1>0, <2>3
  <2>6. \A i \in 1 .. Len(air') :
            \/ i = Len(air) + 1 /\ air'[i] = phy_frame_buf[fi]
            \/ i \in 1 .. Len(air) /\ air'[i] = air[i]
    <3>1. air \in Seq(Slot) /\ air' = Append(air, phy_frame_buf[fi])
      BY <1>0, <2>1
    <3>2. Len(air') = Len(air) + 1 /\ Len(air) \in Nat
          /\ air'[Len(air) + 1] = phy_frame_buf[fi]
          /\ \A i \in 1 .. Len(air) : air'[i] = air[i]
      BY <2>5, <3>1, AppendProperties
    <3>3. \A i \in 1 .. Len(air') : i = Len(air) + 1 \/ i \in 1 .. Len(air)
      BY <3>2
    <3> QED
      BY <3>2, <3>3, Zenon
  <2>7. AirWhite'
    <3> SUFFICES ASSUME NEW i \in 1 .. Len(air')
                 PROVE  air'[i].white <=> pack_class = "FOREGROUND" \/ i = 1
      BY <2>1, Zenon DEF AirWhite
    <3>1. CASE i = Len(air) + 1 /\ air'[i] = phy_frame_buf[fi]
      BY <2>3, <2>4, <3>1, Zenon
    <3>2. CASE i \in 1 .. Len(air) /\ air'[i] = air[i]
      BY <2>2, <3>2, Zenon DEF AirWhite
    <3> QED
      BY <2>6, <3>1, <3>2, Zenon
  <2>8. RowsWhite'
    BY <2>1, <2>2 DEF RowsWhite
  <2>9. \A u \in Threads : pc'[u] # "in"
    BY <1>0, <2>1 DEF Holding
  <2> QED
    BY <2>7, <2>8, <2>9, Zenon DEF WhiteInv
<1>9. CASE SendDone(t)
  <2>1. pc[t] = "tx" /\ pc' = [pc EXCEPT ![t] = "in"] /\ added' = <<>>
    BY <1>9, Zenon DEF SendDone
  <2> QED
    BY <1>0, <2>1, WhiteNothing DEF Holding
<1>10. CASE Listen(t)
  <2>1. pc[t] = "in" /\ pc' = [pc EXCEPT ![t] = "rx"] /\ added' = <<>>
    BY <1>10, Zenon DEF Listen, Call
  <2> QED
    BY <1>0, <2>1, WhiteNothing DEF Holding
<1>11. CASE ListenTimeout(t) \/ ReadBroken(t)
            \/ (\E f \in Frames \cup {Garbled}, cont \in BOOLEAN :
                    ReadFrame(t, f, cont))
  <2>1. pc[t] = "rx" /\ (pc' = pc \/ pc' = [pc EXCEPT ![t] = "in"]) /\ added' = added
    BY <1>11, Zenon
       DEF ListenTimeout, ReadBroken, ReadFrame, ListenReturns, history
  <2> QED
    BY <1>0, <2>1, WhiteNothing DEF PhaseInv, Holding
<1>12. CASE GetFrame(t) \/ GetBadCrc(t)
  <2>1. pc[t] = "in" /\ pc' = pc /\ added' = added
        /\ phy_frame_pos < phy_frame_filled
    BY <1>12, Zenon DEF GetFrame, GetBadCrc, Fetch, Call, history
  <2> QED
    BY <1>0, <2>1, WhiteNothing DEF PhaseInv, Holding
<1> QED
  BY <1>1, <1>2, <1>3, <1>4, <1>5, <1>6, <1>7, <1>8, <1>9, <1>10, <1>11,
     <1>12 DEF InProcedure

LEMMA WhiteInvariance == Spec => []WhiteInv
<1>1. Init => WhiteInv
  BY DEF Init, WhiteInv
<1>2. WhiteInv /\ UNCHANGED vars => WhiteInv'
  <2> SUFFICES ASSUME WhiteInv, UNCHANGED vars
               PROVE  WhiteInv'
    OBVIOUS
  <2>1. UNCHANGED <<pc, added, air, phy_frame_pos, phy_frame_buf, pack_class>>
    BY DEF vars, history
  <2>2. \A u \in Threads : pc'[u] \in {"in", "tx"} => pc'[u] = pc[u]
    BY <2>1
  <2> QED
    BY <2>1, <2>2, WhiteUntouched, Zenon
<1>3. IInv /\ OwnInv /\ WhiteInv /\ [Next]_vars => WhiteInv'
  BY <1>2, WhiteStep
<1> QED
  BY Invariance, OwnInvariance, <1>1, <1>3, PTL DEF Spec

\* Every frame of a foreground packet, and the first of a background one, goes on
\* the air whitened once (phy.c:366, 382), whatever class its procedure had set
\* when it was added and however often the channel was busy before (phy.c:404).
THEOREM WhitenedOnce == Spec => []AirWhitened
<1>1. WhiteInv => AirWhitened
  BY Zenon DEF WhiteInv, AirWhite, AirWhitened
<1> QED
  BY WhiteInvariance, <1>1, PTL

----------------------------------------------------------------------------
(* The procedures implement PacketService.                                   *)

\* A thread past its reset is the holder, and the packet is being sent exactly
\* while it is in the send loop.
LEMMA InsideHolds ==
    ASSUME IInv, NEW t \in Threads, pc[t] \in {"in", "tx", "rx"}
    PROVE  Holder = t /\ (Sending <=> pc[t] = "tx")
<1>1. phy_proc_mtx = t /\ \A u \in Threads : u # t => pc[u] # "tx"
  BY DEF IInv, ProcedureExclusive, Holding
<1> QED
  BY <1>1 DEF Holder, Sending

\* Nobody holds the transceiver while the mutex is free or its owner has not
\* reset the buffer.
LEMMA NobodyHolds ==
    ASSUME IInv, \A t \in Threads : pc[t] \notin {"in", "tx", "rx"}
    PROVE  Holder = NoThread /\ ~Sending /\ Pending = <<>>
<1>1. phy_proc_mtx # NoThread => pc[phy_proc_mtx] = "entering"
  BY DEF IInv, TypeOK, ProcedureExclusive, Holding
<1> QED
  BY <1>1 DEF Holder, Sending, Pending

\* Steps that leave alone what is mapped are no steps of the service.
LEMMA ServiceStutter ==
    ASSUME Holder' = Holder, Sending' = Sending,
           UNCHANGED <<added, air>>,
           added # <<>> => UNCHANGED <<phy_frame_pos, phy_frame_buf>>
    PROVE  UNCHANGED Service!vars
<1>1. Pending' = Pending /\ Packet' = Packet
  BY DEF Pending, Packet
<1> QED
  BY <1>1 DEF Service!vars

\* The frames pending are those of the rows, at least one if one is added.
LEMMA PendingRows ==
    ASSUME IInv, OwnInv, added # <<>>
    PROVE  /\ phy_frame_pos \in 1 .. NFrames
           /\ Pending = [i \in 1 .. phy_frame_pos |-> phy_frame_buf[i - 1].frame]
           /\ Pending \in Seq(Frames \cup {Garbled}) /\ Len(Pending) = phy_frame_pos
<1>1. \E t \in Threads : pc[t] \in {"in", "tx"}
  BY DEF IInv, PhaseInv
<1>2. Holder # NoThread
  BY <1>1, InsideHolds
<1>3. phy_frame_pos \in 1 .. NFrames
  BY DEF IInv, TypeOK, PhaseInv, OwnInv, Rows
<1>4. Pending = [i \in 1 .. phy_frame_pos |-> phy_frame_buf[i - 1].frame]
  BY <1>2 DEF Pending
<1>5. \A i \in 1 .. phy_frame_pos : phy_frame_buf[i - 1].frame \in Frames \cup {Garbled}
  <2>1. TAKE i \in 1 .. phy_frame_pos
  <2>2. phy_frame_buf[i - 1] \in Slot
    BY <1>3 DEF IInv, TypeOK
  <2> QED
    BY <2>2 DEF Slot
<1> QED
  BY <1>3, <1>4, <1>5

LEMMA ServiceInit == Init => Service!Init
<1> SUFFICES ASSUME Init PROVE Service!Init
  OBVIOUS
<1>1. Holder = NoThread /\ Sending = FALSE /\ Pending = <<>>
  BY DEF Init, Holder, Sending, Pending
<1>2. Packet = [by |-> NoThread, frames |-> <<>>]
  BY DEF Init, Packet
<1> QED
  BY <1>1, <1>2 DEF Service!Init

\* phy_add_frame collects the frame, or starts a collection with it.
LEMMA AddCollects ==
    ASSUME IInv, OwnInv, NEW t \in Threads, NEW f \in Frames, AddFrame(t, f)
    PROVE  Service!Collect(f) \/ Service!Restart(f)
<1> DEFINE row == [by |-> t, frame |-> f,
                   class |-> pack_class, white |-> FALSE]
           pos == IF Restarted THEN 0 ELSE phy_frame_pos
<1>1. /\ pc[t] = "in" /\ pc' = pc /\ added' = Append(added, f) /\ air' = air
      /\ pos # NFrames /\ phy_frame_pos' = pos + 1 /\ phy_proc_mtx' = phy_proc_mtx
      /\ phy_frame_buf' = [phy_frame_buf EXCEPT ![pos] = row]
  BY Zenon DEF AddFrame, Call, Full
<1>2. Holder = t /\ ~Sending /\ Holder' = Holder /\ Sending' = Sending
  <2>1. Holder = t /\ (Sending <=> pc[t] = "tx")
    BY <1>1, InsideHolds
  <2>2. Holder' = Holder /\ Sending' = Sending
    BY <1>1 DEF Holder, Sending
  <2> QED
    BY <1>1, <2>1, <2>2
<1>3. Packet' = Packet /\ t # NoThread
  BY <1>1, <1>2 DEF Packet
<1>4. /\ phy_frame_buf \in [0 .. NFrames - 1 -> Slot]
      /\ phy_frame_pos \in 0 .. NFrames + 1
      /\ added' # <<>> /\ pos \in 0 .. NFrames - 1
  <2>1. /\ phy_frame_buf \in [0 .. NFrames - 1 -> Slot]
        /\ phy_frame_pos \in 0 .. NFrames + 1 /\ added \in Seq(Frames)
    BY DEF IInv, TypeOK
  <2>2. pos \in 0 .. NFrames - 1
    BY <1>1, <2>1 DEF IInv, PhaseInv, Restarted
  <2>3. added' # <<>>
    BY <1>1, <2>1, AppendProperties
  <2> QED
    BY <2>1, <2>2, <2>3
<1>5. row.frame = f
  OBVIOUS
<1> HIDE DEF row, pos
<1>6. Pending' = [i \in 1 .. pos + 1 |-> phy_frame_buf'[i - 1].frame]
  BY <1>1, <1>2, <1>4 DEF Pending
<1>7. \A i \in 1 .. pos + 1 :
        phy_frame_buf'[i - 1].frame = IF i = pos + 1 THEN f
                                      ELSE phy_frame_buf[i - 1].frame
  <2> TAKE i \in 1 .. pos + 1
  <2>1. i - 1 \in 0 .. NFrames - 1 /\ (i - 1 = pos <=> i = pos + 1)
    BY <1>4
  <2>2. phy_frame_buf'[i - 1] = IF i - 1 = pos THEN row ELSE phy_frame_buf[i - 1]
    BY <1>1, <1>4, <2>1
  <2> QED
    BY <1>5, <2>1, <2>2, Zenon
<1>8. CASE pos = 0
  <2>1. Pending' = <<f>>
    <3>1. 1 .. pos + 1 = 1 .. 1
      BY <1>8
    <3>2. Pending' = [i \in 1 .. 1 |-> f]
      BY <1>6, <1>7, <1>8
    <3> QED
      BY <3>2
  <2>2. Service!Restart(f)
    BY <1>2, <1>3, <2>1 DEF Service!Restart
  <2> QED
    BY <2>2
<1>9. CASE pos # 0
  <2>1. added # <<>> /\ pos = phy_frame_pos
    BY <1>1, <1>9 DEF pos, Restarted, IInv, PhaseInv
  <2>2. /\ phy_frame_pos \in 1 .. NFrames
        /\ Pending = [i \in 1 .. phy_frame_pos |-> phy_frame_buf[i - 1].frame]
        /\ Pending \in Seq(Frames \cup {Garbled}) /\ Len(Pending) = phy_frame_pos
    BY <2>1, PendingRows
  <2>3. Append(Pending, f) = [i \in 1 .. pos + 1 |->
                IF i = pos + 1 THEN f ELSE phy_frame_buf[i - 1].frame]
    BY <2>1, <2>2
  <2>4. Pending' = Append(Pending, f)
    BY <1>6, <1>7, <2>3
  <2>5. Len(Pending) < NFrames
    BY <1>4, <2>1, <2>2
  <2>6. Service!Collect(f)
    BY <1>2, <1>3, <2>4, <2>5 DEF Service!Collect
  <2> QED
    BY <2>6
<1> QED
  BY <1>8, <1>9

\* phy_proc_start's reset is the moment a thread gets the transceiver.
LEMMA ResetAcquires ==
    ASSUME IInv, NEW t \in Threads, StartReset(t)
    PROVE  Service!Acquire(t)
<1>1. pc[t] = "entering" /\ pc' = [pc EXCEPT ![t] = "in"]
      /\ UNCHANGED <<phy_proc_mtx, added, air>>
  BY Zenon DEF StartReset
<1>2. /\ pc \in [Threads -> {"out", "locking", "blocked", "entering",
                             "in", "tx", "rx"}]
      /\ phy_proc_mtx = t /\ t # NoThread
      /\ \A u \in Threads : pc[u] \notin {"in", "tx", "rx"}
  BY <1>1 DEF IInv, TypeOK, ProcedureExclusive, Holding
<1>3. Holder = NoThread /\ ~Sending
  BY <1>2, NobodyHolds
<1>4. Holder' = t
  BY <1>1, <1>2 DEF Holder
<1>5. Sending' = Sending
  BY <1>1, <1>2 DEF Sending
<1>6. Pending' = <<>>
  <2>1. added = <<>>
    BY <1>2 DEF IInv, PhaseInv
  <2> QED
    BY <1>1, <2>1 DEF Pending
<1>7. Packet' = Packet
  BY <1>1, <1>5 DEF Packet
<1> QED
  BY <1>3, <1>4, <1>5, <1>6, <1>7 DEF Service!Acquire

\* phy_proc_finish gives the transceiver back, to be taken by the next reset.
LEMMA FinishReleases ==
    ASSUME IInv, NEW t \in Threads, Finish(t)
    PROVE  Service!Release
<1>1. /\ pc[t] = "in" /\ added' = <<>> /\ air' = air
      /\ \/ waiting = <<>> /\ phy_proc_mtx' = NoThread /\ pc' = [pc EXCEPT ![t] = "out"]
         \/ /\ waiting # <<>> /\ phy_proc_mtx' = Head(waiting)
            /\ pc' = [pc EXCEPT ![t] = "out", ![Head(waiting)] = "entering"]
  BY Zenon DEF Finish
<1>2. /\ pc \in [Threads -> {"out", "locking", "blocked", "entering",
                             "in", "tx", "rx"}]
      /\ waiting \in Seq(Threads) /\ t # NoThread
      /\ \A u \in Threads : u # t => pc[u] \notin {"in", "tx", "rx"}
  BY <1>1 DEF IInv, TypeOK, ProcedureExclusive, Holding
<1>3. Holder = t /\ ~Sending
  BY <1>1, InsideHolds
<1>4. Holder' = NoThread
  <2>1. CASE waiting = <<>>
    BY <1>1, <2>1 DEF Holder
  <2>2. CASE waiting # <<>>
    <3>1. Head(waiting) \in Threads
      BY <1>2, <2>2, HeadTailProperties
    <3>2. pc'[Head(waiting)] = "entering"
      BY <1>1, <1>2, <2>2, <3>1
    <3> QED
      BY <1>1, <2>2, <3>2 DEF Holder
  <2> QED
    BY <2>1, <2>2
<1>5. Sending' = Sending
  BY <1>1, <1>2 DEF Sending
<1>6. Pending' = <<>>
  BY <1>1 DEF Pending
<1>7. Packet' = Packet
  BY <1>1, <1>5 DEF Packet
<1> QED
  BY <1>2, <1>3, <1>4, <1>5, <1>6, <1>7 DEF Service!Release

\* Listening gives up what was collected.
LEMMA ListenDiscards ==
    ASSUME IInv, NEW t \in Threads, Listen(t)
    PROVE  Service!Discard
<1>1. pc[t] = "in" /\ pc' = [pc EXCEPT ![t] = "rx"] /\ added' = <<>>
      /\ UNCHANGED <<phy_proc_mtx, air>>
  BY Zenon DEF Listen, Call
<1>2. /\ pc \in [Threads -> {"out", "locking", "blocked", "entering",
                             "in", "tx", "rx"}]
      /\ phy_proc_mtx = t /\ t # NoThread
  BY <1>1 DEF IInv, TypeOK, ProcedureExclusive, Holding
<1>3. Holder = t /\ ~Sending
  BY <1>1, InsideHolds
<1>4. Holder' = Holder /\ Sending' = Sending
  BY <1>1, <1>2 DEF Holder, Sending
<1>5. Pending' = <<>> /\ Packet' = Packet
  BY <1>1, <1>4 DEF Pending, Packet
<1> QED
  BY <1>2, <1>3, <1>4, <1>5 DEF Service!Discard

\* Past the channel check the packet is on its way, whitened or not.
LEMMA SendTransmits ==
    ASSUME IInv, OwnInv, NEW t \in Threads, SendStart(t)
    PROVE  Service!Transmit
<1>1. /\ pc[t] = "in" /\ pc' = [pc EXCEPT ![t] = "tx"] /\ added # <<>>
      /\ phy_frame_buf' = Whitened(phy_frame_buf) /\ air' = <<>>
      /\ UNCHANGED <<phy_proc_mtx, phy_frame_pos, added>>
  BY Zenon DEF SendStart, Call
<1>2. /\ pc \in [Threads -> {"out", "locking", "blocked", "entering",
                             "in", "tx", "rx"}]
      /\ phy_proc_mtx = t /\ t # NoThread
      /\ phy_frame_buf \in [0 .. NFrames - 1 -> Slot]
  BY <1>1 DEF IInv, TypeOK, ProcedureExclusive, Holding
<1>3. Holder = t /\ ~Sending
  BY <1>1, InsideHolds
<1>4. Holder' = Holder
  BY <1>1, <1>2 DEF Holder
<1>5. Sending' = TRUE
  BY <1>1, <1>2 DEF Sending
<1>6. /\ phy_frame_pos \in 1 .. NFrames
      /\ Pending = [i \in 1 .. phy_frame_pos |-> phy_frame_buf[i - 1].frame]
      /\ Len(Pending) = phy_frame_pos
  BY <1>1, PendingRows
<1>7. \A i \in 1 .. phy_frame_pos :
            phy_frame_buf'[i - 1].frame = phy_frame_buf[i - 1].frame
  <2> TAKE i \in 1 .. phy_frame_pos
  <2>1. i - 1 \in 0 .. NFrames - 1
    BY <1>6
  <2>2. \/ phy_frame_buf'[i - 1] = phy_frame_buf[i - 1]
        \/ phy_frame_buf'[i - 1] = [phy_frame_buf[i - 1] EXCEPT !.white =
                                      ~ phy_frame_buf[i - 1].white]
    BY <1>1, <1>2, <2>1, Zenon DEF Whitened
  <2>3. phy_frame_buf[i - 1] \in Slot
    BY <1>2, <2>1
  <2> QED
    BY ONLY <2>2, <2>3, Zenon DEF Slot
<1>8. Pending' = Pending
  <2>1. Pending' = [i \in 1 .. phy_frame_pos |-> phy_frame_buf'[i - 1].frame]
    BY <1>1, <1>2, <1>3, <1>4 DEF Pending
  <2> QED
    BY <1>6, <1>7, <2>1
<1>9. Packet' = [by |-> NoThread, frames |-> <<>>]
  BY <1>1 DEF Packet
<1>10. Pending # <<>>
  BY <1>6
<1> QED
  BY <1>3, <1>4, <1>5, <1>8, <1>9, <1>10 DEF Service!Transmit

\* What went on the air is what was pending.
LEMMA DoneCompletes ==
    ASSUME IInv, OwnInv, NEW t \in Threads, SendDone(t)
    PROVE  Service!Complete
<1>1. /\ pc[t] = "tx" /\ pc' = [pc EXCEPT ![t] = "in"] /\ fi = phy_frame_pos
      /\ added' = <<>> /\ UNCHANGED <<phy_proc_mtx, air>>
  BY Zenon DEF SendDone
<1>2. /\ pc \in [Threads -> {"out", "locking", "blocked", "entering",
                             "in", "tx", "rx"}]
      /\ phy_proc_mtx = t /\ t # NoThread
      /\ \A u \in Threads : u # t => pc[u] # "tx"
      /\ added # <<>> /\ added \in Seq(Frames)
  BY <1>1 DEF IInv, TypeOK, ProcedureExclusive, Holding, PhaseInv
<1>3. Holder = t /\ Sending
  BY <1>1, InsideHolds
<1>4. Holder' = Holder
  BY <1>1, <1>2 DEF Holder
<1>5. Sending' = FALSE
  BY <1>1, <1>2 DEF Sending
<1>6. Pending' = <<>>
  BY <1>1 DEF Pending
<1>7. Aired /\ Rows
  BY <1>1, <1>2 DEF OwnInv
<1>8. /\ phy_frame_pos \in 1 .. NFrames
      /\ Pending = [i \in 1 .. phy_frame_pos |-> phy_frame_buf[i - 1].frame]
  BY <1>2, PendingRows
<1>9. Len(air) = phy_frame_pos /\ air[1].by = t /\ air # <<>>
  BY <1>1, <1>2, <1>7, <1>8 DEF Aired
<1>10. \A i \in 1 .. phy_frame_pos : air[i].frame = phy_frame_buf[i - 1].frame
  <2> TAKE i \in 1 .. phy_frame_pos
  <2>1. air[i].frame = added[Len(added) - phy_frame_pos + i]
    BY <1>7, <1>9 DEF Aired
  <2>2. phy_frame_buf[i - 1].frame = added[Len(added) - phy_frame_pos + (i - 1) + 1]
    BY <1>7, <1>8 DEF Rows
  <2>3. Len(added) - phy_frame_pos + (i - 1) + 1 = Len(added) - phy_frame_pos + i
    BY <1>2, <1>8
  <2> QED
    BY <2>1, <2>2, <2>3
<1>11. Packet' = [by |-> t, frames |-> [i \in 1 .. Len(air) |-> air[i].frame]]
  BY <1>1, <1>5, <1>9 DEF Packet
<1>12. [i \in 1 .. Len(air) |-> air[i].frame] = Pending
  BY <1>8, <1>9, <1>10
<1> QED
  BY <1>3, <1>4, <1>5, <1>6, <1>11, <1>12 DEF Service!Complete

\* The other steps change nothing that is mapped.
LEMMA OthersStutter ==
    ASSUME IInv, OwnInv, NEW t \in Threads,
           \/ StartWrite(t) \/ StartLock(t) \/ Config(t) \/ AddRefused(t)
           \/ SendBusy(t) \/ SendFrame(t) \/ ListenTimeout(t) \/ ReadBroken(t)
           \/ \E f \in Frames \cup {Garbled}, cont \in BOOLEAN : ReadFrame(t, f, cont)
           \/ GetFrame(t) \/ GetBadCrc(t) \/ GetNoSpace(t)
    PROVE  UNCHANGED Service!vars
<1>0. /\ pc \in [Threads -> {"out", "locking", "blocked", "entering",
                             "in", "tx", "rx"}]
      /\ phy_proc_mtx \in Threads \cup {NoThread} /\ t # NoThread
      /\ PhaseInv /\ \A u \in Threads : pc[u] \in Holding <=> phy_proc_mtx = u
  BY DEF IInv, TypeOK, ProcedureExclusive
<1>1. CASE StartWrite(t)
  <2>1. pc[t] = "out" /\ pc' = [pc EXCEPT ![t] = "locking"]
        /\ UNCHANGED <<phy_proc_mtx, added, air, phy_frame_pos, phy_frame_buf>>
    BY <1>1, Zenon DEF StartWrite
  <2>2. Holder' = Holder /\ Sending' = Sending
    BY <1>0, <2>1 DEF Holder, Sending, Holding
  <2> QED
    BY <2>1, <2>2, ServiceStutter
<1>2. CASE StartLock(t)
  <2>1. pc[t] = "locking"
        /\ UNCHANGED <<added, air, phy_frame_pos, phy_frame_buf>>
    BY <1>2, Zenon DEF StartLock, history
  <2>2. CASE phy_proc_mtx = NoThread
    <3>1. pc' = [pc EXCEPT ![t] = "entering"] /\ phy_proc_mtx' = t
      BY <1>2, <2>2, Zenon DEF StartLock
    <3>2. Holder' = Holder /\ Sending' = Sending
      BY <1>0, <2>1, <2>2, <3>1 DEF Holder, Sending
    <3> QED
      BY <2>1, <3>2, ServiceStutter
  <2>3. CASE phy_proc_mtx # NoThread
    <3>1. pc' = [pc EXCEPT ![t] = "blocked"] /\ phy_proc_mtx' = phy_proc_mtx
      BY <1>2, <2>3, Zenon DEF StartLock
    <3>2. Holder' = Holder /\ Sending' = Sending
      BY <1>0, <2>1, <3>1 DEF Holder, Sending, Holding
    <3> QED
      BY <2>1, <3>2, ServiceStutter
  <2> QED
    BY <2>2, <2>3
<1>3. CASE Config(t) \/ SendBusy(t) \/ GetNoSpace(t) \/ SendFrame(t)
  <2>1. UNCHANGED <<pc, phy_proc_mtx, added, phy_frame_pos, phy_frame_buf>>
    BY <1>3, Zenon DEF Config, SendBusy, GetNoSpace, SendFrame, history
  <2>2. Holder' = Holder /\ Sending' = Sending /\ Pending' = Pending
    BY <2>1 DEF Holder, Sending, Pending
  <2>3. Packet' = Packet
    <3>1. CASE air' = air
      BY <2>2, <3>1 DEF Packet
    <3>2. CASE air' # air
      <4>1. pc[t] = "tx"
        BY <1>3, <3>2, Zenon DEF Config, SendBusy, GetNoSpace, SendFrame, history
      <4>2. Sending /\ Sending'
        BY <2>1, <4>1 DEF Sending
      <4> QED
        BY <4>2, Zenon DEF Packet
    <3> QED
      BY <3>1, <3>2
  <2> QED
    BY <2>2, <2>3 DEF Service!vars
<1>4. CASE AddRefused(t)
  <2>1. UNCHANGED <<pc, phy_proc_mtx, added, phy_frame_buf, air>>
    BY <1>4, Zenon DEF AddRefused
  <2>2. added # <<>> => UNCHANGED phy_frame_pos
    BY <1>4 DEF AddRefused, Full
  <2>3. Holder' = Holder /\ Sending' = Sending
    BY <2>1 DEF Holder, Sending
  <2> QED
    BY <2>1, <2>2, <2>3, ServiceStutter
<1>5. CASE ListenTimeout(t) \/ ReadBroken(t)
           \/ \E f \in Frames \cup {Garbled}, cont \in BOOLEAN : ReadFrame(t, f, cont)
  <2>1. pc[t] = "rx" /\ (pc' = pc \/ pc' = [pc EXCEPT ![t] = "in"])
        /\ UNCHANGED <<phy_proc_mtx, added, air>>
    BY <1>5, Zenon
       DEF ListenTimeout, ReadBroken, ReadFrame, ListenReturns, history
  <2>2. added = <<>>
    BY <1>0, <2>1 DEF PhaseInv
  <2>3. Holder' = Holder /\ Sending' = Sending
    BY <1>0, <2>1 DEF Holder, Sending
  <2> QED
    BY <2>1, <2>2, <2>3, ServiceStutter
<1>6. CASE GetFrame(t) \/ GetBadCrc(t)
  <2>1. pc[t] = "in" /\ phy_frame_pos < phy_frame_filled
        /\ UNCHANGED <<pc, phy_proc_mtx, added, air>>
    BY <1>6, Zenon DEF GetFrame, GetBadCrc, Fetch, Call, history
  <2>2. added = <<>>
    BY <2>1 DEF IInv, TypeOK, PhaseInv
  <2>3. Holder' = Holder /\ Sending' = Sending
    BY <2>1 DEF Holder, Sending
  <2> QED
    BY <2>1, <2>2, <2>3, ServiceStutter
<1> QED
  BY <1>1, <1>2, <1>3, <1>4, <1>5, <1>6

LEMMA ServiceStep ==
    IInv /\ OwnInv /\ Next => Service!Next \/ UNCHANGED Service!vars
<1> SUFFICES ASSUME IInv, OwnInv, NEW t \in Threads,
                    StartWrite(t) \/ InProcedure(t)
             PROVE  Service!Next \/ UNCHANGED Service!vars
  BY DEF Next
<1>1. CASE StartReset(t)
  BY <1>1, ResetAcquires DEF Service!Next
<1>2. CASE Finish(t)
  BY <1>2, FinishReleases DEF Service!Next
<1>3. ASSUME NEW f \in Frames, AddFrame(t, f) PROVE Service!Next
  BY <1>3, AddCollects DEF Service!Next
<1>4. CASE SendStart(t)
  BY <1>4, SendTransmits DEF Service!Next
<1>5. CASE SendDone(t)
  BY <1>5, DoneCompletes DEF Service!Next
<1>6. CASE Listen(t)
  BY <1>6, ListenDiscards DEF Service!Next
<1> QED
  BY <1>1, <1>2, <1>3, <1>4, <1>5, <1>6, OthersStutter DEF InProcedure

\* The procedures of the physical layer keep the promise of PacketService: a
\* thread that holds the transceiver sends exactly what it collected since it
\* last started to, whatever the other threads do.
THEOREM ServiceImplemented == Spec => ImplementsService
<1>1. UNCHANGED vars => UNCHANGED Service!vars
  <2> SUFFICES ASSUME UNCHANGED vars
               PROVE  UNCHANGED Service!vars
    OBVIOUS
  <2>1. UNCHANGED <<pc, phy_proc_mtx, added, air, phy_frame_pos, phy_frame_buf>>
    BY DEF vars, history
  <2>2. Holder' = Holder /\ Sending' = Sending
    BY <2>1 DEF Holder, Sending
  <2> QED
    BY <2>1, <2>2, ServiceStutter
<1>2. IInv /\ OwnInv /\ [Next]_vars => [Service!Next]_(Service!vars)
  BY <1>1, ServiceStep
<1> QED
  BY Invariance, OwnInvariance, ServiceInit, <1>2, PTL
     DEF Spec, ImplementsService, Service!Spec

=============================================================================
