---------------------------- MODULE RadioProofs ----------------------------
(***************************************************************************)
(* Theorems about Radio, for every size of the FIFO, every threshold and   *)
(* every size of frames.                                                   *)
(***************************************************************************)
EXTENDS Radio, TLAPS

USE FifoAssumption, FramesAssumption

\* What the code knows of the chip at each of its places.
ChipInv ==
    /\ pc = "tx" <=> mode = "TX"
    /\ pc = "tx" => mapping1 = "packet_sent"
    /\ pc \in {"await", "read"} =>
            mode = "RX" /\ mapping1 = "payload_ready" /\ op # "guard"
    /\ pc \in {"drain", "guard"} => mode = "STDBY"
    /\ pc = "drain" => mapping1 = "payload_ready" \/ op = "guard"
    /\ pc = "guard" => op = "guard"

\* The bytes of a packet are in the FIFO only while it is being sent, and its
\* end comes after the last of them.
SentInv ==
    /\ pc # "tx" => fifo.own = 0 /\ foreign = 0
    /\ packet_sent = 1 => mode = "TX" /\ Count = 0 /\ left = 0 /\ frames = 0

\* Where received bytes may be in the FIFO.
UnreadInv ==
    /\ ForeignOnlyFromUnread
    /\ pc \in {"cca", "listen"} => unread # {}
    /\ op = "guard" /\ pc \in {"drain", "guard"} /\ fifo.air > 0 => unread # {}

IInv == TypeOK /\ FifoFits /\ ChipInv /\ SentInv /\ StandbyBetween /\ UnreadInv

LEMMA InitIInv == Init => IInv
  BY DEF Init, IInv, TypeOK, FifoFits, ChipInv, SentInv, StandbyBetween,
         UnreadInv, ForeignOnlyFromUnread, Empty, Count

\* What a line that a waiting thread sees low or high says of the FIFO.
LEMMA Lines ==
    ASSUME TypeOK, mapping1 # "dio4"
    PROVE  /\ 0 \in DIO1 => Count <= VALUE_FIFO_THRESH
           /\ 1 \in DIO1 => Count > VALUE_FIFO_THRESH
           /\ 0 \in DIO2 => Count <= 0
  BY DEF TypeOK, DIO1, DIO2, Level, Count

\* What a change of mode does to the FIFO.
LEMMA ModeChange ==
    ASSUME TypeOK, NEW m, SetMode(m)
    PROVE  /\ fifo' = fifo \/ fifo' = [air |-> 0, own |-> 0]
           /\ fifo' \in [air : Nat, own : Nat]
           /\ m = "STDBY" => fifo' = fifo
  BY DEF TypeOK, SetMode, Empty

\* What empty_fifo takes from it.
LEMMA DrainTakes ==
    ASSUME TypeOK, Drain
    PROVE  /\ fifo' \in [air : Nat, own : Nat]
           /\ fifo'.own = fifo.own /\ fifo'.air <= fifo.air
  BY DEF TypeOK, Drain, Least

LEMMA PieceFits ==
    ASSUME TypeOK
    PROVE  /\ Piece \in Nat /\ Piece <= left
           /\ Piece <= FIFO_SIZE - VALUE_FIFO_THRESH - 1
  BY DEF TypeOK, Piece, Room, Least

LEMMA TypeStep ==
    ASSUME IInv, [Next]_vars
    PROVE  TypeOK'
<1> USE DEF IInv, TypeOK, ChipInv, SentInv, Count
<1>1. CASE UNCHANGED vars
  BY <1>1 DEF vars, chip, mapping, driver, history
<1>2. CASE Channel
  BY <1>2 DEF Channel, chip, mapping, driver, history
<1>3. CASE Ready
  BY <1>3 DEF Ready, chip, mapping, driver, history
<1>4. CASE AirByte
  BY <1>4 DEF AirByte, chip, mapping, driver, history
<1>5. CASE Shift
  BY <1>5 DEF Shift, chip, mapping, driver, history
<1>6. CASE SendCca
  BY <1>6, ModeChange DEF SendCca, Assess, SetMode, chip, mapping, driver, history
<1>7. CASE CcaBusy
  BY <1>7, ModeChange DEF CcaBusy, SetMode, Said, chip, mapping, driver, history
<1>8. CASE CcaClear
  BY <1>8, ModeChange DEF CcaClear, Transmit, SetMode, Said, DIO4, chip, mapping, driver, history
<1>9. CASE SendUnguarded
  BY <1>9, ModeChange DEF SendUnguarded, Transmit, SetMode, chip, mapping, driver, history
<1>10. CASE Chunk
  BY <1>10, PieceFits DEF Chunk, chip, mapping, driver, history
<1>11. CASE NextFrame
  BY <1>11 DEF NextFrame, chip, mapping, driver, history
<1>12. CASE Sent
  BY <1>12, ModeChange DEF Sent, SetMode, DIO0, chip, mapping, driver, history
<1>13. CASE Receive
  BY <1>13, ModeChange DEF Receive, Await, SetMode, chip, mapping, driver, history
<1>14. CASE ListenCca
  BY <1>14, ModeChange DEF ListenCca, Assess, SetMode, chip, mapping, driver, history
<1>15. CASE ListenEmpty
  BY <1>15, ModeChange DEF ListenEmpty, SetMode, Said, chip, mapping, driver, history
<1>16. CASE ListenBusy
  BY <1>16, ModeChange DEF ListenBusy, Await, SetMode, Said, DIO4, chip, mapping, driver, history
<1>17. CASE Message
  BY <1>17 DEF Message, chip, mapping, driver, history
<1>18. CASE NoMessage
  BY <1>18, ModeChange DEF NoMessage, SetMode, chip, mapping, driver, history
<1>19. CASE ReadByte
  BY <1>19, Lines DEF ReadByte, chip, mapping, driver, history
<1>20. CASE ReadEnd
  BY <1>20, ModeChange DEF ReadEnd, SetMode, chip, mapping, driver, history
<1>21. CASE Drain
  BY <1>21, DrainTakes DEF Drain, chip, mapping, driver, history
<1>22. CASE Drained
  BY <1>22 DEF Drained, chip, mapping, driver, history
<1>23. CASE GuardBreak
  BY <1>23, ModeChange DEF GuardBreak, SetMode, chip, mapping, driver, history
<1>24. CASE GuardReturn
  BY <1>24 DEF GuardReturn, Said, chip, mapping, driver, history
<1> QED
  BY <1>1, <1>2, <1>3, <1>4, <1>5, <1>6, <1>7, <1>8, <1>9, <1>10,
     <1>11, <1>12, <1>13, <1>14, <1>15, <1>16, <1>17, <1>18, <1>19, <1>20,
     <1>21, <1>22, <1>23, <1>24
     DEF Next, Sending, Receiving, Guarding

LEMMA StateStep ==
    ASSUME IInv, [Next]_vars, TypeOK'
    PROVE  FifoFits' /\ ChipInv' /\ SentInv' /\ StandbyBetween' /\ UnreadInv'
<1> USE DEF IInv, TypeOK, FifoFits, ChipInv, SentInv, StandbyBetween, UnreadInv,
            ForeignOnlyFromUnread, Count, Empty
<1>1. CASE UNCHANGED vars
  BY <1>1 DEF vars, chip, mapping, driver, history
<1>2. CASE Channel
  BY <1>2 DEF Channel, chip, mapping, driver, history
<1>3. CASE Ready
  BY <1>3 DEF Ready, chip, mapping, driver, history
<1>4. CASE AirByte
  BY <1>4 DEF AirByte, chip, mapping, driver, history
<1>5. CASE Shift
  BY <1>5 DEF Shift, chip, mapping, driver, history
<1>6. CASE SendCca
  BY <1>6 DEF SendCca, Assess, SetMode, chip, mapping, driver, history
<1>7. CASE CcaBusy
  BY <1>7 DEF CcaBusy, SetMode, Said, chip, mapping, driver, history
<1>8. CASE CcaClear
  BY <1>8 DEF CcaClear, Transmit, SetMode, Said, DIO4, chip, mapping, driver, history
<1>9. CASE SendUnguarded
  BY <1>9 DEF SendUnguarded, Transmit, SetMode, chip, mapping, driver, history
<1>10. CASE Chunk
  BY <1>10, PieceFits, Lines DEF Chunk, chip, mapping, driver, history
<1>11. CASE NextFrame
  BY <1>11 DEF NextFrame, chip, mapping, driver, history
<1>12. CASE Sent
  BY <1>12 DEF Sent, SetMode, DIO0, chip, mapping, driver, history
<1>13. CASE Receive
  BY <1>13 DEF Receive, Await, SetMode, chip, mapping, driver, history
<1>14. CASE ListenCca
  BY <1>14 DEF ListenCca, Assess, SetMode, chip, mapping, driver, history
<1>15. CASE ListenEmpty
  BY <1>15 DEF ListenEmpty, SetMode, Said, chip, mapping, driver, history
<1>16. CASE ListenBusy
  BY <1>16 DEF ListenBusy, Await, SetMode, Said, DIO4, chip, mapping, driver, history
<1>17. CASE Message
  BY <1>17 DEF Message, chip, mapping, driver, history
<1>18. CASE NoMessage
  BY <1>18, ModeChange DEF NoMessage, SetMode, chip, mapping, driver, history
<1>19. CASE ReadByte
  BY <1>19, Lines DEF ReadByte, chip, mapping, driver, history
<1>20. CASE ReadEnd
  BY <1>20, ModeChange DEF ReadEnd, SetMode, chip, mapping, driver, history
<1>21. CASE Drain
  BY <1>21, DrainTakes DEF Drain, chip, mapping, driver, history
<1>22. CASE Drained
  BY <1>22, Lines DEF Drained, chip, mapping, driver, history
<1>23. CASE GuardBreak
  BY <1>23 DEF GuardBreak, SetMode, chip, mapping, driver, history
<1>24. CASE GuardReturn
  BY <1>24 DEF GuardReturn, Said, chip, mapping, driver, history
<1> QED
  BY <1>1, <1>2, <1>3, <1>4, <1>5, <1>6, <1>7, <1>8, <1>9, <1>10,
     <1>11, <1>12, <1>13, <1>14, <1>15, <1>16, <1>17, <1>18, <1>19, <1>20,
     <1>21, <1>22, <1>23, <1>24
     DEF Next, Sending, Receiving, Guarding

\* The inductive invariant: what the code assumes of the chip where it is, and
\* what is in the FIFO.
THEOREM Invariance == Spec => []IInv
<1>1. Init => IInv
  BY InitIInv
<1>2. IInv /\ [Next]_vars => IInv'
  <2> SUFFICES ASSUME IInv, [Next]_vars PROVE IInv'
    OBVIOUS
  <2>1. TypeOK'
    BY TypeStep
  <2> QED
    BY <2>1, StateStep DEF IInv
<1> QED
  BY <1>1, <1>2, PTL DEF Spec

\* Every variable keeps its type: the counts of bytes never become negative,
\* whatever is drained or left (sx1231.c:239-243).
THEOREM TypeCorrect == Spec => []TypeOK
  BY Invariance, PTL DEF IInv

\* No write overruns the FIFO, for every threshold below its size (phy.c:429-434).
THEOREM NoOverrun == Spec => []FifoFits
  BY Invariance, PTL DEF IInv

\* Only the CCA and the background reception leave received bytes for the next
\* packet to send (phy.c:398-405, 164-165).
THEOREM ResidueCauses == Spec => []ForeignOnlyFromUnread
  BY Invariance, PTL DEF IInv, UnreadInv

\* Only a background reception that timed out leaves the receiver on.
THEOREM StandbyAtRest == Spec => []StandbyBetween
  BY Invariance, PTL DEF IInv

=============================================================================
