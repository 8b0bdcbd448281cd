------------------------------- MODULE Radio -------------------------------
(***************************************************************************)
(* The transceiver and the code that drives it inside one procedure: the   *)
(* sending and the reception of packets (phy.c), the clear channel         *)
(* assessments (phy.c, data.c), the mode changes and the emptying of the   *)
(* FIFO (sx1231.c), and the mapping of signals to DIO lines (dio.h).       *)
(*                                                                         *)
(* Of a byte in the FIFO only its origin matters: `air' bytes have been    *)
(* received, `own' bytes are of the packet being sent.  The chip is known  *)
(* from its use: the FIFO survives STDBY -> TX (sx1231.c:280-287 fills it  *)
(* in STDBY) and RX -> STDBY (sx1231.c:337-338 reads it in STDBY); on      *)
(* other mode changes it may or may not be cleared.  A receiver is ready   *)
(* some time after RX is entered; sx_mode waits 10 ms and not for the      *)
(* signal (sx1231.c:193-194).                                              *)
(***************************************************************************)
EXTENDS Integers

CONSTANTS
    FIFO_SIZE,              \* sx1231.h:17
    VALUE_FIFO_THRESH,      \* sx1231.h:710
    Sizes,                  \* the sizes of frames
    MaxFrames               \* the frames of a packet

ASSUME FifoAssumption ==
    /\ FIFO_SIZE \in Nat /\ VALUE_FIFO_THRESH \in Nat
    /\ VALUE_FIFO_THRESH + 1 < FIFO_SIZE
ASSUME FramesAssumption == Sizes \subseteq Nat \ {0} /\ MaxFrames \in Nat \ {0}

VARIABLES
    mode,           \* the mode of the chip
    rx_ready,       \* 1 when the receiver is ready
    mapping1,       \* what REG_DIO_MAPPING_1 puts on DIO0 .. DIO3
    mapping2,       \* what REG_DIO_MAPPING_2 puts on DIO4
    fifo,           \* the bytes in the FIFO; the received ones are ahead
    packet_sent,    \* 1 from the end of a transmission until TX is left
    carrier,        \* 1 when somebody else is transmitting
    pc,             \* where the code is
    op,             \* the function it is in
    left, frames,   \* bytes left of the current frame, frames left after it
    verdict,        \* history: what the last CCA said and the carrier then
    foreign,        \* history: how many received bytes this packet has sent
    unread          \* history: what may have left received bytes in the FIFO

chip == <<mode, rx_ready, fifo, packet_sent>>
mapping == <<mapping1, mapping2>>
driver == <<pc, op, left, frames>>
history == <<verdict, foreign, unread>>
vars == <<chip, mapping, carrier, driver, history>>

Empty == [air |-> 0, own |-> 0]
Count == fifo.air + fifo.own
Least(a, b) == IF a < b THEN a ELSE b

\* After dio_init and phy_init.
Init ==
    /\ mode = "STDBY" /\ rx_ready = 0
    /\ mapping1 = "packet_sent" /\ mapping2 = "rx_ready"
    /\ fifo = Empty /\ packet_sent = 0
    /\ carrier \in {0, 1}
    /\ pc = "idle" /\ op = "none"
    /\ left = 0 /\ frames = 0
    /\ verdict = [said |-> "none", carrier |-> 0]
    /\ foreign = 0 /\ unread = {}

----------------------------------------------------------------------------
(* The lines, each with the levels it can show.  What the fields of the    *)
(* other register do to DIO0 .. DIO3 is unspecified: any level.            *)

Level(b) == {IF b THEN 1 ELSE 0}
DIO0 == IF mapping1 = "packet_sent" THEN {packet_sent} ELSE {0}
DIO1 == IF mapping1 = "dio4" THEN {0, 1} ELSE Level(Count > VALUE_FIFO_THRESH)
DIO2 == IF mapping1 = "dio4" THEN {0, 1} ELSE Level(Count > 0)
DIO4 == IF mode # "RX" THEN {0}
        ELSE IF mapping2 = "rssi" THEN {carrier} ELSE {rx_ready}

\* sx_mode(m), and what the chip may do to its FIFO.
SetMode(m) ==
    /\ mode' = m
    /\ rx_ready' = 0
    /\ packet_sent' = 0
    /\ fifo' \in IF m = "RX" \/ (m = "TX" /\ mode = "RX")
                   THEN {fifo, Empty} ELSE {fifo}

----------------------------------------------------------------------------
(* The chip and the channel *)

Channel ==
    /\ carrier' = 1 - carrier
    /\ UNCHANGED <<chip, mapping, driver, history>>

Ready ==
    /\ mode = "RX" /\ rx_ready = 0
    /\ rx_ready' = 1
    /\ UNCHANGED <<mode, fifo, packet_sent, mapping, carrier, driver, history>>

AirByte ==
    /\ mode = "RX" /\ rx_ready = 1 /\ Count < FIFO_SIZE
    /\ fifo' = [fifo EXCEPT !.air = @ + 1]
    /\ UNCHANGED <<mode, rx_ready, packet_sent, mapping, carrier, driver, history>>

\* The transmitter takes the byte ahead; with the last one the packet ends.  The
\* thread is assumed to add to a packet before the FIFO runs dry: from the edge
\* of DIO1 it has the time of VALUE_FIFO_THRESH bytes, 4.7 ms, to do so.
Shift ==
    /\ mode = "TX" /\ Count > 0
    /\ Count = 1 => left = 0 /\ frames = 0
    /\ IF fifo.air > 0
         THEN /\ fifo' = [fifo EXCEPT !.air = @ - 1]
              /\ foreign' = foreign + 1
         ELSE /\ fifo' = [fifo EXCEPT !.own = @ - 1]
              /\ UNCHANGED foreign
    /\ packet_sent' = IF Count = 1 THEN 1 ELSE packet_sent
    /\ UNCHANGED <<mode, rx_ready, mapping, carrier, driver, verdict, unread>>

----------------------------------------------------------------------------
(* phy_send_packet *)

\* The assessment: receive, and have the RSSI on DIO4.
Assess(where, who) ==
    /\ pc = "idle"
    /\ pc' = where /\ op' = who
    /\ SetMode("RX")
    /\ mapping1' = "dio4"       \* rssi_on_dio4 writes REG_DIO_MAPPING_1
    /\ unread' = unread \cup {"cca"}
    /\ UNCHANGED <<mapping2, carrier, left, frames, verdict, foreign>>

SendCca == Assess("cca", "send")

Said(what) == verdict' = [said |-> what, carrier |-> carrier]

\* Mutation: the receiver is left on when the channel is busy.
MutCcaBusy ==
    /\ pc = "cca" /\ 1 \in DIO4
    /\ pc' = "idle"
    /\ Said("busy")
    /\ UNCHANGED <<chip, mapping, carrier, op, left, frames, foreign, unread>>

\* The channel was not clear before the timeout: PHY_CHANNEL_BUSY.
CcaBusy ==
    /\ pc = "cca" /\ 1 \in DIO4
    /\ pc' = "idle"
    /\ SetMode("STDBY")
    /\ Said("busy")
    /\ UNCHANGED <<mapping, carrier, op, left, frames, foreign, unread>>

\* Mutation: the signal on DIO0 is left as the reception wanted it.
MutTransmit ==
    /\ pc' = "tx" /\ op' = "send"
    /\ SetMode("TX")
    /\ \E n \in 1 .. MaxFrames, s \in Sizes : left' = s /\ frames' = n - 1
    /\ foreign' = 0
    /\ UNCHANGED <<mapping, carrier, unread>>

\* From there on both ways of sending are the same.
Transmit ==
    /\ pc' = "tx" /\ op' = "send"
    /\ mapping1' = "packet_sent"
    /\ SetMode("TX")
    /\ \E n \in 1 .. MaxFrames, s \in Sizes : left' = s /\ frames' = n - 1
    /\ foreign' = 0
    /\ UNCHANGED <<mapping2, carrier, unread>>

\* The mode goes through STDBY before TX: the FIFO is kept.
CcaClear ==
    /\ pc = "cca" /\ 0 \in DIO4
    /\ Transmit /\ fifo' = fifo
    /\ Said("clear")

SendUnguarded ==
    /\ pc = "idle"
    /\ Transmit
    /\ UNCHANGED verdict

\* Mutation: the bytes that are still in the FIFO are not allowed for.
MutRoom == FIFO_SIZE - 1

\* What is sure to fit once the FIFO is below its level.
Room == FIFO_SIZE - VALUE_FIFO_THRESH - 1

\* Mutation: the last piece of a frame is as long as the others.
MutPiece == Room

Piece == Least(left, Room)

Chunk ==
    /\ pc = "tx" /\ left > 0 /\ 0 \in DIO1
    /\ fifo' = [fifo EXCEPT !.own = @ + Piece]
    /\ left' = left - Piece
    /\ UNCHANGED <<mode, rx_ready, packet_sent, mapping, carrier, pc, op, frames, history>>

NextFrame ==
    /\ pc = "tx" /\ left = 0 /\ frames > 0
    /\ left' \in Sizes
    /\ frames' = frames - 1
    /\ UNCHANGED <<chip, mapping, carrier, pc, op, history>>

Sent ==
    /\ pc = "tx" /\ left = 0 /\ frames = 0 /\ 1 \in DIO0
    /\ pc' = "idle"
    /\ SetMode("STDBY")
    /\ unread' = {} /\ foreign' = 0
    /\ UNCHANGED <<mapping, carrier, op, left, frames, verdict>>

----------------------------------------------------------------------------
(* phy_receive_packet, and data_listen for the background class *)

Await(class) ==
    /\ pc' = "await" /\ op' = class
    /\ mapping1' = "payload_ready"
    /\ SetMode("RX")
    /\ UNCHANGED <<mapping2, carrier, left, frames, foreign, unread>>

Receive ==
    /\ pc = "idle"
    /\ \E class \in {"foreground", "background"} : Await(class)
    /\ UNCHANGED verdict

\* data_listen wants a busy channel.
ListenCca == Assess("listen", "background")

ListenEmpty ==
    /\ pc = "listen" /\ 0 \in DIO4
    /\ pc' = "idle"
    /\ SetMode("STDBY")
    /\ Said("clear")
    /\ UNCHANGED <<mapping, carrier, op, left, frames, foreign, unread>>

ListenBusy ==
    /\ pc = "listen" /\ 1 \in DIO4
    /\ Await("background")
    /\ Said("busy")

\* wait_message: payload_ready never comes, because the length is unlimited
\* (phy.c:275-282), so that DIO1 alone tells of bytes.
Message ==
    /\ pc = "await" /\ 1 \in DIO1
    /\ pc' = "read"
    /\ left' \in Sizes
    /\ UNCHANGED <<chip, mapping, carrier, op, frames, history>>

\* PHY_REC_TIMEOUT.  The receiver of background packets is left on.
NoMessage ==
    /\ pc = "await" /\ 0 \in DIO1
    /\ IF op = "background"
         THEN /\ pc' = "idle"
              /\ unread' = unread \cup {"background"}
              /\ UNCHANGED chip
         ELSE /\ pc' = "drain"
              /\ SetMode("STDBY")
              /\ UNCHANGED unread
    /\ UNCHANGED <<mapping, carrier, op, left, frames, verdict, foreign>>

ReadByte ==
    /\ pc = "read" /\ left > 0 /\ 1 \in DIO1
    /\ fifo' = [fifo EXCEPT !.air = @ - 1]
    /\ left' = left - 1
    /\ UNCHANGED <<mode, rx_ready, packet_sent, mapping, carrier, pc, op, frames, history>>

\* Mutation: the FIFO is not emptied when the frame has been read.
MutReadEnd ==
    /\ pc = "read"
    /\ left = 0 \/ 0 \in DIO1
    /\ pc' = "idle"
    /\ left' = 0
    /\ SetMode("STDBY")
    /\ unread' = {}
    /\ UNCHANGED <<mapping, carrier, op, frames, verdict, foreign>>

\* The packet has been read, or a byte did not come in time.
ReadEnd ==
    /\ pc = "read"
    /\ left = 0 \/ 0 \in DIO1
    /\ pc' = "drain"
    /\ left' = 0
    /\ SetMode("STDBY")
    /\ UNCHANGED <<mapping, carrier, op, frames, history>>

----------------------------------------------------------------------------
(* empty_fifo, and data_guard_break *)

Drain ==
    /\ pc = "drain" /\ 1 \in DIO2
    /\ \E level \in DIO1 :
         fifo' = [fifo EXCEPT !.air = @ - Least(@, IF level = 1 THEN VALUE_FIFO_THRESH ELSE 1)]
    /\ UNCHANGED <<mode, rx_ready, packet_sent, mapping, carrier, driver, history>>

Drained ==
    /\ pc = "drain" /\ 0 \in DIO2
    /\ pc' = IF op = "guard" THEN "guard" ELSE "idle"
    /\ unread' = IF Count = 0 THEN {} ELSE unread
    /\ UNCHANGED <<chip, mapping, carrier, op, left, frames, verdict, foreign>>

GuardBreak ==
    /\ pc = "idle"
    /\ pc' = "drain" /\ op' = "guard"
    /\ SetMode("STDBY")
    /\ UNCHANGED <<mapping, carrier, left, frames, history>>

\* The verdict of wait_cca_timeout(0), which ends the guard break or has it
\* repeated until its time is over.
GuardReturn ==
    /\ pc = "guard"
    /\ pc' = "idle"
    /\ \E level \in DIO4 : Said(IF level = 0 THEN "clear" ELSE "busy")
    /\ UNCHANGED <<chip, mapping, carrier, op, left, frames, foreign, unread>>

----------------------------------------------------------------------------
Sending == SendCca \/ CcaBusy \/ CcaClear \/ SendUnguarded \/ Chunk \/ NextFrame \/ Sent
Receiving == Receive \/ ListenCca \/ ListenEmpty \/ ListenBusy \/ Message
             \/ NoMessage \/ ReadByte \/ ReadEnd
Guarding == Drain \/ Drained \/ GuardBreak \/ GuardReturn

Next == Channel \/ Ready \/ AirByte \/ Shift \/ Sending \/ Receiving \/ Guarding

Spec == Init /\ [][Next]_vars

\* The thread goes on once it is in a function, and the chip transmits.
Fairness ==
    /\ WF_vars(pc # "idle" /\ (Sending \/ Receiving \/ Guarding))
    /\ WF_vars(Shift)

FairSpec == Spec /\ Fairness

----------------------------------------------------------------------------
(* Properties *)

\* Every variable keeps its type: no count of bytes becomes negative and no
\* frame is left with a negative rest (phy.c:429-434).
TypeOK ==
    /\ mode \in {"STDBY", "RX", "TX"}
    /\ rx_ready \in {0, 1} /\ packet_sent \in {0, 1} /\ carrier \in {0, 1}
    /\ mapping1 \in {"packet_sent", "payload_ready", "dio4"}
    /\ mapping2 \in {"rx_ready", "rssi"}
    /\ fifo \in [air : Nat, own : Nat]
    /\ pc \in {"idle", "cca", "tx", "listen", "await", "read", "drain", "guard"}
    /\ op \in {"none", "send", "foreground", "background", "guard"}
    /\ left \in Nat /\ frames \in Nat /\ foreign \in Nat
    /\ verdict \in [said : {"none", "clear", "busy"}, carrier : {0, 1}]
    /\ unread \subseteq {"cca", "background"}

\* Writing in pieces of FIFO_SIZE - VALUE_FIFO_THRESH - 1 bytes whenever DIO1 is
\* low never overruns the FIFO, whatever was in it before (phy.c:429-434).
FifoFits == Count <= FIFO_SIZE

\* Received bytes go out ahead of a packet only after a CCA, or after a
\* background reception that timed out: every other path empties the FIFO
\* (phy.c:89-93, 137-138, 183-184).
ForeignOnlyFromUnread ==
    pc \in {"idle", "tx"} /\ fifo.air + foreign > 0 => unread # {}

\* A procedure step leaves the chip in standby, unless it was a background
\* reception that timed out (phy.c:164-165).
StandbyBetween ==
    pc = "idle" /\ mode # "STDBY" => mode = "RX" /\ "background" \in unread

\* The line a CCA reads carries the RSSI (dio.h:135): a busy channel has a
\* carrier.
BusyMeansCarrier == verdict.said = "busy" => verdict.carrier = 1

\* The sending and the reception of a packet end, although they wait for lines
\* without a timeout (phy.c:430, 436) and poll one (sx1231.c:240).
Returns == pc # "idle" /\ op # "guard" ~> pc = "idle"

=============================================================================
