------------------------------ MODULE Frames ------------------------------
(***************************************************************************)
(* The bytes of a packet from one node to another: a caller builds frames  *)
(* (fg_frame.c, bg_frame.h), phy.c adds their CRC and whitens the packet,  *)
(* at most one byte is damaged on the air, and the other node's phy.c and  *)
(* data.c take the frames out again.  There is no FEC.                     *)
(***************************************************************************)
EXTENDS Integers, Sequences

CONSTANTS
    N_FRAMES,       \* of dash7/conf.h; bytes count the frames (phy.c:26-27)
    Senders,        \* my_subnet of the node that sends
    Receivers,      \* and of the one that receives
    Controls,       \* frame_ctl of a foreground frame
    Flags,          \* of fg_addr_ctl_t
    Extras,         \* bytes of a payload beyond the longest that fits
    Lengths,        \* of frames that a caller writes without fg_frame.c
    Times,          \* of bg_param_t
    Masks,          \* the bits of a byte that are damaged
    Places          \* where in the packet

FRAME_SIZE == 255
Byte == 0 .. 255
WORD_MAX == 65535
Word == 0 .. WORD_MAX

\* A caller that writes a frame writes its first four bytes.
ASSUME FramesAssumption ==
    /\ N_FRAMES \in 1 .. 255
    /\ Senders \cup Receivers \cup Controls \cup Flags \subseteq Byte
    /\ Extras \subseteq Nat /\ Lengths \subseteq 4 .. 255
    /\ Times \subseteq Word /\ Masks \subseteq Byte

Fctl_CONT == 16
ADDR_VID == 32
BG_FRAME_SIZE == 5
BG_CRC_SIZE == 7

VARIABLES
    pc,
    pack_class,
    home, device,   \* my_subnet of the sender, of the receiver
    frame,          \* the caller's buffer
    fields,         \* history: what the caller put into the frame
    buf, pos,       \* phy_frame_buf as one array, phy_frame_pos: sender
    added,          \* history: the frames added
    air,            \* the bytes of the packet
    damaged,        \* history: one of them was changed
    rbuf, rpos,     \* phy_frame_buf, phy_frame_pos: receiver
    filled,         \* phy_frame_filled
    read,           \* bytes taken off the packet
    got             \* history: the frames taken out

configured == <<pack_class, home, device>>
caller == <<frame, fields>>
sender == <<buf, pos, added>>
receiver == <<rbuf, rpos, filled, read, got>>
vars == <<pc, configured, caller, sender, air, damaged, receiver>>

Foreground == pack_class = "FOREGROUND"

\* bytes[1], bytes[2], ... at array[at], array[at + 1], ...
Put(array, at, bytes) ==
    [i \in DOMAIN array |->
        IF i - at + 1 \in DOMAIN bytes THEN bytes[i - at + 1] ELSE array[i]]

Slice(array, at, n) == [i \in 1 .. n |-> array[at + i - 1]]

\* What a caller puts into an address or a payload.
Data(n, k) == [i \in 1 .. n |-> (7 * i + 31 * k) % 256]

Weights == <<1, 2, 4, 8, 16, 32, 64, 128>>
Bit(byte, weight) == (byte \div weight) % 2 = 1

\* The operator ^ on bytes.
Xor == [a \in Byte |-> [b \in Byte |->
    LET bit(weight) == weight * ((a \div weight + b \div weight) % 2)
    IN  bit(1) + bit(2) + bit(4) + bit(8) + bit(16) + bit(32) + bit(64) + bit(128)]]

Init ==
    /\ pc = "build" /\ pack_class \in {"BACKGROUND", "FOREGROUND"}
    /\ home \in Senders /\ device \in Receivers
    /\ frame = [i \in 0 .. 299 |-> 0] /\ fields = << >>
    /\ buf = [i \in 0 .. N_FRAMES * FRAME_SIZE + 1 |-> 0] /\ pos = 0
    /\ added = <<>> /\ air = <<>> /\ damaged = FALSE
    /\ rbuf = buf /\ rpos = 0 /\ filled = 0 /\ read = 0 /\ got = <<>>

----------------------------------------------------------------------------
(* Building a frame.  The code joins its tests of bits with &&: a control  *)
(* byte that is not zero has addresses, flags that are not zero have a     *)
(* target and 16 bytes of addresses.  Only fg_set_addr tests a bit.        *)

Addressed == frame[3] # 0
flags == frame[5]
SourcePos == 6
TargetPos == IF flags # 0 THEN SourcePos + 2 ELSE -1
Width == IF Bit(flags, ADDR_VID) THEN 2 ELSE 8

\* Mutation: the addresses are left out.
MutPayloadPos == IF Addressed THEN 4 + 3 ELSE 4

PayloadPos == IF ~Addressed THEN 4 ELSE IF flags # 0 THEN 4 + 3 + 16 ELSE 4 + 3 + 2

\* fg_FH_init and fg_frame_start, M2DP_frame_init; frame[1] is the power.
FrameStart ==
    /\ pc = "build" /\ Foreground
    /\ \E frame_ctl \in Controls :
          LET header == <<(13 - 24) % 256, home, frame_ctl>>
          IN  frame' = Put(frame, 1, header) /\ fields' = [header |-> header]
    /\ pc' = IF Addressed' THEN "addr_ctl" ELSE "payload"
    /\ UNCHANGED <<configured, sender, air, damaged, receiver>>

AddrCtlSet ==
    /\ pc = "addr_ctl"
    /\ \E f \in Flags : LET addr_ctl == <<Len(added), f>>
                        IN  /\ frame' = Put(frame, 4, addr_ctl)
                            /\ fields' = [addr_ctl |-> addr_ctl, header |-> fields.header]
    /\ pc' = "payload"
    /\ UNCHANGED <<configured, sender, air, damaged, receiver>>

\* fg_set_addr: a field that is not present is left out.
SetAddr(type) ==
    LET at == IF type = "source" THEN SourcePos ELSE TargetPos
        addr == Data(Width, IF type = "source" THEN 1 ELSE 2)
    IN  /\ pc = "payload" /\ Addressed /\ type \notin DOMAIN fields
        /\ at > 0
        /\ frame' = Put(frame, at, addr)
        /\ fields' = [name \in DOMAIN fields \cup {type} |->
                        IF name = type THEN addr ELSE fields[name]]
        /\ UNCHANGED <<pc, configured, sender, air, damaged, receiver>>

\* fg_set_payload refuses a payload that is shorter than the longest.
SetPayload ==
    /\ pc = "payload"
    /\ \E extra \in Extras :
          LET size == FRAME_SIZE - 2 - PayloadPos + extra
          IN  /\ frame' = Put(Put(frame, PayloadPos, Data(size, 3)), 0, <<(PayloadPos + size) % 256>>)
              /\ fields' = [name \in DOMAIN fields \cup {"payload"} |->
                              IF name = "payload" THEN Data(size, 3) ELSE fields[name]]
    /\ pc' = "ready"
    /\ UNCHANGED <<configured, sender, air, damaged, receiver>>

\* A frame written byte by byte, as in src/tests.
Write ==
    /\ pc = "build" /\ Foreground
    /\ \E length \in Lengths, frame_ctl \in {0, Fctl_CONT} :
          frame' = Put(frame, 0, <<length, 1, home, frame_ctl>> \o Data(length - 4, length))
    /\ fields' = << >>
    /\ pc' = "ready"
    /\ UNCHANGED <<configured, sender, air, damaged, receiver>>

\* bg_set_subnet with bg_set_advp or bg_set_rsvp.
BgSet ==
    /\ pc = "build" /\ ~Foreground
    /\ \E protocol \in {240, 241}, time \in Times :
          /\ frame' = Put(frame, 0, <<home, protocol, 18, time \div 256, time % 256>>)
          /\ fields' = [protocol |-> <<protocol>>, channel |-> <<18>>, time |-> <<time>>]
    /\ pc' = "ready"
    /\ UNCHANGED <<configured, sender, air, damaged, receiver>>

----------------------------------------------------------------------------
(* CRC-16 and PN9 *)

crc16_calc(old_crc, data) ==
    LET y == Xor[old_crc \div 256][data]
        x == Xor[y][y \div 16]
    IN  256 * Xor[Xor[old_crc % 256][(16 * x) % 256]][x \div 8] + Xor[(32 * x) % 256][x]

\* Over a frame; run[d] is over 2^d bytes of it, or to its end.
Crc(bytes) ==
    LET run[d \in 0 .. 8] ==
            IF d = 0 THEN [at \in Nat |-> [crc \in Word |->
                            IF at \in DOMAIN bytes THEN crc16_calc(crc, bytes[at]) ELSE crc]]
            ELSE [at \in Nat |-> [crc \in Word |->
                    run[d - 1][at + Weights[d]][run[d - 1][at][crc]]]]
    IN  run[8][1][WORD_MAX]

\* The nine bits of lsfr2 and lsfr1; all are set at the start of a packet.
LSFR_START == 511
Lsfr == 0 .. LSFR_START

\* One turn of the loop of pn9_calc.
Shift == [lsfr \in Lsfr |-> lsfr \div 2 + 256 * ((lsfr + lsfr \div 32) % 2)]

Shifted(lsfr) ==
    LET after[i \in 0 .. 8] == IF i = 0 THEN lsfr ELSE Shift[after[i - 1]]
    IN  after[8]

\* lsfr2 and lsfr1 at each byte of a packet: they do not depend on the bytes.
\* run[d] is over 2^d bytes.
Keystream ==
    LET run[d \in 0 .. N_FRAMES + 8] ==
            IF d = 0 THEN [lsfr \in Lsfr |-> <<lsfr>>]
            ELSE [lsfr \in Lsfr |->
                    LET before == run[d - 1][lsfr]
                    IN  before \o run[d - 1][Shifted(before[Len(before)])]]
    IN  run[N_FRAMES + 8][LSFR_START]

----------------------------------------------------------------------------
(* phy_add_frame and phy_send_packet *)

Row(i) == i * FRAME_SIZE

\* Mutation: the last row is forgotten.
MutFull == pos > N_FRAMES

Full == pos = N_FRAMES

\* A frame as its row holds it.
Coded(whole) ==
    LET copy == IF Foreground THEN [whole EXCEPT ![1] = (@ + 2) % 256] ELSE whole
        crc == Crc(copy)
    IN  copy \o <<crc \div 256, crc % 256>>

AddFrame ==
    LET whole == Slice(frame, 0, IF Foreground THEN frame[0] ELSE BG_FRAME_SIZE)
    IN  /\ pc = "ready" /\ ~Full
        /\ buf' = Put(buf, Row(pos), Coded(whole))
        /\ pos' = pos + 1
        /\ added' = Append(added, whole)
        /\ pc' = "added"
        /\ UNCHANGED <<configured, caller, air, damaged, receiver>>

\* The caller has announced another frame, and phy_add_frame has returned that
\* there is room for it.
Another ==
    /\ pc = "added" /\ Foreground /\ ~Full
    /\ Bit(frame[3], Fctl_CONT)
    /\ pc' = "build"
    /\ UNCHANGED <<configured, caller, sender, air, damaged, receiver>>

Whitened(bytes, before) == [i \in DOMAIN bytes |-> Xor[bytes[i]][Keystream[before + i] % 256]]

RowLength(i) == IF Foreground THEN buf[Row(i)] ELSE BG_CRC_SIZE

\* The rows before row i end to end, each as long as its first byte says.
Sent[i \in 0 .. pos] ==
    IF i = 0 THEN <<>>
    ELSE Sent[i - 1] \o
         Whitened(Slice(buf, Row(i - 1), RowLength(i - 1)), Len(Sent[i - 1]))

\* Mutation: the register starts anew with each row.
MutPacket ==
    LET sent[i \in 0 .. pos] ==
            IF i = 0 THEN <<>>
            ELSE sent[i - 1] \o Whitened(Slice(buf, Row(i - 1), RowLength(i - 1)), 0)
    IN  sent[pos]

Packet == Sent[pos]

\* Without a byte the transmitter does not start, and the wait for its end does
\* not return.
SendPacket ==
    /\ pc = "added"
    /\ Foreground => ~Bit(frame[3], Fctl_CONT)
    /\ air' = Packet
    /\ pc' = IF air' = <<>> THEN "stuck" ELSE "air"
    /\ UNCHANGED <<configured, caller, sender, damaged, receiver>>

----------------------------------------------------------------------------
(* The air, phy_receive_packet, data_listen and phy_get_frame *)

Damage ==
    /\ pc = "air" /\ ~damaged
    /\ \E i \in Places \cap DOMAIN air, mask \in Masks : air' = [air EXCEPT ![i] = Xor[@][mask]]
    /\ damaged' = TRUE
    /\ UNCHANGED <<pc, configured, caller, sender, receiver>>

SubnetVerify(ds, fs) ==
    /\ fs \div 16 \in {15, ds \div 16}
    /\ \A weight \in {1, 2, 4, 8} : Bit(ds, weight) => Bit(fs, weight)

\* One turn of the loop over the frames: PHY_BAD_SIZE and PHY_BYTE_TIMEOUT end
\* it with an error, and so does a subnet that data_listen does not take.  The
\* last row that announces another frame is counted twice (phy.c:135), in a byte.
ReadFrame ==
    LET rest == Whitened(SubSeq(air, read + 1, Len(air)), read)
        size == IF Foreground /\ rest # <<>> THEN rest[1] ELSE BG_CRC_SIZE
        bad_size == Foreground /\ size < 8
        broken == bad_size \/ Len(rest) < size
        wanted == IF bad_size THEN 1 ELSE size
        taken == IF Len(rest) < wanted THEN rest ELSE SubSeq(rest, 1, wanted)
        cont == Foreground /\ Bit(rest[4], Fctl_CONT)
        over == ~broken /\ cont /\ filled + 1 = N_FRAMES
        subnet == rbuf'[IF Foreground THEN 2 ELSE 0]
    IN  /\ pc = "air"
        /\ rbuf' = Put(rbuf, Row(filled), taken)
        /\ read' = read + Len(taken)
        /\ filled' = IF over THEN (N_FRAMES + 1) % 256 ELSE filled + 1
        /\ pc' = IF broken THEN "error"
                 ELSE IF cont /\ ~over THEN "air"
                 ELSE IF SubnetVerify(device, subnet) THEN "listened" ELSE "error"
        /\ UNCHANGED <<configured, caller, sender, air, damaged, rpos, got>>

\* The caller takes the frames out until there are no more; PHY_CRC_ERROR skips
\* one.
GetFrame ==
    LET row == Row(rpos)
        frame_end == IF Foreground THEN rbuf[row] - 2 ELSE BG_FRAME_SIZE
        bytes == Slice(rbuf, row, frame_end)
        crc_given == rbuf[row + frame_end] * 256 + rbuf[row + frame_end + 1]
    IN  /\ pc = "listened" /\ rpos < filled /\ rpos < N_FRAMES
        /\ got' = IF Crc(bytes) = crc_given
                    THEN Append(got, IF Foreground THEN [bytes EXCEPT ![1] = @ - 2] ELSE bytes)
                    ELSE got
        /\ rpos' = rpos + 1
        /\ UNCHANGED <<pc, configured, caller, sender, air, damaged, rbuf, filled, read>>

\* A row behind the buffer: whatever is there is an error or a frame.
GetBeyond ==
    /\ pc = "listened" /\ rpos = N_FRAMES /\ rpos < filled
    /\ got' \in {got, Append(got, Data(8, 4))}
    /\ rpos' = rpos + 1
    /\ UNCHANGED <<pc, configured, caller, sender, air, damaged, rbuf, filled, read>>

Next ==
    \/ FrameStart \/ AddrCtlSet \/ SetPayload \/ Write \/ BgSet
    \/ \E type \in {"source", "target"} : SetAddr(type)
    \/ AddFrame \/ Another \/ SendPacket \/ Damage \/ ReadFrame \/ GetFrame \/ GetBeyond

Spec == Init /\ [][Next]_vars

----------------------------------------------------------------------------
(* Properties *)

\* Every byte of a buffer and of a packet is one, whatever wraps on the way
\* (phy.c:335-356); the indices leave the buffer by one row at most.
TypeOK ==
    /\ pc \in {"build", "addr_ctl", "payload", "ready", "added", "stuck", "air", "listened", "error"}
    /\ \A array \in {frame, buf, rbuf} : \A i \in DOMAIN array : array[i] \in Byte
    /\ \A i \in DOMAIN air : air[i] \in Byte
    /\ pos \in 0 .. N_FRAMES /\ filled \in 0 .. N_FRAMES + 1 /\ rpos \in 0 .. filled
    /\ read \in 0 .. Len(air) /\ damaged \in BOOLEAN

\* The field as its reader finds it: fg_get_FH, fg_addr_ctl_get, the bytes at
\* fg_source_pos and fg_target_pos, fg_get_payload, bg_get_advp.
Field(name) ==
    CASE name = "header"   -> Slice(frame, 1, 3)
      [] name = "addr_ctl" -> Slice(frame, 4, 2)
      [] name = "source"   -> Slice(frame, SourcePos, Width)
      [] name = "target"   -> Slice(frame, TargetPos, Width)
      [] name = "payload"  -> Slice(frame, PayloadPos, frame[0] - PayloadPos)
      [] name = "protocol" -> <<frame[1]>>
      [] name = "channel"  -> <<frame[2]>>
      [] name = "time"     -> <<frame[4] + frame[3] * 256>>

\* What was put into a frame is read back, whatever was put in after it, in a
\* frame without addresses or with virtual ones, up to the length a byte holds.
\* The positions of fg_frame.c let the long ones overlap (fg_frame.c:53-96).
FieldsKept ==
    (Foreground /\ Addressed => Bit(flags, ADDR_VID)) =>
        \A name \in DOMAIN fields :
            (name = "payload" => Len(fields.payload) <= 255 - PayloadPos) =>
                Field(name) = fields[name]

Fits == \A i \in DOMAIN added : Len(added[i]) \in (IF Foreground THEN 6 ELSE 5) .. 253
Finished == pc = "error" \/ (pc = "listened" /\ rpos = filled)

\* The damaged byte is not the length that a row begins with.
LengthsArrive ==
    Foreground => \A i \in 0 .. pos - 1 :
        LET at == Len(Sent[i]) + 1 IN at \in DOMAIN air => air[at] = Packet[at]

\* A node takes out every frame of an undamaged packet of its own subnet, byte
\* for byte and in order, if their lengths leave room for the CRC, and none of
\* a packet of another specifier; and no frame that was not added, whichever
\* byte is damaged and whatever the lengths (phy.c:349-376, 459-489), but for
\* three ways: a length has wrapped to zero, and the CRC of nothing makes a
\* frame of the row; the byte is a length, and where the receiver then looks for
\* a CRC it may find one that matches; a row behind the buffer was read.
PacketDecodes ==
    /\ (\A j \in DOMAIN added : added[j] # <<>>) /\ rpos <= N_FRAMES
       /\ (damaged => LengthsArrive) =>
          \A i \in DOMAIN got : \E j \in DOMAIN added : got[i] = added[j]
    /\ Finished /\ ~damaged /\ Fits =>
        /\ home \in {device, 255} => got = added
        /\ home \div 16 \notin {15, device \div 16} => got = <<>>

=============================================================================
