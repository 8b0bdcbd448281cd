------------------------------- MODULE PhyProc -------------------------------
(***************************************************************************)
(* The procedure discipline of the physical layer, src/src/dash7/phy.c.     *)
(*                                                                         *)
(* Several threads share one transceiver and one frame buffer.  A thread   *)
(* brackets its use of them with phy_proc_start and phy_proc_finish, which *)
(* lock and unlock phy_proc_mtx; in between it configures the layer, adds  *)
(* frames and sends them, or listens and takes the received frames out.    *)
(*                                                                         *)
(* A frame is a member of Frames; its bytes, its CRC and its length byte   *)
(* are abstracted to "intact or not", the PN9 whitening to one bit, and    *)
(* the byte loops of the radio to one step per frame.  The transceiver     *)
(* itself (modes, FIFO, DIO pins) is not part of this module.              *)
(***************************************************************************)
EXTENDS Integers, Sequences, FiniteSets

CONSTANTS
    Threads,    \* the threads that run procedures, all of one priority
    NFrames,    \* N_FRAMES of dash7/conf.h
    NoThread,   \* the owner of a free mutex
    Frames,     \* the frames callers and peers put in packets
    Garbled,    \* the bytes of a frame whose CRC does not match
    Radio,      \* who wrote a received row
    MaxCalls    \* bound: PHY calls that a thread makes in one procedure

ASSUME ThreadsAssumption == NoThread \notin Threads /\ Radio \notin Threads
ASSUME FramesAssumption == Garbled \notin Frames
ASSUME NFramesAssumption == NFrames \in 1 .. 255       \* conf.h:16
ASSUME MaxCallsAssumption == MaxCalls \in Nat

Events  == {"START", "LISTEN", "SEND"}       \* PROC_START, _LISTEN, _SEND
Classes == {"BACKGROUND", "FOREGROUND"}      \* phy_param_t.pack_class

\* A row of phy_frame_buf.  `by' is history: the thread that added the frame.
Slot == [by    : Threads \cup {Radio},
         frame : Frames \cup {Garbled},
         class : Classes,
         white : BOOLEAN]

VARIABLES
    pc,               \* where each thread is in the PHY
    phy_proc_mtx,     \* the owner of the mutex, or NoThread
    waiting,          \* the threads queued on the mutex
    proc_event,
    phy_frame_buf,
    phy_frame_pos,
    phy_frame_filled,
    pack_class,       \* of phy_conf, what the buffer depends on
    fi,               \* the frame iterator of the send and receive loops
    calls,            \* PHY calls made in the running procedure (bound)
    \* history of the running procedure, for the properties; of these only
    \* `added' is read by guards, where it is what the caller has done so far
    added,            \* frames accepted by phy_add_frame and not sent yet
    air,              \* slots transmitted in the packet being sent
    heard,            \* frames read whole off the packet received last
    got,              \* frames phy_get_frame returned from that packet
    ended,            \* how its reception ended, "none" before it has
    reclassed,        \* the class was changed since
    overtaken         \* another phy_proc_start ran since the last reset

reception == <<heard, got, ended, reclassed>>
history == <<added, air, reception, overtaken>>
vars == <<pc, phy_proc_mtx, waiting, proc_event, phy_frame_buf, phy_frame_pos,
          phy_frame_filled, pack_class, fi, calls, history>>

Init ==
    /\ pc = [t \in Threads |-> "out"]
    /\ phy_proc_mtx = NoThread
    /\ waiting = <<>>
    /\ proc_event = "START"
    /\ phy_frame_buf = [i \in 0 .. NFrames - 1 |->
            [by |-> Radio, frame |-> Garbled,
             class |-> "BACKGROUND", white |-> FALSE]]
    /\ phy_frame_pos = 0
    /\ phy_frame_filled = 0
    /\ pack_class = "BACKGROUND"
    /\ fi = 0
    /\ calls = 0
    /\ added = <<>> /\ air = <<>> /\ heard = <<>> /\ got = <<>>
    /\ ended = "none" /\ reclassed = FALSE
    /\ overtaken = FALSE

\* The history of a reception ends: its rows are given up.
ReceptionOver ==
    heard' = <<>> /\ got' = <<>> /\ ended' = "none" /\ reclassed' = FALSE

----------------------------------------------------------------------------
(* phy_proc_start and phy_proc_finish *)

\* proc_event = PROC_START, before the mutex is taken.
StartWrite(t) ==
    /\ pc[t] = "out"
    /\ pc' = [pc EXCEPT ![t] = "locking"]
    /\ proc_event' = "START"
    /\ overtaken' = (overtaken \/ phy_proc_mtx # NoThread)
    /\ UNCHANGED <<phy_proc_mtx, waiting, phy_frame_buf, phy_frame_pos,
                   phy_frame_filled, pack_class, fi, calls,
                   added, air, reception>>

\* Mutation: the mutex is not tested.
MutStartNoLock(t) ==
    /\ pc[t] = "locking"
    /\ phy_proc_mtx' = t
    /\ pc' = [pc EXCEPT ![t] = "entering"]
    /\ UNCHANGED <<waiting, proc_event, phy_frame_buf, phy_frame_pos,
                   phy_frame_filled, pack_class, fi, calls, history>>

\* chMtxLock: take a free mutex or queue on it (in order: one priority).
StartLock(t) ==
    /\ pc[t] = "locking"
    /\ IF phy_proc_mtx = NoThread
         THEN /\ phy_proc_mtx' = t
              /\ pc' = [pc EXCEPT ![t] = "entering"]
              /\ UNCHANGED waiting
         ELSE /\ waiting' = Append(waiting, t)
              /\ pc' = [pc EXCEPT ![t] = "blocked"]
              /\ UNCHANGED phy_proc_mtx
    /\ UNCHANGED <<proc_event, phy_frame_buf, phy_frame_pos, phy_frame_filled,
                   pack_class, fi, calls, history>>

\* Mutation: the buffer is not emptied.
MutStartNoReset(t) ==
    /\ pc[t] = "entering"
    /\ pc' = [pc EXCEPT ![t] = "in"]
    /\ UNCHANGED <<phy_proc_mtx, waiting, proc_event, phy_frame_buf,
                   phy_frame_pos, phy_frame_filled, pack_class, fi, calls,
                   history>>

\* The two assignments after chMtxLock returns.
StartReset(t) ==
    /\ pc[t] = "entering"
    /\ pc' = [pc EXCEPT ![t] = "in"]
    /\ phy_frame_pos' = 0
    /\ phy_frame_filled' = 0
    /\ overtaken' = FALSE
    /\ UNCHANGED <<phy_proc_mtx, waiting, proc_event, phy_frame_buf, pack_class,
                   fi, calls, added, air, reception>>

\* Mutation: the mutex is freed over the heads of the waiters.
MutFinishNoHandover(t) ==
    /\ pc[t] = "in"
    /\ phy_proc_mtx' = NoThread
    /\ pc' = [pc EXCEPT ![t] = "out"]
    /\ calls' = 0
    /\ added' = <<>> /\ ReceptionOver
    /\ overtaken' = FALSE
    /\ UNCHANGED <<waiting, proc_event, phy_frame_buf, phy_frame_pos,
                   phy_frame_filled, pack_class, fi, air>>

\* chMtxUnlock: the head of the queue becomes the owner at once.  The history
\* of the procedure ends here; the frame buffer keeps what it holds.
Finish(t) ==
    /\ pc[t] = "in"
    /\ IF waiting = <<>>
         THEN /\ phy_proc_mtx' = NoThread
              /\ pc' = [pc EXCEPT ![t] = "out"]
              /\ UNCHANGED waiting
         ELSE /\ phy_proc_mtx' = Head(waiting)
              /\ pc' = [pc EXCEPT ![t] = "out", ![Head(waiting)] = "entering"]
              /\ waiting' = Tail(waiting)
    /\ calls' = 0
    /\ added' = <<>> /\ ReceptionOver
    /\ overtaken' = FALSE
    /\ UNCHANGED <<proc_event, phy_frame_buf, phy_frame_pos, phy_frame_filled,
                   pack_class, fi, air>>

\* Every other PHY function is called inside a procedure, at most MaxCalls times.
Call(t) ==
    /\ pc[t] = "in"
    /\ calls < MaxCalls
    /\ calls' = calls + 1

\* phy_config, as far as the frame buffer depends on it: at any point of a
\* procedure, as advp_send and rsvp change the class with a refused frame still
\* in the buffer.  (Callers leave phy_conf.fec at 0.)
Config(t) ==
    /\ Call(t)
    /\ pack_class' \in Classes
    /\ reclassed' = \/ reclassed
                    \/ /\ ended # "none"
                       /\ pack_class' # pack_class
    /\ UNCHANGED <<pc, phy_proc_mtx, waiting, proc_event, phy_frame_buf,
                   phy_frame_pos, phy_frame_filled, fi, added, air, heard,
                   got, ended, overtaken>>

----------------------------------------------------------------------------
(* phy_add_frame and phy_send_packet *)

\* The buffer is started afresh when the last operation was not an addition
\* (and a mutation: never).
MutNeverRestarted == FALSE
Restarted == proc_event # "SEND"

\* No row is free (and a mutation: the test is left out).
MutNeverFull(pos) == FALSE
Full(pos) == pos = NFrames

\* proc_event_handler(PROC_SEND), then the frame goes into row phy_frame_pos.
AddFrame(t, f) ==
    LET pos == IF Restarted THEN 0 ELSE phy_frame_pos
    IN  /\ Call(t)
        /\ proc_event' = "SEND"
        /\ ~Full(pos)                                     \* PHY_BUFFER_FULL
        /\ phy_frame_buf' = [phy_frame_buf EXCEPT ![pos] =
                [by |-> t, frame |-> f,
                 class |-> pack_class, white |-> FALSE]]
        /\ phy_frame_pos' = pos + 1
        /\ phy_frame_filled' = IF Restarted THEN 0 ELSE phy_frame_filled
        /\ added' = Append(added, f)
        /\ IF Restarted THEN ReceptionOver ELSE UNCHANGED reception
        /\ UNCHANGED <<pc, phy_proc_mtx, waiting, pack_class, fi, air, overtaken>>

\* The early return of phy_add_frame: the event handler has run all the same.
AddRefused(t) ==
    LET pos == IF Restarted THEN 0 ELSE phy_frame_pos
    IN  /\ Call(t)
        /\ Full(pos)
        /\ proc_event' = "SEND"
        /\ phy_frame_pos' = pos
        /\ phy_frame_filled' = IF Restarted THEN 0 ELSE phy_frame_filled
        /\ IF Restarted THEN ReceptionOver ELSE UNCHANGED reception
        /\ UNCHANGED <<pc, phy_proc_mtx, waiting, phy_frame_buf, pack_class, fi,
                       added, air, overtaken>>

\* background_pn9 whitens row 0, foreground_pn9 the rows below phy_frame_pos.
Whitened(buf) ==
    [i \in DOMAIN buf |->
        IF \/ pack_class = "BACKGROUND" /\ i = 0
           \/ pack_class = "FOREGROUND" /\ i < phy_frame_pos
        THEN [buf[i] EXCEPT !.white = ~ buf[i].white]
        ELSE buf[i]]

\* Mutation: a busy channel ends the send operation as a success does.
MutSendBusyEnds(t) ==
    /\ Call(t)
    /\ added # <<>>
    /\ proc_event' = "START"
    /\ UNCHANGED <<pc, phy_proc_mtx, waiting, phy_frame_buf, phy_frame_pos,
                   phy_frame_filled, pack_class, fi, history>>

\* Mutation: the rows are whitened before the channel is assessed.
MutSendBusyWhitens(t) ==
    /\ Call(t)
    /\ added # <<>>
    /\ phy_frame_buf' = Whitened(phy_frame_buf)
    /\ UNCHANGED <<pc, phy_proc_mtx, waiting, proc_event, phy_frame_pos,
                   phy_frame_filled, pack_class, fi, history>>

\* phy_send_packet finds the channel busy: buffer and proc_event are kept.
SendBusy(t) ==
    /\ Call(t)
    /\ added # <<>>
    /\ UNCHANGED <<pc, phy_proc_mtx, waiting, proc_event, phy_frame_buf,
                   phy_frame_pos, phy_frame_filled, pack_class, fi, history>>

\* Past the channel check: whiten in place and start transmitting.  Callers
\* send only what they have added: with an empty buffer the transmitter would
\* never start and wait_packet_sent would never return.
SendStart(t) ==
    /\ Call(t)
    /\ added # <<>>
    /\ pc' = [pc EXCEPT ![t] = "tx"]
    /\ phy_frame_buf' = Whitened(phy_frame_buf)
    /\ fi' = 0
    /\ air' = <<>>
    /\ UNCHANGED <<phy_proc_mtx, waiting, proc_event, phy_frame_pos,
                   phy_frame_filled, pack_class, added, reception, overtaken>>

\* Mutation: the rows go out last one first.
MutSendFrame(t) ==
    /\ pc[t] = "tx"
    /\ fi < phy_frame_pos
    /\ air' = Append(air, phy_frame_buf[phy_frame_pos - 1 - fi])
    /\ fi' = fi + 1
    /\ UNCHANGED <<pc, phy_proc_mtx, waiting, proc_event, phy_frame_buf,
                   phy_frame_pos, phy_frame_filled, pack_class, calls,
                   added, reception, overtaken>>

\* One turn of the loop over the rows of the packet.
SendFrame(t) ==
    /\ pc[t] = "tx"
    /\ fi < phy_frame_pos
    /\ air' = Append(air, phy_frame_buf[fi])
    /\ fi' = fi + 1
    /\ UNCHANGED <<pc, phy_proc_mtx, waiting, proc_event, phy_frame_buf,
                   phy_frame_pos, phy_frame_filled, pack_class, calls,
                   added, reception, overtaken>>

\* wait_packet_sent has returned.
SendDone(t) ==
    /\ pc[t] = "tx"
    /\ fi = phy_frame_pos
    /\ pc' = [pc EXCEPT ![t] = "in"]
    /\ proc_event' = "START"
    /\ fi' = 0
    /\ added' = <<>>
    /\ overtaken' = FALSE
    /\ UNCHANGED <<phy_proc_mtx, waiting, phy_frame_buf, phy_frame_pos,
                   phy_frame_filled, pack_class, calls, air, reception>>

----------------------------------------------------------------------------
(* phy_receive_packet and phy_get_frame *)

\* proc_event = PROC_START makes proc_event_handler(PROC_LISTEN) reset always.
Listen(t) ==
    /\ Call(t)
    /\ pc' = [pc EXCEPT ![t] = "rx"]
    /\ proc_event' = "LISTEN"
    /\ phy_frame_pos' = 0
    /\ phy_frame_filled' = 0
    /\ fi' = 0
    /\ added' = <<>> /\ ReceptionOver
    /\ overtaken' = FALSE
    /\ UNCHANGED <<phy_proc_mtx, waiting, phy_frame_buf, pack_class, air>>

\* Mutation: the iterator is taken for the count.
MutListenReturns(t, i, how) ==
    /\ pc' = [pc EXCEPT ![t] = "in"]
    /\ phy_frame_filled' = i
    /\ phy_frame_pos' = 0
    /\ fi' = 0
    /\ ended' = how

\* phy_receive_foreground and _background end with the iterator at i: a byte
\* counts the rows declared filled.
ListenReturns(t, i, how) ==
    /\ pc' = [pc EXCEPT ![t] = "in"]
    /\ phy_frame_filled' = (i + 1) % 256
    /\ phy_frame_pos' = 0
    /\ fi' = 0
    /\ ended' = how

\* PHY_REC_TIMEOUT: no message came.
ListenTimeout(t) ==
    /\ pc[t] = "rx"
    /\ fi = 0
    /\ pc' = [pc EXCEPT ![t] = "in"]
    /\ UNCHANGED <<phy_proc_mtx, waiting, proc_event, phy_frame_buf,
                   phy_frame_pos, phy_frame_filled, pack_class, fi, calls,
                   history>>

\* Mutation: every frame is read into row 0.
MutFilled(f) == [phy_frame_buf EXCEPT ![0] =
                [by |-> Radio, frame |-> f,
                 class |-> pack_class, white |-> FALSE]]

\* Row fi as the loop leaves it when it has read (some of) the bytes of f.
Filled(f) == [phy_frame_buf EXCEPT ![fi] =
                [by |-> Radio, frame |-> f,
                 class |-> pack_class, white |-> FALSE]]

\* A whole frame is read.  In a foreground packet fg_frame_cont asks for more,
\* and the loop also ends when the last row has been used, with fi = NFrames.
ReadFrame(t, f, cont) ==
    /\ pc[t] = "rx"
    /\ pack_class = "BACKGROUND" => ~cont
    /\ phy_frame_buf' = Filled(f)
    /\ heard' = Append(heard, f)
    /\ IF cont /\ fi + 1 < NFrames
         THEN /\ fi' = fi + 1
              /\ UNCHANGED <<pc, phy_frame_filled, phy_frame_pos, ended>>
         ELSE IF cont THEN ListenReturns(t, NFrames, "over")
                      ELSE ListenReturns(t, fi, "whole")
    /\ UNCHANGED <<phy_proc_mtx, waiting, proc_event, pack_class, calls,
                   added, air, got, reclassed, overtaken>>

\* PHY_BYTE_TIMEOUT or PHY_BAD_SIZE in row fi, of which no byte may have come,
\* or only bytes that equal those of the frame that lay there.
ReadBroken(t) ==
    /\ pc[t] = "rx"
    /\ phy_frame_buf' \in {Filled(Garbled), phy_frame_buf}
    /\ ListenReturns(t, fi, "broken")
    /\ UNCHANGED <<phy_proc_mtx, waiting, proc_event, pack_class, calls,
                   added, air, heard, got, reclassed, overtaken>>

\* The caller asks for a frame, be it after a reception that failed.
Fetch(t) ==
    /\ Call(t)
    /\ phy_frame_pos < phy_frame_filled                 \* PHY_NO_MORE_FRAMES

\* The CRC of row phy_frame_pos matches, read with the current class.
Intact ==
    /\ phy_frame_pos < NFrames
    /\ LET row == phy_frame_buf[phy_frame_pos]
       IN  /\ row.frame # Garbled
           /\ ~row.white
           /\ row.class = pack_class

\* Mutation: the row is left in place.
MutGetFrame(t) ==
    /\ Fetch(t)
    /\ Intact
    /\ got' = Append(got, phy_frame_buf[phy_frame_pos].frame)
    /\ UNCHANGED <<pc, phy_proc_mtx, waiting, proc_event, phy_frame_buf,
                   phy_frame_pos, phy_frame_filled, pack_class, fi, added, air,
                   heard, ended, reclassed, overtaken>>

GetFrame(t) ==
    /\ Fetch(t)
    /\ Intact
    /\ got' = Append(got, phy_frame_buf[phy_frame_pos].frame)
    /\ phy_frame_pos' = phy_frame_pos + 1
    /\ UNCHANGED <<pc, phy_proc_mtx, waiting, proc_event, phy_frame_buf,
                   phy_frame_filled, pack_class, fi, added, air, heard,
                   ended, reclassed, overtaken>>

\* PHY_CRC_ERROR: the row is skipped.  Beyond the buffer the bytes are whatever
\* lies there, taken never to carry a matching CRC.
GetBadCrc(t) ==
    /\ Fetch(t)
    /\ ~Intact
    /\ phy_frame_pos' = phy_frame_pos + 1
    /\ UNCHANGED <<pc, phy_proc_mtx, waiting, proc_event, phy_frame_buf,
                   phy_frame_filled, pack_class, fi, history>>

\* PHY_INSUFFICIENT_SPACE: the row stays, whatever its CRC.
GetNoSpace(t) ==
    /\ Fetch(t)
    /\ UNCHANGED <<pc, phy_proc_mtx, waiting, proc_event, phy_frame_buf,
                   phy_frame_pos, phy_frame_filled, pack_class, fi, history>>

----------------------------------------------------------------------------
\* What a thread does once it has decided to start a procedure.
InProcedure(t) ==
    \/ StartLock(t) \/ StartReset(t) \/ Finish(t) \/ Config(t)
    \/ \E f \in Frames : AddFrame(t, f)
    \/ AddRefused(t) \/ SendBusy(t)
    \/ SendStart(t) \/ SendFrame(t) \/ SendDone(t)
    \/ Listen(t) \/ ListenTimeout(t) \/ ReadBroken(t)
    \/ \E f \in Frames \cup {Garbled}, cont \in BOOLEAN : ReadFrame(t, f, cont)
    \/ GetFrame(t) \/ GetBadCrc(t) \/ GetNoSpace(t)

Next == \E t \in Threads : StartWrite(t) \/ InProcedure(t)

Spec == Init /\ [][Next]_vars

\* Every wait inside a procedure is bounded by a timeout or by the transmitter
\* running dry, and callers finish: a thread that can move on does.
FairSpec == Spec /\ \A t \in Threads : WF_vars(InProcedure(t))

----------------------------------------------------------------------------
(* Properties *)

\* Every variable keeps its type; in particular the indices of the frame
\* buffer never exceed NFrames + 1, one past the overrun of a full packet.
TypeOK ==
    /\ pc \in [Threads -> {"out", "locking", "blocked", "entering",
                           "in", "tx", "rx"}]
    /\ phy_proc_mtx \in Threads \cup {NoThread}
    /\ waiting \in Seq(Threads)
    /\ proc_event \in Events
    /\ phy_frame_buf \in [0 .. NFrames - 1 -> Slot]
    /\ phy_frame_pos \in 0 .. NFrames + 1
    /\ phy_frame_filled \in 0 .. NFrames + 1
    /\ pack_class \in Classes
    /\ fi \in 0 .. NFrames
    /\ calls \in 0 .. MaxCalls
    /\ added \in Seq(Frames) /\ got \in Seq(Frames)
    /\ heard \in Seq(Frames \cup {Garbled})
    /\ air \in Seq(Slot)
    /\ ended \in {"none", "whole", "over", "broken"}
    /\ reclassed \in BOOLEAN
    /\ overtaken \in BOOLEAN

\* phy_proc_start (phy.c:292) gives the buffer to one thread at a time, and
\* chMtxUnlock passes it on without losing a waiter: whoever is past the lock
\* is its owner, and the queue holds exactly the threads blocked on it.
Holding == {"entering", "in", "tx", "rx"}
ProcedureExclusive ==
    /\ \A t \in Threads : pc[t] \in Holding <=> phy_proc_mtx = t
    /\ \A t \in Threads : pc[t] = "blocked" <=>
            \E i \in 1 .. Len(waiting) : waiting[i] = t
    /\ \A i, j \in 1 .. Len(waiting) : waiting[i] = waiting[j] => i = j
    /\ phy_proc_mtx = NoThread => waiting = <<>>

\* Whatever other threads do to proc_event, the rows that phy_send_packet will
\* take (phy.c:417) are the last frames its own procedure added, in order, and
\* there is at least one: no row of another procedure or of a reception.
BufferIsOwn ==
    \A t \in Threads : pc[t] \in {"in", "tx"} /\ added # <<>> =>
        /\ phy_frame_pos \in 1 .. Len(added)
        /\ \A i \in 0 .. phy_frame_pos - 1 :
              /\ phy_frame_buf[i].by = t
              /\ phy_frame_buf[i].frame =
                    added[Len(added) - phy_frame_pos + i + 1]

\* What has gone on the air of the current packet is what the sender added, in
\* the order it was added, each frame once.
PacketIsOwn ==
    \A t \in Threads : pc[t] = "tx" =>
        /\ Len(air) = fi
        /\ \A i \in 1 .. Len(air) :
              /\ air[i].by = t
              /\ air[i].frame = added[Len(added) - phy_frame_pos + i]

\* The receiver removes the whitening once.  Whatever class each row was added
\* under, and however often the channel was refused or the class changed since,
\* every row of a foreground packet goes on the air whitened once (phy.c:366),
\* and of a background packet the first one alone (phy.c:382).
AirWhitened ==
    \A t \in Threads : pc[t] = "tx" =>
        \A i \in 1 .. Len(air) :
            air[i].white <=> pack_class = "FOREGROUND" \/ i = 1

\* "send all frames in buffer in one packet" (phy.c:391): a packet carries
\* every frame its procedure added since the last packet.
NoFrameLost ==
    \A t \in Threads : pc[t] = "tx" => phy_frame_pos = Len(added)

\* The only way to lose an added frame is another thread's phy_proc_start.
LostOnlyWhenOvertaken ==
    \A t \in Threads : pc[t] \in {"in", "tx"} /\ ~overtaken /\ added # <<>>
        => phy_frame_pos = Len(added)

\* What phy_receive_packet leaves in phy_frame_filled (phy.c:135, 184): the
\* frames read whole, and one more if the reception broke off, or if the last
\* row announced another frame that there was no row for.  In that case what is
\* returned is not "the number of frames read" (phy.c:144), and as it is a byte,
\* 255 frames and one announced are counted as none.
ReceivedCount ==
    ended # "none" =>
        /\ phy_frame_filled =
                (Len(heard) + (IF ended = "whole" THEN 0 ELSE 1)) % 256
        /\ ended = "over" => Len(heard) = NFrames
        /\ ended = "broken" => Len(heard) < NFrames

\* phy_get_frame returns the intact frames of a packet in the order they were
\* received, skipping none and repeating none, CRC errors passed over: of the
\* rows passed, the one that is the k-th intact was returned as the k-th.  One
\* frame more may come, out of the row a reception broke off in.  (Frames read
\* under another class than they were received in fail their CRC.)
IntactUpTo(n) == {j \in 1 .. Len(heard) : j <= n /\ heard[j] # Garbled}
Leftover == ended = "broken" /\ phy_frame_pos > Len(heard)
DeliveredInOrder ==
    ended # "none" /\ ~reclassed =>
        /\ \/ Len(got) = Cardinality(IntactUpTo(phy_frame_pos))
           \/ Leftover /\ Len(got) = Cardinality(IntactUpTo(phy_frame_pos)) + 1
        /\ \A j \in IntactUpTo(phy_frame_pos) :
              got[Cardinality(IntactUpTo(j))] = heard[j]

\* "Retreives a frame from the received packet" (phy.c:457), whenever it is
\* called and whatever the reception returned: only the last frame fetched may
\* be an earlier packet's, if the reception broke off in its row.
DeliveredFromPacket ==
    \A i \in 1 .. Len(got) :
        \/ \E j \in 1 .. Len(heard) : got[i] = heard[j]
        \/ Leftover /\ i = Len(got)

\* PhyProc keeps the promise of PacketService: the thread past its reset holds
\* the transceiver, the frames pending are those of the rows to be sent, and
\* the packet is what went on the air, once it all has (phy.c:292-441).
Holder == IF phy_proc_mtx # NoThread /\ pc[phy_proc_mtx] # "entering"
          THEN phy_proc_mtx ELSE NoThread
Sending == \E t \in Threads : pc[t] = "tx"
Pending == IF Holder # NoThread /\ added # <<>>
           THEN [i \in 1 .. phy_frame_pos |-> phy_frame_buf[i - 1].frame]
           ELSE <<>>
Packet == IF Sending \/ air = <<>>
          THEN [by |-> NoThread, frames |-> <<>>]
          ELSE [by     |-> air[1].by,
                frames |-> [i \in 1 .. Len(air) |-> air[i].frame]]
Service == INSTANCE PacketService WITH
    MaxFrames <- NFrames,
    holder <- Holder, sending <- Sending, pending <- Pending, packet <- Packet
ImplementsService == Service!Spec

\* A thread that starts a procedure gets to run it, however many procedures
\* the others start.
StartEnters ==
    \A t \in Threads : pc[t] = "locking" ~> pc[t] = "in"

=============================================================================
