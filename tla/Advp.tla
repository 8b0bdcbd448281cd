-------------------------------- MODULE Advp --------------------------------
(***************************************************************************)
(* The advertising protocol of bg_frame.c: one node advertises a packet    *)
(* with background frames that tell how long it will be until it is sent   *)
(* (advp_send), another scans for such a frame, sleeps that long and then  *)
(* listens for the packet (advp_scan).                                     *)
(*                                                                         *)
(* clock counts milliseconds and does not wrap; the sender reads it as a   *)
(* systime_t (Now), and the scanner only takes differences of it.  What    *)
(* takes time is given a moment at which it ends when it starts.  The      *)
(* buffer of the sender is that of phy.c: a frame is added to the frames   *)
(* that no packet has sent.                                                *)
(* A background receiver takes the first frame of a packet (phy.c:170-189).*)
(***************************************************************************)
EXTENDS TimeUnits, Sequences

CONSTANTS
    SAFE_SLEEP_WINDOW,      \* data.h:190
    RX_TIME,                \* bg_frame.c:26
    MIN_ADVP_TIME,          \* bg_frame.c:64
    N_FRAMES,               \* conf.h:21
    Tfsd,                   \* of data_conf
    Times,                  \* the advertising times asked for
    Bases,                  \* systime_t of the sender when the model starts
    MaxCsma,                \* the longest data_send_packet takes to assess
    MaxAir,                 \* the longest transmission of a packet
    MaxConf,                \* the longest data_proc_config
    MaxClock                \* bound of the instance

ASSUME TimesAssumption ==
    /\ {SAFE_SLEEP_WINDOW, RX_TIME, Tfsd, MaxCsma, MaxAir, MaxConf,
        MaxClock} \subseteq Nat
    /\ Bases \subseteq Nat
    /\ N_FRAMES \in Nat \ {0}
    /\ Times \cup {MIN_ADVP_TIME} \subseteq 0 .. TiModulus - 1
    /\ TiModulus * 977 <= Modulus           \* 2^16 and 2^32
\* What the windows of the protocol are there for: a background frame takes
\* less than SAFE_SLEEP_WINDOW, the receiver is on within RX_TIME, and the
\* foreground listening time covers the windows and the last background frame.
ASSUME WindowsAssumption ==
    /\ 0 < MaxAir /\ MaxAir < SAFE_SLEEP_WINDOW
    /\ SAFE_SLEEP_WINDOW + RX_TIME + MaxAir + MaxConf <= Tfsd

VARIABLES
    clock, base,
    s_pc, s_until,  \* where the sender is, and when what it does ends
    step, end,      \* of advp_send
    rows,           \* the frames in its buffer; the moment each was added
    fresh,          \* 1 when the next frame added starts a packet
    called, due,    \* history: the moment of `now' and of `end', unwrapped
    refused,        \* history: 1 when the first packet was not sent
    r_pc, r_until,  \* where the scanner is, and when what it does ends
    heard           \* the frame it has heard, and when

call == <<base, called, due>>
sender == <<s_pc, s_until, step, end, call, rows, fresh, refused>>
scanner == <<r_pc, r_until, heard>>
vars == <<clock, sender, scanner>>

Nothing == [time |-> 0, added |-> 0, at |-> 0]

Now == (clock + base) % Modulus

Init ==
    /\ clock = 0 /\ base \in Bases
    /\ called = 0 /\ due = 0
    /\ s_pc = "idle" /\ s_until = 0
    /\ step = 0 /\ end = 0
    /\ rows = <<>> /\ fresh = 1 /\ refused = 0
    /\ r_pc = "idle" /\ r_until = 0
    /\ heard = Nothing

Waiting(pc) == pc \in {"csma", "bgsend", "config", "fgsend", "sleep", "turn", "listen"}

\* Nothing that is due is passed over.
Tick ==
    /\ clock < MaxClock
    /\ Waiting(s_pc) => clock < s_until
    /\ Waiting(r_pc) => clock < r_until
    /\ s_pc # "loop"
    /\ clock' = clock + 1
    /\ UNCHANGED <<sender, scanner>>

----------------------------------------------------------------------------
(* advp_send *)

Advertise(time) ==
    /\ s_pc = "idle"
    /\ s_pc' = "loop"
    /\ LET span == Systime(IF time < MIN_ADVP_TIME THEN MIN_ADVP_TIME ELSE time)
       IN  end' = (Now + span) % Modulus /\ due' = clock + span
    /\ called' = clock
    /\ step' = 0 /\ fresh' = 1 /\ refused' = 0
    /\ UNCHANGED <<clock, base, s_until, rows, scanner>>

\* Mutation: it does so without a look at the size of the buffer.
MutAddFull(row) == rows' = Append(rows, row) /\ fresh' = 0

\* Mutation: phy_add_frame keeps the frames of the packet sent before.
MutAdd(row) ==
    /\ rows' = IF Len(rows) < N_FRAMES THEN Append(rows, row) ELSE rows
    /\ fresh' = 0

\* data_add_frame; a full buffer is an error that advp_send does not look at.
Add(row) ==
    /\ rows' = IF fresh = 1 THEN <<row>>
               ELSE IF Len(rows) < N_FRAMES THEN Append(rows, row) ELSE rows
    /\ fresh' = 0

\* Mutation: the loop stops before the time is up.
MutMore == Now + MaxAir < end

\* The time is not up, as the loop condition reads the wrapped times.
More == Now < end

\* A background frame.  The first is sent with data_send_packet, which waits
\* its CSMA delays, the others with data_send_packet_protected.
BgFrame ==
    /\ s_pc = "loop" /\ More
    /\ Add([kind |-> "bg", time |-> Ti(end - Now), added |-> clock])
    /\ IF step = 0
         THEN s_pc' = "csma" /\ \E d \in 0 .. MaxCsma : s_until' = clock + d
         ELSE s_pc' = "bgsend" /\ \E d \in 1 .. MaxAir : s_until' = clock + d
    /\ step' = 1
    /\ UNCHANGED <<clock, end, call, refused, scanner>>

CsmaSends ==
    /\ s_pc = "csma" /\ clock = s_until
    /\ s_pc' = "bgsend"
    /\ \E d \in 1 .. MaxAir : s_until' = clock + d
    /\ UNCHANGED <<clock, step, end, call, rows, fresh, refused, scanner>>

\* PHY_CHANNEL_BUSY or DATA_SEND_TIMEOUT: the error is dropped, and the frame
\* stays in the buffer.
CsmaRefuses ==
    /\ s_pc = "csma" /\ clock = s_until
    /\ s_pc' = "loop"
    /\ refused' = 1
    /\ UNCHANGED <<clock, s_until, step, end, call, rows, fresh, scanner>>

\* The packet is on the air; the scanner may hear its first frame.
BgSent ==
    /\ s_pc = "bgsend" /\ clock = s_until
    /\ s_pc' = "loop"
    /\ fresh' = 1
    /\ \/ /\ r_pc = "scan"
          /\ heard' = [time |-> rows[1].time, added |-> rows[1].added, at |-> clock]
          /\ r_pc' = "config"
          /\ \E d \in 0 .. MaxConf : r_until' = clock + d
       \/ UNCHANGED scanner
    /\ UNCHANGED <<clock, s_until, step, end, call, rows, refused>>

\* The time is over: data_proc_config for the foreground.
ToForeground ==
    /\ s_pc = "loop" /\ ~More
    /\ s_pc' = "config"
    /\ \E d \in 0 .. MaxConf : s_until' = clock + d
    /\ UNCHANGED <<clock, step, end, call, rows, fresh, refused, scanner>>

\* The packet starts.  A scanner that listens will receive it.
FgSend ==
    /\ s_pc = "config" /\ clock = s_until
    /\ Add([kind |-> "fg", time |-> 0, added |-> clock])
    /\ s_pc' = "fgsend"
    /\ \E d \in 1 .. MaxAir : s_until' = clock + d
    /\ r_pc' = IF r_pc = "listen" THEN "receive" ELSE r_pc
    /\ UNCHANGED <<clock, step, end, call, refused, r_until, heard>>

FgSent ==
    /\ s_pc = "fgsend" /\ clock = s_until
    /\ s_pc' = "done"
    /\ fresh' = 1
    /\ UNCHANGED <<clock, s_until, step, end, call, rows, refused, scanner>>

----------------------------------------------------------------------------
(* advp_scan *)

Scan ==
    /\ r_pc = "idle"
    /\ r_pc' = "scan"
    /\ UNCHANGED <<clock, sender, r_until, heard>>

\* No background frame, or a bad one: advp_scan returns.
ScanFails ==
    /\ r_pc = "scan"
    /\ r_pc' = "idle"
    /\ UNCHANGED <<clock, sender, r_until, heard>>

\* Mutation: the time the configuration has taken is not taken off.
MutSleepTime ==
    (Systime(heard.time) - SAFE_SLEEP_WINDOW - RX_TIME + (clock - heard.at)) % Modulus

SleepTime ==
    (Systime(heard.time) - (clock - heard.at) - SAFE_SLEEP_WINDOW - RX_TIME) % Modulus

Sleep ==
    /\ r_pc = "config" /\ clock = r_until
    /\ r_pc' = "sleep"
    /\ r_until' = clock + Ticks(SleepTime)
    /\ UNCHANGED <<clock, sender, heard>>

\* data_listen turns the receiver on.
Wake ==
    /\ r_pc = "sleep" /\ clock = r_until
    /\ r_pc' = "turn"
    /\ \E d \in 0 .. RX_TIME : r_until' = clock + d
    /\ UNCHANGED <<clock, sender, heard>>

Listen ==
    /\ r_pc = "turn" /\ clock = r_until
    /\ r_pc' = "listen"
    /\ r_until' = clock + Tfsd
    /\ UNCHANGED <<clock, sender, heard>>

ListenTimeout ==
    /\ r_pc = "listen" /\ clock = r_until
    /\ r_pc' = "missed"
    /\ UNCHANGED <<clock, sender, r_until, heard>>

----------------------------------------------------------------------------
Next ==
    \/ Tick
    \/ \E time \in Times : Advertise(time)
    \/ BgFrame \/ CsmaSends \/ CsmaRefuses \/ BgSent
    \/ ToForeground \/ FgSend \/ FgSent
    \/ Scan \/ ScanFails \/ Sleep \/ Wake \/ Listen \/ ListenTimeout

Spec == Init /\ [][Next]_vars

----------------------------------------------------------------------------
(* Properties *)

Row == [kind : {"bg", "fg"}, time : Nat, added : Nat]

\* Every variable keeps its type: no frame is written beyond the N_FRAMES rows of
\* phy_frame_buf, whose size advp_send does not look at (bg_frame.c:94, phy.c:336).
TypeOK ==
    /\ clock \in 0 .. MaxClock
    /\ base \in Bases
    /\ s_pc \in {"idle", "loop", "csma", "bgsend", "config", "fgsend", "done"}
    /\ r_pc \in {"idle", "scan", "config", "sleep", "turn", "listen", "receive", "missed"}
    /\ {s_until, end, called, due, r_until} \subseteq Nat
    /\ {step, fresh, refused} \subseteq {0, 1}
    /\ rows \in Seq(Row) /\ Len(rows) <= N_FRAMES
    /\ heard \in [time : Nat, added : Nat, at : Nat]

Turn(moment) == (moment + base) \div Modulus

\* The clock does not wrap from the call until the last frame has been sent.
WithinTurn == Turn(called) = Turn(due + MaxCsma + MaxAir)

\* Against the moment its advertisements announce, `end' of advp_send
\* (bg_frame.c:87-104), the foreground packet goes out no later than the last
\* frame and the configuration take, and no earlier, unless a counter wraps: if
\* it does before the end, the packet goes out at once and unannounced; if it
\* does under the last frame, nothing bounds how late the packet is.
StartsWhenAnnounced == [][
    FgSend =>
        /\ WithinTurn => clock < due + MaxCsma + MaxAir + MaxConf
        /\ IF Turn(called) = Turn(due)
             THEN due <= clock
             ELSE step = 0 /\ clock <= called + MaxConf]_vars

\* Advertisements that are heard as soon as they are made, with enough time for
\* the scanner's own preparations.
Prompt ==
    /\ r_pc \in {"config", "sleep", "turn", "listen", "receive", "missed"}
    /\ heard.at - heard.added <= MaxAir
    /\ Systime(heard.time) > MaxConf + SAFE_SLEEP_WINDOW + RX_TIME

\* A scanner that has heard one is listening when the packet starts, however
\* long the sending, the configurations and the receiver take, unless the
\* sender's clock wraps (bg_frame.c:43-57 against bg_frame.c:86-116).
Rendezvous ==
    Prompt /\ WithinTurn /\ s_pc \in {"fgsend", "done"} => r_pc = "receive"

\* phy.c:188 "only one frame per packet": a background frame shares its packet
\* only with the first one, when that was refused.
OneFrame == s_pc \in {"bgsend", "fgsend"} =>
    Len(rows) = 1 \/ (refused = 1 /\ Len(rows) = 2 /\ rows[1].kind = "bg")

=============================================================================
