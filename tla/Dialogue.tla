------------------------------ MODULE Dialogue ------------------------------
(***************************************************************************)
(* Nodes that answer each other, as data_test/main.c and data.h use the    *)
(* data link layer: a packet is sent, its sender leaves the procedure      *)
(* until the answer is due and listens again (data_dialogue); a node that  *)
(* has heard a packet waits until its answer is due (data_answer_time).    *)
(***************************************************************************)
EXTENDS DataSend

CONSTANTS
    Starter,        \* the node in STARTER_MODE
    Tc, Tl, Tfsd,   \* of the calls and of data_conf
    Treceive,       \* how long a node in REPLY_MODE listens
    Begins,         \* when the nodes begin, as functions
    SAFE_SLEEP_WINDOW,
    Works,          \* ticks a caller takes before it calls the next function
    Holds,          \* ticks phy_proc_start and data_proc_config take
    LAG,            \* ticks from the end of a packet to the return of data_listen
    MaxPackets      \* bound of the instance

ASSUME DialogueAssumption ==
    /\ Starter \in Nodes
    /\ {Tc, Tl, Tfsd, Treceive, SAFE_SLEEP_WINDOW, LAG, MaxPackets} \subseteq Nat
    /\ Works \subseteq Nat /\ Holds \subseteq Nat /\ Begins \subseteq [Nodes -> Nat]
    /\ SAFE_SLEEP_WINDOW <= Systime(Tc) /\ Tc + Tl < TiModulus
    /\ 1000 * Systime(Tc + Tl) < Modulus
\* The times of the protocol cover what answers take.
ASSUME WindowAssumption ==
    /\ SAFE_SLEEP_WINDOW + LAG + 2 * MaxLate + TURN < Systime(Tfsd)
    /\ SAFE_SLEEP_WINDOW + RX_ON + 2 * MaxLate <= Systime(Tc)
    /\ 4 * MaxLate < AIR

VARIABLES
    time,       \* the moment a node takes after it has sent or heard a packet
    sent,       \* history: when its last packet was over, and the one it is on began
    began,
    heard,      \* history: whose packet it has heard last, when that was over, and
                \* when the function that received it returned
    opened,     \* history: when it began to listen for the answer; 0 before
    called,     \* history: whether it called data_answer_time before the answer was due
    guarded,    \* history: the nodes that answer with data_send_packet
    packets

history == <<sent, began, heard, opened, called, guarded, packets>>
vars == <<clock, conf, pc, until, sending, time, history>>

NoPacket == [from |-> Starter, at |-> 0, back |-> 0]

Init ==
    /\ clock = 0
    /\ conf \in [tca : Tcas, csma : {0, 1}, base : Bases]
    /\ pc = [n \in Nodes |-> "idle"]
    /\ until \in Begins
    /\ start = [n \in Nodes |-> 0]
    /\ guard = [n \in Nodes |-> NoGuard]
    \* The starter has sent before, the others have been configured (main.c:61).
    /\ drawn = [n \in Nodes |-> IF n = Starter THEN 1 ELSE 0]
    /\ hung = {} /\ putoff = {}
    /\ time = [n \in Nodes |-> 0] /\ sent = [n \in Nodes |-> 0]
    /\ began = [n \in Nodes |-> 0] /\ opened = [n \in Nodes |-> 0]
    /\ heard = [n \in Nodes |-> NoPacket] /\ called = [n \in Nodes |-> "late"] /\ guarded = {}
    /\ packets = 0

Resting == {"done", "timeout", "busy"}

\* Time goes on to the next moment at which a node does something.
Elapse ==
    LET moments == {until[n] : n \in {m \in Nodes : pc[m] \notin Resting}}
    IN  /\ moments # {}
        /\ clock' \in moments /\ clock < clock'
        /\ \A t \in moments : clock' <= t
        /\ UNCHANGED <<conf, pc, until, sending, time, history>>

\* data_proc_config: rand_init(44)
Config(n) == drawn' = [drawn EXCEPT ![n] = 0]

\* A turn of the loop begins.  The starter configures; the others receive with
\* what was configured before the loop, and sx_mode(RX) sleeps first.
Start(n) ==
    /\ Due(n, "idle")
    /\ IF n = Starter THEN Goes(n, "configured") /\ Config(n) /\ UNCHANGED hung
                      ELSE Sleeps(n, "first", RX_ON) /\ UNCHANGED drawn
    /\ UNCHANGED <<clock, conf, start, guard, putoff, time, history>>

Request(n) ==
    /\ Due(n, "configured")
    /\ SendPacket(n)
    /\ UNCHANGED <<clock, conf, time, history>>

----------------------------------------------------------------------------
(* The air *)

\* The receiver is on, while sx_mode(RX) sleeps and then.
Tuned == {"first", "again", "listen"}

\* When the function that receives the packet returns: not before the sleep is
\* over.
BackAt(m) ==
    LET over == clock + AIR + LAG
    IN  IF pc[m] # "listen" /\ over < until[m] THEN until[m] ELSE over

\* A packet begins: who listens hears it, who hears another loses both.
AirStart(n) ==
    /\ Due(n, "turn")
    /\ pc' = [m \in Nodes |->
                IF m = n THEN "air" ELSE IF pc[m] \in Tuned THEN "hearing"
                ELSE IF pc[m] = "hearing" THEN "garbled" ELSE pc[m]]
    /\ until' = [m \in Nodes |->
                   IF m = n THEN clock + AIR
                   ELSE IF pc[m] \in Tuned THEN BackAt(m) ELSE until[m]]
    /\ heard' = [m \in Nodes |->
                   IF m # n /\ pc[m] \in Tuned
                     THEN [from |-> n, at |-> clock + AIR, back |-> BackAt(m)] ELSE heard[m]]
    /\ began' = [began EXCEPT ![n] = clock]
    /\ packets' = packets + 1
    /\ UNCHANGED <<clock, conf, sending, time, sent, opened, called, guarded>>

\* The sleep of sx_mode(RX) is over: the time to listen begins.
Ready(n) ==
    /\ \/ Due(n, "first") /\ GoesAt(n, "listen", clock + Systime(Treceive))
       \/ Due(n, "again") /\ GoesAt(n, "listen", clock + Systime(Tfsd))
    /\ UNCHANGED <<clock, conf, sending, time, history>>

\* The calls of phy_send_packet and of data_listen return, and the caller works.
Returned(n, where) ==
    /\ time' = [time EXCEPT ![n] = Now(n)]
    /\ IF packets < MaxPackets
         THEN \E work \in Works : GoesAt(n, where, clock + work)
         ELSE Goes(n, "done")
    /\ UNCHANGED <<clock, conf, sending, began, heard, called, guarded, packets>>

AirEnd(n) ==
    /\ Due(n, "air")
    /\ Returned(n, "sent")
    /\ sent' = [sent EXCEPT ![n] = clock]
    /\ opened' = [opened EXCEPT ![n] = 0]

Heard(n) ==
    /\ Due(n, "hearing")
    /\ Returned(n, "heard")
    /\ UNCHANGED <<sent, opened>>

\* DATA_LISTEN_ERROR, DATA_LISTEN_TIMEOUT
Unheard(n) ==
    /\ Due(n, "garbled") \/ Due(n, "listen")
    /\ Goes(n, "done")
    /\ UNCHANGED <<clock, conf, sending, time, history>>

----------------------------------------------------------------------------
(* data_dialogue *)

\* How long it leaves the procedure.
Away(n) == (time[n] + Systime(Tc) - Now(n) - SAFE_SLEEP_WINDOW) % Modulus

Leave(n) ==
    /\ Due(n, "sent")
    /\ IF (Now(n) - time[n]) % Modulus > (Systime(Tc) - SAFE_SLEEP_WINDOW) % Modulus
         THEN Goes(n, "done") /\ UNCHANGED hung
         ELSE Sleeps(n, "away", Away(n))
    /\ UNCHANGED <<clock, conf, start, guard, drawn, putoff, time, history>>

\* phy_proc_start and data_proc_config
Reenter(n) ==
    /\ Due(n, "away")
    /\ \E hold \in Holds : GoesAt(n, "back", clock + hold)
    /\ Config(n)
    /\ UNCHANGED <<clock, conf, start, guard, hung, putoff, time, history>>

Listen(n) ==
    /\ Due(n, "back")
    /\ IF (Now(n) - time[n]) % Modulus > Systime(Tc + Tl)
         THEN Goes(n, "done") /\ UNCHANGED <<hung, opened>>
         ELSE Sleeps(n, "again", RX_ON) /\ opened' = [opened EXCEPT ![n] = clock]
    /\ UNCHANGED <<clock, conf, start, guard, drawn, putoff, time, sent, began, heard,
                   called, guarded, packets>>

----------------------------------------------------------------------------
(* data_answer_time and the answer *)

\* Mutation: the time is counted from the call.
MutUntilDue(n) == Systime(Tc)

UntilDue(n) == (time[n] + Systime(Tc) - Now(n)) % Modulus

\* Mutation: an answer is never too late.
MutTooLate(n) == FALSE

\* The times are compared as they are, wrapped or not.
TooLate(n) == Now(n) > (time[n] + Systime(Tc + Tl)) % Modulus

AnswerTime(n) ==
    /\ Due(n, "heard")
    /\ IF TooLate(n)
         THEN Goes(n, "done") /\ UNCHANGED <<hung, called>>
       ELSE IF Now(n) > (time[n] + Systime(Tc)) % Modulus
         THEN Goes(n, "ready") /\ called' = [called EXCEPT ![n] = "late"] /\ UNCHANGED hung
       ELSE /\ Sleeps(n, "ready", UntilDue(n))
            /\ called' = [called EXCEPT ![n] = IF UntilDue(n) = 0 THEN "late" ELSE "punctual"]
    /\ UNCHANGED <<clock, conf, start, guard, drawn, putoff, time, sent, began, heard,
                   opened, guarded, packets>>

\* The test sends the answer at once; data.h:236-238 says data_send_packet.
Answer(n) ==
    /\ Due(n, "ready")
    /\ \/ SendProtected(n) /\ guarded' = guarded \ {n}
       \/ SendPacket(n) /\ guarded' = guarded \cup {n}
    /\ UNCHANGED <<clock, conf, time, sent, began, heard, opened, called, packets>>

----------------------------------------------------------------------------
Link(n) ==
    \/ Start(n) \/ Request(n) \/ AirStart(n) \/ Ready(n) \/ AirEnd(n) \/ Heard(n) \/ Unheard(n)
    \/ Leave(n) \/ Reenter(n) \/ Listen(n) \/ AnswerTime(n) \/ Answer(n)

Send(n) == Sending(n) /\ UNCHANGED <<time, history>>

Next == Elapse \/ \E n \in Nodes : Link(n) \/ Send(n)

Spec == Init /\ [][Next]_vars

----------------------------------------------------------------------------
(* Properties *)

Places ==
    Contending \cup Resting \cup
      {"idle", "configured", "turn", "air", "sent", "away", "back", "first", "again",
       "listen", "hearing", "garbled", "heard", "ready"}

\* Every variable keeps its type: a reading of the clock stays below its turn.
TypeOK ==
    /\ clock \in Nat
    /\ conf \in [tca : Tcas, csma : {0, 1}, base : Bases]
    /\ pc \in [Nodes -> Places]
    /\ {until, sent, began, opened} \subseteq [Nodes -> Nat]
    /\ {start, time} \subseteq [Nodes -> 0 .. Modulus - 1]
    /\ drawn \in [Nodes -> 0 .. Len(Draws)]
    /\ guard \in [Nodes -> [max : Nat, start : 0 .. Modulus - 1]]
    /\ hung \subseteq Nodes /\ putoff \subseteq Nodes /\ guarded \subseteq Nodes
    /\ heard \in [Nodes -> [from : Nodes, at : Nat, back : Nat]]
    /\ called \in [Nodes -> {"late", "punctual"}]
    /\ packets \in Nat

\* What phy_send_packet takes to turn the receiver on.
TurnOn(n) == IF pc[n] = "sense" THEN RX_ON + MaxLate ELSE 0

\* data_send_packet comes to phy_send_packet, or returns, within Tca, and that
\* begins to send, or returns, when the receiver has been turned on, which Tca does
\* not count (phy.c:399) -- unless it draws a delay of 0 or divides by 0 (data.c:64,
\* 77-78, 88): no difference of times wraps, and no round of the loop goes on for
\* longer than what is left.
ReturnsInTime ==
    \A n \in Nodes \ hung : pc[n] \in Contending =>
        Elapsed(n) + (until[n] - clock) <= conf.tca + MaxLate + TurnOn(n)

\* The clock has wrapped since the packet was received.
Wraps(n) == (heard[n].back + conf.base) \div Modulus # (clock + conf.base) \div Modulus

\* Nodes that have received the same packet, answer it with data_send_packet and
\* are put off by nobody, answer over each other, whoever is first: they draw the
\* same delay, because each configuration restarts the generator with the same
\* seed (data.c:12), and the asker and those who overhear are configured alike.
\* Not if the clock wraps, for then data_answer_time counts them as early or late.
AnswersCollide ==
    \A n, m \in guarded \ (putoff \cup hung) :
        /\ heard[n] = heard[m] /\ ~Wraps(n)
        /\ called[n] = "punctual" /\ called[m] = "punctual"
        /\ heard[n].at < began[n] /\ heard[m].at < began[m]
        => began[n] < began[m] + AIR

\* data_answer_time never returns DATA_ANSWER_READY before the answer is due, not
\* even when the clock wraps; and not later than Tl after, unless it is called in
\* the very tick the answer is due (data.c:174), or the clock wraps meanwhile
\* (data.c:170-172).
AnswerInWindow ==
    \A n \in Nodes : Due(n, "ready") =>
        /\ heard[n].back + Systime(Tc) <= clock
        /\ n \notin hung /\ ~Wraps(n) => clock <= heard[n].back + Systime(Tc + Tl) + MaxLate

\* A packet that is not the answer has ended the listening of a node.
Taken(n) == opened[n] < heard[n].at /\ heard[n].back <= clock

\* The step that begins an answer which was called for in time and is sent at once.
HeardInTime ==
    \A n \in Nodes : LET asker == heard[n].from IN
        /\ AirStart(n) /\ n \notin guarded /\ heard[n] # NoPacket
        /\ called[n] = "punctual" /\ ~Wraps(n)
        /\ opened[asker] > 0
        => pc[asker] \in {"again", "listen", "hearing", "garbled"} \/ Taken(asker)

\* An answer that was not late and is sent at once begins while its asker
\* listens, if that one is back (data.c:153) and no other packet has ended its
\* listening: data_dialogue and data_answer_time agree on when the answer is due.
AnswerHeard == [][HeardInTime]_vars

=============================================================================
