--------------------------- MODULE PacketService ---------------------------
(***************************************************************************)
(* What the procedures of the physical layer promise a sender: while a     *)
(* thread holds the transceiver it collects frames, and a packet carries   *)
(* exactly the frames collected since it was started, all of one thread.   *)
(* The promise has a hole, Restart: a frame may begin a new collection     *)
(* although the previous one was not sent.                                 *)
(***************************************************************************)
EXTENDS Naturals, Sequences

CONSTANTS Threads, NoThread, Frames, MaxFrames

VARIABLES
    holder,     \* the thread running a procedure, or NoThread
    pending,    \* the frames collected for the next packet
    sending,    \* that packet is being transmitted
    packet      \* the packet transmitted last, empty while one is sent

vars == <<holder, pending, sending, packet>>

Init ==
    /\ holder = NoThread
    /\ pending = <<>>
    /\ sending = FALSE
    /\ packet = [by |-> NoThread, frames |-> <<>>]

Acquire(t) ==
    /\ holder = NoThread
    /\ holder' = t
    /\ pending' = <<>>
    /\ UNCHANGED <<sending, packet>>

Release ==
    /\ holder # NoThread
    /\ ~sending
    /\ holder' = NoThread
    /\ pending' = <<>>
    /\ UNCHANGED <<sending, packet>>

Collect(f) ==
    /\ holder # NoThread
    /\ ~sending
    /\ Len(pending) < MaxFrames
    /\ pending' = Append(pending, f)
    /\ UNCHANGED <<holder, sending, packet>>

Restart(f) ==
    /\ holder # NoThread
    /\ ~sending
    /\ pending' = <<f>>
    /\ UNCHANGED <<holder, sending, packet>>

\* The procedure turns to listening.
Discard ==
    /\ holder # NoThread
    /\ ~sending
    /\ pending' = <<>>
    /\ UNCHANGED <<holder, sending, packet>>

Transmit ==
    /\ ~sending
    /\ pending # <<>>
    /\ sending' = TRUE
    /\ packet' = [by |-> NoThread, frames |-> <<>>]
    /\ UNCHANGED <<holder, pending>>

Complete ==
    /\ sending
    /\ sending' = FALSE
    /\ packet' = [by |-> holder, frames |-> pending]
    /\ pending' = <<>>
    /\ UNCHANGED holder

Next ==
    \/ \E t \in Threads : Acquire(t)
    \/ \E f \in Frames : Collect(f) \/ Restart(f)
    \/ Release \/ Discard \/ Transmit \/ Complete

Spec == Init /\ [][Next]_vars

=============================================================================
