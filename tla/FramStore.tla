----------------------------- MODULE FramStore -----------------------------
(***************************************************************************)
(* What the callers of fram_read, fram_write and fram_sleep can count on:  *)
(* a memory whose calls take effect once, at one moment between their      *)
(* start and their return, except that a write may be lost if another      *)
(* thread's write or sleep took effect while it was being made.            *)
(***************************************************************************)
CONSTANTS Threads, Addresses, Values, Nothing

VARIABLES
    mem,        \* the contents
    call,       \* the call each thread is making, and whether it took effect
    exposed     \* the writers another call has got in the way of

vars == <<mem, call, exposed>>

New(kind, addr, data) ==
    [kind |-> kind, addr |-> addr, data |-> data, stage |-> "pending"]

Idle == New("none", Nothing, Nothing)

Init ==
    /\ mem \in [Addresses -> Values]
    /\ call = [t \in Threads |-> Idle]
    /\ exposed = {}

Begin(t) ==
    /\ call[t] = Idle
    /\ \/ \E a \in Addresses, v \in Values :
            /\ call' = [call EXCEPT ![t] = New("write", a, v)]
            /\ exposed' = exposed \ {t}
       \/ \E a \in Addresses :
            /\ call' = [call EXCEPT ![t] = New("read", a, Nothing)]
            /\ UNCHANGED exposed
       \/ /\ call' = [call EXCEPT ![t] = New("sleep", Nothing, Nothing)]
          /\ UNCHANGED exposed
    /\ UNCHANGED mem

\* A call that is not a read may get in the way of any write under way.
Expose(t) == \E S \in SUBSET {u \in Threads \ {t} :
                                call[u].kind = "write" /\ call[u].stage = "pending"} :
    exposed' = exposed \cup S

Pending(t, kind) == call[t].kind = kind /\ call[t].stage = "pending"

EffectWrite(t) ==
    /\ Pending(t, "write")
    /\ \/ mem' = [mem EXCEPT ![call[t].addr] = call[t].data]
       \/ t \in exposed /\ UNCHANGED mem
    /\ call' = [call EXCEPT ![t].stage = "done"]
    /\ Expose(t)

EffectRead(t) ==
    /\ Pending(t, "read")
    /\ call' = [call EXCEPT ![t] = [kind |-> "read", addr |-> @.addr,
                                    data |-> mem[@.addr], stage |-> "done"]]
    /\ UNCHANGED <<mem, exposed>>

EffectSleep(t) ==
    /\ Pending(t, "sleep")
    /\ call' = [call EXCEPT ![t].stage = "done"]
    /\ Expose(t)
    /\ UNCHANGED mem

End(t) ==
    /\ call[t].stage = "done"
    /\ call' = [call EXCEPT ![t] = Idle]
    /\ UNCHANGED <<mem, exposed>>

Next == \E t \in Threads :
    Begin(t) \/ EffectWrite(t) \/ EffectRead(t) \/ EffectSleep(t) \/ End(t)

Spec == Init /\ [][Next]_vars

=============================================================================
