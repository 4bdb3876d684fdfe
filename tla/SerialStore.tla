---------------------------- MODULE SerialStore ----------------------------
(***************************************************************************)
(* What the command engine promises its callers: one store whose writes    *)
(* are applied one at a time and whole, snapshots that are states of that  *)
(* store, Ok only for a write that is applied, and a refusal only for a    *)
(* command that is not and will not be.  Queues, workers and the gate are  *)
(* no part of it.                                                          *)
(***************************************************************************)
EXTENDS Naturals, Sequences

CONSTANTS
    Command,     \* every command a caller may issue
    WriteCmd,    \* those that change the store
    Effect(_)    \* the changes a write leaves in the log

VARIABLES
    log,         \* the changes applied, in order
    saved,       \* the logs that were published as snapshots
    pending,     \* issued and not yet answered
    acked,       \* writes answered Ok
    refused      \* commands answered queue_full or worker_stopped

vars == <<log, saved, pending, acked, refused>>

Applied(m) == \E i \in DOMAIN log : log[i] = m

Init ==
    /\ log = <<>>
    /\ saved = {} /\ pending = {} /\ acked = {} /\ refused = {}

\* A new command is accepted, or refused at once.
Call(m) ==
    /\ m \notin pending \union acked \union refused
    /\ ~Applied(m)
    /\ \/ pending' = pending \union {m} /\ UNCHANGED refused
       \/ refused' = refused \union {m} /\ UNCHANGED pending
    /\ UNCHANGED <<log, saved, acked>>

\* A pending write takes effect, once and whole.
Apply(m) ==
    /\ m \in pending \intersect WriteCmd
    /\ ~Applied(m)
    /\ log' = log \o Effect(m)
    /\ UNCHANGED <<saved, pending, acked, refused>>

\* A snapshot is the store as it is at one instant.
Save ==
    /\ saved' = saved \union {log}
    /\ UNCHANGED <<log, pending, acked, refused>>

\* Ok to a write needs its effect; an error says nothing about it.
Answer(m) ==
    /\ m \in pending
    /\ pending' = pending \ {m}
    /\ \/ m \in WriteCmd /\ Applied(m) /\ acked' = acked \union {m}
       \/ UNCHANGED acked
    /\ UNCHANGED <<log, saved, refused>>

\* The worker stops: commands it never started are refused together.
Abandon ==
    \E S \in SUBSET {m \in pending : ~Applied(m)} :
        /\ pending' = pending \ S
        /\ refused' = refused \union S
        /\ UNCHANGED <<log, saved, acked>>

Next ==
    \/ \E m \in Command : Call(m) \/ Apply(m) \/ Answer(m)
    \/ Save
    \/ Abandon

Spec == Init /\ [][Next]_vars
=============================================================================
