----------------------------- MODULE AuditTrail -----------------------------
(***************************************************************************)
(* What an audit log promises the code that uses it (the AuditLog protocol *)
(* of audit.py: "record must raise if the event could not be stored"):     *)
(* events join one totally ordered trail, an event whose record() returned *)
(* stays in it for ever, and the only events a failure may take away are   *)
(* the newest ones, none of which was acknowledged.                        *)
(***************************************************************************)
EXTENDS Naturals, Sequences

CONSTANT Event

VARIABLES
    trail,      \* the events in the log, oldest first
    acked       \* the events whose record() returned

trailVars == <<trail, acked>>

InTrail(e) == \E i \in 1..Len(trail) : trail[i] = e

TrailTypeOK ==
    /\ trail \in Seq(Event)
    /\ acked \subseteq Event

TrailInit ==
    /\ trail = <<>>
    /\ acked = {}

\* An event becomes part of the trail, once.
Store(e) ==
    /\ ~InTrail(e)
    /\ trail' = Append(trail, e)
    /\ UNCHANGED acked

\* record() returns: only for an event that is in the trail.
Acknowledge(e) ==
    /\ InTrail(e)
    /\ acked' = acked \union {e}
    /\ UNCHANGED trail

\* A failure removes a suffix that holds no acknowledged event.
Forget(n) ==
    /\ \A i \in n+1..Len(trail) : trail[i] \notin acked
    /\ trail' = SubSeq(trail, 1, n)
    /\ UNCHANGED acked

TrailNext ==
    \/ \E e \in Event : Store(e) \/ Acknowledge(e)
    \/ \E n \in 0..Len(trail) : Forget(n)

TrailSpec == TrailInit /\ [][TrailNext]_trailVars
=============================================================================
