------------------------------ MODULE Release ------------------------------
(***************************************************************************)
(* Every way data leaves colgov under audit through the policy: library    *)
(* calls of Policy.apply and Policy.detokenize, and the loop of            *)
(* cmd_detokenize, which makes one such call per batch of tokens.  Each    *)
(* call records one event in every log of a MultiAuditLog, in order, and   *)
(* hands data out only when the last log has accepted it.                  *)
(*                                                                         *)
(* A log is what AuditTrail promises (AuditLog shows that JsonlAuditLog    *)
(* keeps it): an event may be stored and its record() still raise, and a   *)
(* power cut may take away the newest events that were not acknowledged.   *)
(* A Lossy log is a LoggingAuditLog: it never raises and may store nothing.*)
(*                                                                         *)
(* What a role may do is in Policy; here a session's policy and catalog,   *)
(* which it loads once, come down to whether it may detokenize the column. *)
(***************************************************************************)
EXTENDS Naturals, Sequences

CONSTANTS
    Session,        \* processes
    Cli,            \* those that run `colgov detokenize`, with one log each
    NLogs,          \* how many logs the MultiAuditLog of the others has
    Lossy,          \* which of them are LoggingAuditLogs
    MaxCalls,       \* bound: calls, of all processes together
    BatchSize       \* the most values in a call

ASSUME CliAssumption == Cli \subseteq Session
ASSUME LogsAssumption == NLogs \in Nat \ {0} /\ Lossy \subseteq 1..NLogs
ASSUME CliLogAssumption == Cli # {} => 1 \notin Lossy
ASSUME BoundsAssumption == MaxCalls \in Nat /\ BatchSize \in Nat

VARIABLES
    pc,         \* pc[s]: where session s is
    may,        \* may[s]: whether its policy and catalog let it detokenize
    calls,      \* how many calls were made
    event,      \* event[s]: the event of its call
    at,         \* at[s]: the log it is recording that event in
    trail,      \* trail[l]: the events in log l, oldest first
    acked,      \* acked[l]: the events log l has accepted
    released,   \* released[c]: how many plaintext or view values call c gave out
    ended       \* calls that returned, or raised for a reason other than a log,
                \* with their action

vars == <<pc, may, calls, event, at, trail, acked, released, ended>>

Log == 1..NLogs
Reliable == Log \ Lossy
Call == Session \X (1..MaxCalls)
Outcome == {"allowed", "denied", "error"}
Action == {"view", "detokenize"}
Event == [call : Call, action : Action, outcome : Outcome, count : 0..BatchSize]
NoEvent == [outcome |-> "none"]

LogsOf(s) == IF s \in Cli THEN {1} ELSE Log
InTrail(l, e) == \E i \in 1..Len(trail[l]) : trail[l][i] = e

Waiting == {"ready", "more"}
Recording == {"record", "stored"}

ReleaseTypeOK ==
    /\ pc \in [Session -> {"out", "recorded", "printing"} \union Waiting \union Recording]
    /\ may \in [Session -> BOOLEAN]
    /\ calls \in 0..MaxCalls
    /\ event \in [Session -> Event \union {NoEvent}]
    /\ at \in [Session -> Log]
    /\ trail \in [Log -> Seq(Event)]
    /\ acked \in [Log -> SUBSET Event]
    /\ released \in [Call -> 0..BatchSize]
    /\ ended \subseteq Call \X Action
-----------------------------------------------------------------------------
(* The calls.  One without an actor or a purpose is refused at the door.   *)

\* A process starts and loads its policy and catalog.
Start(s) ==
    /\ pc[s] = "out"
    /\ may' \in {[may EXCEPT ![s] = b] : b \in BOOLEAN}
    /\ pc' = [pc EXCEPT ![s] = "ready"]
    /\ UNCHANGED <<calls, event, at, trail, acked, released, ended>>

\* No call is under way any more.
Done(s, where) ==
    /\ pc' = [pc EXCEPT ![s] = where]
    /\ event' = [event EXCEPT ![s] = NoEvent]
    /\ at' = [at EXCEPT ![s] = 1]

\* An exception leaves the call: it ends a command, and a library caller may go on.
DoneRaising(s) == Done(s, IF s \in Cli THEN "out" ELSE "ready")

NextCall(s) ==
    /\ pc[s] \in Waiting
    /\ calls < MaxCalls
    /\ calls' = calls + 1
    /\ UNCHANGED <<may, trail, acked, released>>

\* The call has its outcome, and starts to record it.
Conclude(s, action, outcome, count) ==
    /\ event' = [event EXCEPT ![s] = [call |-> <<s, calls + 1>>, action |-> action,
                                      outcome |-> outcome, count |-> count]]
    /\ at' = [at EXCEPT ![s] = 1]
    /\ pc' = [pc EXCEPT ![s] = "record"]
    /\ UNCHANGED ended

\* Policy.detokenize by a role that has the right.  cmd_detokenize makes a call
\* without tokens only when its input has none.
DetokenizeAllowed(s) ==
    /\ NextCall(s)
    /\ may[s]
    /\ \E n \in 0..BatchSize :
        /\ n = 0 => pc[s] = "ready"
        /\ Conclude(s, "detokenize", "allowed", n)

DetokenizeDenied(s) ==
    /\ NextCall(s)
    /\ ~may[s]
    /\ Conclude(s, "detokenize", "denied", 0)

\* A token that raises InvalidToken.
DetokenizeInvalid(s) ==
    /\ NextCall(s)
    /\ may[s]
    /\ Conclude(s, "detokenize", "error", 0)

\* Any other exception, which nothing catches: a token is not a string, or the
\* keys or the tokens cannot be read.
DetokenizeFaults(s) ==
    /\ NextCall(s)
    /\ may[s]
    /\ ended' = ended \union {<<<<s, calls + 1>>, "detokenize">>}
    /\ DoneRaising(s)

\* Mutant: apply() records no failure.
ViewFailsUnrecorded(s) ==
    /\ s \notin Cli
    /\ NextCall(s)
    /\ ended' = ended \union {<<<<s, calls + 1>>, "view">>}
    /\ DoneRaising(s)

\* Policy.apply with an audit log: the view is built.
View(s) ==
    /\ s \notin Cli
    /\ NextCall(s)
    /\ \E n \in 0..BatchSize : Conclude(s, "view", "allowed", n)

\* Building the view raises, for whatever reason.
ViewFails(s) ==
    /\ s \notin Cli
    /\ NextCall(s)
    /\ Conclude(s, "view", "error", 0)
-----------------------------------------------------------------------------
(* MultiAuditLog.record: one log after the other. *)

Store(s) ==
    /\ pc[s] = "record"
    /\ \/ trail' = [trail EXCEPT ![at[s]] = Append(@, event[s])]
       \/ at[s] \in Lossy /\ UNCHANGED trail
    /\ pc' = [pc EXCEPT ![s] = "stored"]
    /\ UNCHANGED <<may, calls, event, at, acked, released, ended>>

\* Mutant: returns when the first log has the event.
AcknowledgeOne(s) ==
    /\ pc[s] = "stored"
    /\ at[s] \in Lossy \/ InTrail(at[s], event[s])
    /\ acked' = [acked EXCEPT ![at[s]] = @ \union {event[s]}]
    /\ pc' = [pc EXCEPT ![s] = "recorded"]
    /\ UNCHANGED <<may, calls, event, at, trail, released, ended>>

\* The log's record() returns; the next log follows, if there is one.
Acknowledge(s) ==
    /\ pc[s] = "stored"
    /\ at[s] \in Lossy \/ InTrail(at[s], event[s])
    /\ acked' = [acked EXCEPT ![at[s]] = @ \union {event[s]}]
    /\ IF at[s] + 1 \in LogsOf(s)
       THEN /\ at' = [at EXCEPT ![s] = @ + 1]
            /\ pc' = [pc EXCEPT ![s] = "record"]
       ELSE /\ pc' = [pc EXCEPT ![s] = "recorded"]
            /\ UNCHANGED at
    /\ UNCHANGED <<may, calls, event, trail, released, ended>>

\* Mutant: a log that raises is skipped.
RaiseSkips(s) ==
    /\ pc[s] \in Recording
    /\ at[s] + 1 \in LogsOf(s)
    /\ at' = [at EXCEPT ![s] = @ + 1]
    /\ pc' = [pc EXCEPT ![s] = "record"]
    /\ UNCHANGED <<may, calls, event, trail, acked, released, ended>>

\* Mutant: log("allowed") inside the try, so that its failure is recorded too.
RaiseIsRecorded(s) ==
    /\ pc[s] \in Recording
    /\ at[s] \notin Lossy
    /\ event[s].outcome = "allowed"
    /\ event' = [event EXCEPT ![s].outcome = "error", ![s].count = 0]
    /\ at' = [at EXCEPT ![s] = 1]
    /\ pc' = [pc EXCEPT ![s] = "record"]
    /\ UNCHANGED <<may, calls, trail, acked, released, ended>>

\* The log's record() raises, before or after it stored the event.
RecordRaises(s) ==
    /\ pc[s] \in Recording
    /\ at[s] \notin Lossy
    /\ DoneRaising(s)
    /\ UNCHANGED <<may, calls, trail, acked, released, ended>>
-----------------------------------------------------------------------------
(* The end of a call. *)

\* A library call returns its values; cmd_detokenize starts to print them.
Return(s) ==
    /\ pc[s] = "recorded"
    /\ event[s].outcome = "allowed"
    /\ ended' = ended \union {<<event[s].call, event[s].action>>}
    /\ IF s \in Cli
       THEN /\ pc' = [pc EXCEPT ![s] = "printing"]
            /\ UNCHANGED <<event, at, released>>
       ELSE /\ Done(s, "ready")
            /\ released' = [released EXCEPT ![event[s].call] = event[s].count]
    /\ UNCHANGED <<may, calls, trail, acked>>

\* AccessDenied, InvalidToken or apply()'s failure goes to the caller.
Raise(s) ==
    /\ pc[s] = "recorded"
    /\ event[s].outcome # "allowed"
    /\ ended' = ended \union {<<event[s].call, event[s].action>>}
    /\ DoneRaising(s)
    /\ UNCHANGED <<may, calls, trail, acked, released>>

\* Mutant: nothing stops at the end of the batch.
PrintPast(s) ==
    /\ pc[s] = "printing"
    /\ released' = [released EXCEPT ![event[s].call] = @ + 1]
    /\ UNCHANGED <<pc, may, calls, event, at, trail, acked, ended>>

\* One more value of the batch reaches the output.
PrintValue(s) ==
    /\ pc[s] = "printing"
    /\ released[event[s].call] < event[s].count
    /\ released' = [released EXCEPT ![event[s].call] = @ + 1]
    /\ UNCHANGED <<pc, may, calls, event, at, trail, acked, ended>>

\* The batch is printed.  After it comes the next one; there is none after an
\* empty input.
NextBatch(s) ==
    /\ pc[s] = "printing"
    /\ released[event[s].call] = event[s].count
    /\ Done(s, IF event[s].count = 0 THEN "out" ELSE "more")
    /\ UNCHANGED <<may, calls, trail, acked, released, ended>>

\* The process ends, is killed, or cannot print.
Exit(s) ==
    /\ pc[s] # "out"
    /\ Done(s, "out")
    /\ may' = [may EXCEPT ![s] = FALSE]
    /\ UNCHANGED <<calls, trail, acked, released, ended>>

\* The machine of log l loses power: AuditTrail's Forget.
Forget(l) ==
    /\ \E n \in 0..(Len(trail[l]) - 1) :
        /\ \A i \in n+1..Len(trail[l]) : trail[l][i] \notin acked[l] \/ l \in Lossy
        /\ trail' = [trail EXCEPT ![l] = SubSeq(@, 1, n)]
    /\ UNCHANGED <<pc, may, calls, event, at, acked, released, ended>>
-----------------------------------------------------------------------------
Init ==
    /\ pc = [s \in Session |-> "out"]
    /\ may = [s \in Session |-> FALSE]
    /\ calls = 0
    /\ event = [s \in Session |-> NoEvent]
    /\ at = [s \in Session |-> 1]
    /\ trail = [l \in Log |-> <<>>]
    /\ acked = [l \in Log |-> {}]
    /\ released = [c \in Call |-> 0]
    /\ ended = {}

Next ==
    \/ \E s \in Session :
        \/ Start(s) \/ Exit(s)
        \/ DetokenizeAllowed(s) \/ DetokenizeDenied(s)
        \/ DetokenizeInvalid(s) \/ DetokenizeFaults(s)
        \/ View(s) \/ ViewFails(s)
        \/ Store(s) \/ Acknowledge(s) \/ RecordRaises(s)
        \/ Return(s) \/ Raise(s) \/ PrintValue(s) \/ NextBatch(s)
    \/ \E l \in Log : Forget(l)

Spec == Init /\ [][Next]_vars
-----------------------------------------------------------------------------
(* Properties. *)

\* What is released is on record: values are only ever out if every reliable
\* log has accepted, and still has, an "allowed" event of that very call which
\* counts at least as many.  Neither a log that raised half way through the
\* MultiAuditLog, nor a crash, nor a power cut after the release changes that.
ReleasedIsRecorded ==
    \A c \in Call : released[c] > 0 =>
        \A l \in Reliable \intersect LogsOf(c[1]) :
            \E i \in 1..Len(trail[l]) :
                /\ trail[l][i] \in acked[l]
                /\ trail[l][i].call = c
                /\ trail[l][i].outcome = "allowed"
                /\ trail[l][i].count >= released[c]

\* The logs of a MultiAuditLog never contradict each other: whatever a later
\* log holds, every reliable log before it has accepted and still holds.
LaterLogsNeverAhead ==
    \A l \in Log, k \in Reliable : k < l =>
        \A i \in 1..Len(trail[l]) :
            trail[l][i] \in acked[k] /\ InTrail(k, trail[l][i])

\* A call is one event: no call is on record with two outcomes, or twice in one
\* log, even when a log fails after it stored the event.
OneEventPerCall ==
    \A l, k \in Log : \A i \in 1..Len(trail[l]), j \in 1..Len(trail[k]) :
        trail[l][i].call = trail[k][j].call =>
            trail[l][i] = trail[k][j] /\ (l = k => i = j)

OnRecord(c) == \A l \in Reliable \intersect LogsOf(c[1]) :
                    \E i \in 1..Len(trail[l]) : trail[l][i].call = c

\* "failures are recorded too" (policy.py, apply()): a view call that returns
\* or raises is on record in every reliable log, unless a log itself raised.
ViewsAreOnRecord == \A c \in Call : <<c, "view">> \in ended => OnRecord(c)

\* policy.py:27, "every attempt is written to an audit log": a detokenize or
\* view call that returned or raised is on record, unless a log itself raised.
EveryAttemptRecorded ==
    \A c \in Call, action \in Action : <<c, action>> \in ended => OnRecord(c)
=============================================================================
