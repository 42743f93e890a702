--------------------------- MODULE ReleaseProofs ----------------------------
(***************************************************************************)
(* Theorems about the audited release of data, for any number of sessions, *)
(* logs, calls and values, whichever of the logs are lossy, and with every *)
(* failure of Release: logs that raise, processes that die, power cuts.    *)
(***************************************************************************)
EXTENDS Release, SequenceTheorems, TLAPS

-----------------------------------------------------------------------------
(* The inductive invariant. *)

InCall == Recording \union {"recorded", "printing"}

\* What log l has accepted and holds.
Accepted(l) == {e \in acked[l] : InTrail(l, e)}

\* A session in a call has an event, of its own and of a call already counted.
CallInv == \A s \in Session :
    /\ pc[s] \in InCall => /\ event[s] \in Event
                           /\ event[s].call[1] = s
                           /\ event[s].call[2] <= calls
    /\ s \in Cli => at[s] = 1
    /\ pc[s] = "printing" => s \in Cli /\ event[s].outcome = "allowed"

\* No event comes from a call that was not made yet.
HistoryInv == \A l \in Log : \A i \in 1..Len(trail[l]) : trail[l][i].call[2] <= calls

\* The logs before the one a session is recording in have accepted its event,
\* and all of them have once MultiAuditLog.record has returned.
RecordedInv == \A s \in Session : pc[s] \in InCall =>
    \A l \in Reliable \intersect LogsOf(s) :
        (pc[s] \in Recording => l < at[s]) => event[s] \in Accepted(l)

\* What a log holds of a call under way is the call's event; the logs after the
\* one the session is recording in have nothing of it, nor has that one before Store.
CurrentInv == \A s \in Session : pc[s] \in InCall =>
    \A l \in Log : \A i \in 1..Len(trail[l]) :
        trail[l][i].call = event[s].call =>
            /\ trail[l][i] = event[s]
            /\ pc[s] = "stored" => l <= at[s]
            /\ pc[s] = "record" => l < at[s]

\* A view call that has ended is on record, and accepted.
EndedInv == \A c \in Call : <<c, "view">> \in ended =>
    \A l \in Reliable \intersect LogsOf(c[1]) : \E e \in Accepted(l) : e.call = c

\* ReleasedIsRecorded and LaterLogsNeverAhead, in terms of what logs have accepted.
ReleasedInv == \A c \in Call : released[c] > 0 =>
    \A l \in Reliable \intersect LogsOf(c[1]) :
        \E e \in Accepted(l) : e.call = c /\ e.outcome = "allowed" /\ e.count >= released[c]

AheadInv == \A l \in Log, k \in Reliable : k < l =>
    \A i \in 1..Len(trail[l]) : trail[l][i] \in Accepted(k)

IInv ==
    /\ ReleaseTypeOK
    /\ CallInv
    /\ HistoryInv
    /\ RecordedInv
    /\ CurrentInv
    /\ EndedInv
    /\ ReleasedInv
    /\ AheadInv
    /\ OneEventPerCall

-----------------------------------------------------------------------------
(* Lemmas about the data. *)

\* Appending an event to one log.
LEMMA AppendEffect ==
    ASSUME ReleaseTypeOK, NEW l \in Log, NEW e \in Event,
           trail' = [trail EXCEPT ![l] = Append(@, e)]
    PROVE  /\ trail' \in [Log -> Seq(Event)]
           /\ \A k \in Log : Len(trail[k]) \in Nat
           /\ \A k \in Log \ {l} : trail'[k] = trail[k]
           /\ Len(trail'[l]) = Len(trail[l]) + 1
           /\ \A i \in 1..Len(trail[l]) : trail'[l][i] = trail[l][i]
           /\ trail'[l][Len(trail[l]) + 1] = e
<1>1. trail \in [Log -> Seq(Event)]
  BY DEF ReleaseTypeOK
<1>2. trail'[l] = Append(trail[l], e) /\ trail[l] \in Seq(Event)
  BY <1>1
<1> QED BY <1>1, <1>2, AppendProperties

\* Cutting one log.
LEMMA CutEffect ==
    ASSUME ReleaseTypeOK, NEW l \in Log, NEW n \in 0..(Len(trail[l]) - 1),
           trail' = [trail EXCEPT ![l] = SubSeq(@, 1, n)]
    PROVE  /\ trail' \in [Log -> Seq(Event)]
           /\ \A k \in Log : Len(trail[k]) \in Nat
           /\ \A k \in Log \ {l} : trail'[k] = trail[k]
           /\ Len(trail'[l]) = n
           /\ \A i \in 1..n : i \in 1..Len(trail[l]) /\ trail'[l][i] = trail[l][i]
<1>1. trail \in [Log -> Seq(Event)] /\ Len(trail[l]) \in Nat
  BY DEF ReleaseTypeOK
<1>2. trail'[l] = SubSeq(trail[l], 1, n) /\ trail[l] \in Seq(Event)
  BY <1>1
<1>3. \A i \in 1..n : i \in 1..Len(trail[l]) /\ trail[l][i] \in Event
  BY <1>1, ElementOfSeq
<1>4. /\ SubSeq(trail[l], 1, n) \in Seq(Event)
      /\ Len(SubSeq(trail[l], 1, n)) = IF 1 <= n THEN n - 1 + 1 ELSE 0
      /\ \A i \in 1..n - 1 + 1 : SubSeq(trail[l], 1, n)[i] = trail[l][1 + i - 1]
  <2>1. 1 \in Int /\ n \in Int
    BY <1>1
  <2> QED BY <1>3, <2>1, SubSeqProperties
<1> QED BY <1>1, <1>2, <1>3, <1>4

\* Whatever stays in the logs stays accepted.
LEMMA AcceptedUnchanged ==
    ASSUME NEW l, trail' = trail, acked' = acked
    PROVE  Accepted(l)' = Accepted(l)
BY DEF Accepted, InTrail

\* What is in a log is an event, and so is what it has accepted.
LEMMA EventsInLogs ==
    ASSUME ReleaseTypeOK, NEW l \in Log
    PROVE  /\ Len(trail[l]) \in Nat
           /\ \A i \in 1..Len(trail[l]) : trail[l][i] \in Event
           /\ Accepted(l) \subseteq Event
           /\ \A e \in Event : /\ e.call \in Call
                               /\ e.call[1] \in Session
                               /\ e.call[2] \in 1..MaxCalls
                               /\ e.outcome \in Outcome
                               /\ e.count \in 0..BatchSize
<1>1. trail[l] \in Seq(Event) /\ acked[l] \subseteq Event
  BY DEF ReleaseTypeOK
<1>2. \A i \in 1..Len(trail[l]) : trail[l][i] \in Event
  BY <1>1, ElementOfSeq
<1>3. Accepted(l) \subseteq Event
  BY <1>1 DEF Accepted
<1>4. \A e \in Event : /\ e.call \in Call
                       /\ e.call[1] \in Session
                       /\ e.call[2] \in 1..MaxCalls
                       /\ e.outcome \in Outcome
                       /\ e.count \in 0..BatchSize
  BY DEF Event, Call
<1> QED BY <1>1, <1>2, <1>3, <1>4

-----------------------------------------------------------------------------
(* Every step preserves the invariant. *)

\* A call has its outcome: its event's number is above those of all events.
LEMMA BeginStep ==
    ASSUME IInv, NEW s \in Session, NEW e \in Event, NextCall(s),
           e.call = <<s, calls + 1>>,
           event' = [event EXCEPT ![s] = e],
           at' = [at EXCEPT ![s] = 1],
           pc' = [pc EXCEPT ![s] = "record"],
           ended' = ended
    PROVE  IInv'
<1>0. calls \in Nat /\ calls' = calls + 1 /\ calls' \in 0..MaxCalls
  BY BoundsAssumption DEF IInv, ReleaseTypeOK, NextCall
<1>1. ReleaseTypeOK'
  BY <1>0, LogsAssumption DEF IInv, NextCall, ReleaseTypeOK, Recording, Log
<1>2. CallInv'
  <2> SUFFICES ASSUME NEW t \in Session
               PROVE  /\ pc'[t] \in InCall => /\ event'[t] \in Event
                                              /\ event'[t].call[1] = t
                                              /\ event'[t].call[2] <= calls'
                      /\ t \in Cli => at'[t] = 1
                      /\ pc'[t] = "printing" => t \in Cli /\ event'[t].outcome = "allowed"
    BY DEF CallInv
  <2>1. CASE t = s
    BY <1>0, <2>1 DEF IInv, CallInv, ReleaseTypeOK
  <2>2. CASE t # s
    <3>1. pc'[t] = pc[t] /\ event'[t] = event[t] /\ at'[t] = at[t]
      BY <2>2 DEF IInv, ReleaseTypeOK
    <3>2. pc[t] \in InCall => event[t].call[2] \in Nat
      BY EventsInLogs, LogsAssumption, BoundsAssumption DEF IInv, CallInv, Log
    <3> QED BY <1>0, <3>1, <3>2 DEF IInv, CallInv
  <2> QED BY <2>1, <2>2
<1>3. HistoryInv'
  BY <1>0, EventsInLogs, BoundsAssumption DEF IInv, NextCall, HistoryInv
<1>4. RecordedInv'
  BY AcceptedUnchanged DEF IInv, NextCall, ReleaseTypeOK, RecordedInv, Recording, Reliable, Log, InCall
<1>5. CurrentInv'
  <2> SUFFICES ASSUME NEW t \in Session, pc'[t] \in InCall, NEW l \in Log,
                      NEW i \in 1..Len(trail[l]), trail[l][i].call = event'[t].call
               PROVE  /\ trail[l][i] = event'[t]
                      /\ pc'[t] = "stored" => l <= at'[t]
                      /\ pc'[t] = "record" => l < at'[t]
    BY DEF NextCall, CurrentInv
  <2>1. trail[l][i].call[2] \in Nat /\ trail[l][i].call[2] <= calls
    BY EventsInLogs, BoundsAssumption DEF IInv, HistoryInv
  <2>2. t # s
    BY <1>0, <2>1 DEF IInv, ReleaseTypeOK
  <2> QED BY <2>2 DEF IInv, ReleaseTypeOK, CurrentInv
<1>6. EndedInv' /\ ReleasedInv' /\ AheadInv' /\ OneEventPerCall'
  BY AcceptedUnchanged DEF IInv, NextCall, EndedInv, ReleasedInv, AheadInv, OneEventPerCall
<1> QED BY <1>1, <1>2, <1>3, <1>4, <1>5, <1>6 DEF IInv

\* A session leaves its call, and nothing else changes: a log raised, a command
\* has printed a batch, a process ended.
LEMMA DoneStep ==
    ASSUME IInv, NEW s \in Session, NEW where \in {"out", "ready", "more"}, Done(s, where),
           may' \in [Session -> BOOLEAN],
           UNCHANGED <<calls, trail, acked, released, ended>>
    PROVE  IInv'
<1>1. ReleaseTypeOK'
  <2>1. 1 \in Log
    BY LogsAssumption DEF Log
  <2>2. /\ pc' \in [Session -> {"out", "recorded", "printing"} \union Waiting \union Recording]
        /\ event' \in [Session -> Event \union {NoEvent}]
        /\ at' \in [Session -> Log]
    BY <2>1 DEF IInv, Done, ReleaseTypeOK, Waiting
  <2> QED BY <2>2 DEF IInv, ReleaseTypeOK
<1>2. CallInv' /\ RecordedInv' /\ CurrentInv'
  BY AcceptedUnchanged DEF IInv, Done, ReleaseTypeOK, CallInv, RecordedInv, CurrentInv, InCall, Recording
<1>3. HistoryInv' /\ EndedInv' /\ ReleasedInv' /\ AheadInv' /\ OneEventPerCall'
  BY AcceptedUnchanged
     DEF IInv, HistoryInv, EndedInv, ReleasedInv, AheadInv, OneEventPerCall
<1> QED BY <1>1, <1>2, <1>3 DEF IInv

\* A process starts.
LEMMA StartStep ==
    ASSUME IInv, NEW s \in Session, Start(s)
    PROVE  IInv'
<1>1. ReleaseTypeOK'
  BY DEF IInv, Start, ReleaseTypeOK, Waiting
<1>2. CallInv' /\ RecordedInv' /\ CurrentInv'
  BY AcceptedUnchanged DEF IInv, Start, ReleaseTypeOK, CallInv, RecordedInv, CurrentInv, InCall, Recording
<1>3. HistoryInv' /\ EndedInv' /\ ReleasedInv' /\ AheadInv' /\ OneEventPerCall'
  BY AcceptedUnchanged
     DEF IInv, Start, HistoryInv, EndedInv, ReleasedInv, AheadInv, OneEventPerCall
<1> QED BY <1>1, <1>2, <1>3 DEF IInv

\* A detokenize call raises without an event.
LEMMA FaultsStep ==
    ASSUME IInv, NEW s \in Session, DetokenizeFaults(s)
    PROVE  IInv'
<1>0. calls \in Nat /\ calls' = calls + 1 /\ calls' \in 0..MaxCalls
  BY BoundsAssumption DEF IInv, ReleaseTypeOK, DetokenizeFaults, NextCall
<1>1. ReleaseTypeOK'
  <2>1. ended' \subseteq Call \X Action
    <3>1. <<s, calls + 1>> \in Call
      BY <1>0 DEF Call
    <3>2. <<<<s, calls + 1>>, "detokenize">> \in Call \X Action
      BY <3>1 DEF Action
    <3> QED BY <3>2 DEF IInv, ReleaseTypeOK, DetokenizeFaults
  <2> QED BY <1>0, <2>1, LogsAssumption
       DEF IInv, DetokenizeFaults, NextCall, DoneRaising, Done, ReleaseTypeOK, Waiting, Log
<1>2. \A t \in Session : pc'[t] \in InCall => pc'[t] = pc[t] /\ event'[t] = event[t] /\ at'[t] = at[t]
  BY DEF IInv, ReleaseTypeOK, DetokenizeFaults, DoneRaising, Done, InCall, Recording
<1>3. \A t \in Session : pc[t] \in InCall => event[t].call[2] \in Nat
  BY EventsInLogs, LogsAssumption, BoundsAssumption DEF IInv, CallInv, Log
<1>4. \A t \in Cli : at'[t] = 1
  BY CliAssumption DEF IInv, ReleaseTypeOK, CallInv, DetokenizeFaults, DoneRaising, Done
<1>5. CallInv'
  BY <1>0, <1>2, <1>3, <1>4 DEF IInv, CallInv, InCall
<1>6. HistoryInv'
  BY <1>0, EventsInLogs, BoundsAssumption DEF IInv, DetokenizeFaults, NextCall, HistoryInv
<1>7. RecordedInv' /\ CurrentInv'
  BY <1>2, AcceptedUnchanged DEF IInv, DetokenizeFaults, NextCall, RecordedInv, CurrentInv
<1>8. EndedInv'
  <2>1. \A c \in Call : <<c, "view">> \in ended' => <<c, "view">> \in ended
    BY DEF DetokenizeFaults
  <2> QED BY <2>1, AcceptedUnchanged DEF IInv, DetokenizeFaults, NextCall, EndedInv
<1>9. ReleasedInv' /\ AheadInv' /\ OneEventPerCall'
  BY AcceptedUnchanged DEF IInv, DetokenizeFaults, NextCall, ReleasedInv, AheadInv, OneEventPerCall
<1> QED BY <1>1, <1>5, <1>6, <1>7, <1>8, <1>9 DEF IInv

\* A log stores an event: none of the calls before it is the event's.
LEMMA StoreStep ==
    ASSUME IInv, NEW s \in Session, Store(s)
    PROVE  /\ IInv'
           /\ \A l \in Reliable : Accepted(l) \subseteq Accepted(l)'
<1> DEFINE m == at[s]
           e == event[s]
<1>0. /\ pc[s] = "record" /\ pc[s] \in InCall /\ e \in Event /\ e.call[1] = s /\ m \in Log
      /\ e.call[2] <= calls /\ m \in Nat
  BY LogsAssumption DEF IInv, ReleaseTypeOK, CallInv, Store, InCall, Recording, Log
<1>1. CASE trail' = trail
  <2>1. ReleaseTypeOK'
    BY <1>1 DEF IInv, Store, ReleaseTypeOK, Recording
  <2>2. CallInv'
    BY <1>0 DEF IInv, Store, ReleaseTypeOK, CallInv
  <2>3. RecordedInv' /\ CurrentInv'
    <3>1. \A t \in Session : /\ pc'[t] \in InCall => pc[t] \in InCall
                             /\ pc'[t] \in Recording => pc[t] \in Recording
                             /\ pc'[t] = "record" => pc[t] = "record"
                             /\ pc'[t] = "stored" => pc[t] \in {"record", "stored"}
                             /\ pc'[t] \in InCall /\ pc[t] \in Recording => pc'[t] \in Recording
      BY <1>0 DEF IInv, Store, ReleaseTypeOK, InCall, Recording
    <3>2. /\ event' = event /\ at' = at /\ at \in [Session -> Nat]
          /\ \A l : Accepted(l)' = Accepted(l)
      BY <1>1, AcceptedUnchanged, LogsAssumption DEF IInv, Store, ReleaseTypeOK, Log
    <3>3. RecordedInv'
      BY <3>1, <3>2 DEF IInv, RecordedInv
    <3>4. Log \subseteq Nat
      BY LogsAssumption DEF Log
    <3>5. CurrentInv'
      BY <1>1, <3>1, <3>2, <3>4 DEF IInv, CurrentInv
    <3> QED BY <3>3, <3>5
  <2>4. HistoryInv' /\ EndedInv' /\ ReleasedInv' /\ AheadInv' /\ OneEventPerCall'
    BY <1>1, AcceptedUnchanged
       DEF IInv, Store, HistoryInv, EndedInv, ReleasedInv, AheadInv, OneEventPerCall
  <2>5. \A l : Accepted(l)' = Accepted(l)
    BY <1>1, AcceptedUnchanged DEF Store
  <2> QED BY <2>1, <2>2, <2>3, <2>4, <2>5 DEF IInv
<1>2. CASE trail' = [trail EXCEPT ![m] = Append(@, e)]
  <2>1. /\ trail' \in [Log -> Seq(Event)]
        /\ \A k \in Log : Len(trail[k]) \in Nat
        /\ \A k \in Log \ {m} : trail'[k] = trail[k]
        /\ Len(trail'[m]) = Len(trail[m]) + 1
        /\ \A i \in 1..Len(trail[m]) : trail'[m][i] = trail[m][i]
        /\ trail'[m][Len(trail[m]) + 1] = e
    BY <1>0, <1>2, AppendEffect DEF IInv
  <2>2. \* Every entry of the new logs is an old one, or the new one.
        \A l \in Log : \A i \in 1..Len(trail'[l]) :
            \/ i \in 1..Len(trail[l]) /\ trail'[l][i] = trail[l][i]
            \/ l = m /\ i = Len(trail[l]) + 1 /\ trail'[l][i] = e
    BY <2>1
  <2>3. \* Nothing that was in a log before has the new event's call, unless it is e
        \* in a log before m.
        \A l \in Log : \A i \in 1..Len(trail[l]) :
            trail[l][i].call = e.call => trail[l][i] = e /\ l < m
    BY <1>0 DEF IInv, CurrentInv
  <2>4. \A l \in Log : Accepted(l) \subseteq Accepted(l)'
    <3> SUFFICES ASSUME NEW l \in Log, NEW x \in Accepted(l)
                 PROVE  x \in Accepted(l)'
      OBVIOUS
    <3>1. PICK i \in 1..Len(trail[l]) : trail[l][i] = x
      BY DEF Accepted, InTrail
    <3>2. i \in 1..Len(trail'[l]) /\ trail'[l][i] = x
      BY <2>1, <3>1
    <3> QED BY <3>2 DEF Store, Accepted, InTrail
  <2>5. ReleaseTypeOK'
    BY <2>1 DEF IInv, Store, ReleaseTypeOK, Recording
  <2>6. CallInv'
    BY <1>0 DEF IInv, Store, ReleaseTypeOK, CallInv
  <2>7. HistoryInv'
    BY <1>0, <2>2 DEF IInv, Store, HistoryInv
  <2>8. \A t \in Session : /\ pc'[t] \in InCall => pc[t] \in InCall
                           /\ pc'[t] \in InCall /\ pc[t] \in Recording => pc'[t] \in Recording
                           /\ t # s => pc'[t] = pc[t]
    BY <1>0 DEF IInv, Store, ReleaseTypeOK, InCall, Recording
  <2>9. RecordedInv'
    <3>1. Reliable \subseteq Log /\ event' = event /\ at' = at
      BY DEF Reliable, Store
    <3> QED BY <2>4, <2>8, <3>1 DEF IInv, RecordedInv
  <2>10. CurrentInv'
    <3> SUFFICES ASSUME NEW t \in Session, pc'[t] \in InCall, NEW l \in Log,
                        NEW i \in 1..Len(trail'[l]), trail'[l][i].call = event[t].call
                 PROVE  /\ trail'[l][i] = event[t]
                        /\ pc'[t] = "stored" => l <= at[t]
                        /\ pc'[t] = "record" => l < at[t]
      BY DEF Store, CurrentInv
    <3>1. pc[t] \in InCall /\ event[t].call[1] = t
      BY <2>8 DEF IInv, CallInv
    <3>2. CASE t # s
      <4>1. trail'[l][i] # e
        BY <1>0, <3>1, <3>2
      <4>2. i \in 1..Len(trail[l]) /\ trail'[l][i] = trail[l][i]
        BY <2>2, <4>1
      <4> QED BY <2>8, <3>1, <3>2, <4>2 DEF IInv, CurrentInv
    <3>3. CASE t = s
      <4>1. pc'[t] = "stored"
        BY <3>3 DEF IInv, Store, ReleaseTypeOK
      <4>2. l \in Nat
        BY LogsAssumption DEF Log
      <4> QED BY <1>0, <2>2, <2>3, <3>3, <4>1, <4>2
    <3> QED BY <3>2, <3>3
  <2>11. EndedInv' /\ ReleasedInv'
    <3>1. Reliable \subseteq Log /\ ended' = ended /\ released' = released
      BY DEF Reliable, Store
    <3>2. EndedInv'
      BY <2>4, <3>1 DEF IInv, EndedInv
    <3>3. ReleasedInv'
      BY <2>4, <3>1 DEF IInv, ReleasedInv
    <3> QED BY <3>2, <3>3
  <2>12. AheadInv'
    <3> SUFFICES ASSUME NEW l \in Log, NEW k \in Reliable, k < l, NEW i \in 1..Len(trail'[l])
                 PROVE  trail'[l][i] \in Accepted(k)'
      BY DEF AheadInv
    <3>1. k \in Log
      BY DEF Reliable
    <3>2. CASE i \in 1..Len(trail[l]) /\ trail'[l][i] = trail[l][i]
      BY <2>4, <3>1, <3>2 DEF IInv, AheadInv
    <3>3. CASE l = m /\ trail'[l][i] = e
      <4>1. k \in LogsOf(s)
        <5>1. s \notin Cli
          BY <1>0, <3>1, <3>3, LogsAssumption DEF IInv, CallInv, Log
        <5> QED BY <3>1, <5>1 DEF LogsOf
      <4>2. e \in Accepted(k)
        BY <1>0, <3>3, <4>1 DEF IInv, RecordedInv
      <4> QED BY <2>4, <3>1, <3>3, <4>2
    <3> QED BY <2>2, <3>2, <3>3
  <2>13. OneEventPerCall'
    <3> SUFFICES ASSUME NEW l \in Log, NEW k \in Log, NEW i \in 1..Len(trail'[l]),
                        NEW j \in 1..Len(trail'[k]), trail'[l][i].call = trail'[k][j].call
                 PROVE  trail'[l][i] = trail'[k][j] /\ (l = k => i = j)
      BY DEF OneEventPerCall
    <3>1. CASE i \in 1..Len(trail[l]) /\ j \in 1..Len(trail[k])
      <4>1. trail'[l][i] = trail[l][i] /\ trail'[k][j] = trail[k][j]
        BY <2>1, <3>1
      <4> QED BY <3>1, <4>1 DEF IInv, OneEventPerCall
    <3>2. CASE ~(i \in 1..Len(trail[l])) /\ j \in 1..Len(trail[k])
      <4>1. l = m /\ trail'[l][i] = e
        BY <2>2, <3>2
      <4>2. trail'[k][j] = trail[k][j]
        BY <2>1, <3>2
      <4>3. trail[k][j] = e /\ k < m
        BY <2>3, <3>2, <4>1, <4>2
      <4> QED BY <1>0, <4>1, <4>2, <4>3
    <3>3. CASE i \in 1..Len(trail[l]) /\ ~(j \in 1..Len(trail[k]))
      <4>1. k = m /\ trail'[k][j] = e
        BY <2>2, <3>3
      <4>2. trail'[l][i] = trail[l][i]
        BY <2>1, <3>3
      <4>3. trail[l][i] = e /\ l < m
        BY <2>3, <3>3, <4>1, <4>2
      <4> QED BY <1>0, <4>1, <4>2, <4>3
    <3>4. CASE ~(i \in 1..Len(trail[l])) /\ ~(j \in 1..Len(trail[k]))
      <4>1. l = m /\ i = Len(trail[l]) + 1 /\ k = m /\ j = Len(trail[k]) + 1
        BY <2>2, <3>4
      <4> QED BY <4>1
    <3> QED BY <3>1, <3>2, <3>3, <3>4
  <2>14. Reliable \subseteq Log
    BY DEF Reliable
  <2> QED BY <2>4, <2>5, <2>6, <2>7, <2>9, <2>10, <2>11, <2>12, <2>13, <2>14 DEF IInv
<1> QED BY <1>1, <1>2 DEF Store

\* A log accepts an event that it holds, unless it is lossy.
LEMMA AcknowledgeStep ==
    ASSUME IInv, NEW s \in Session, Acknowledge(s)
    PROVE  /\ IInv'
           /\ \A l \in Reliable : Accepted(l) \subseteq Accepted(l)'
<1> DEFINE m == at[s]
           e == event[s]
<1>0. /\ pc[s] = "stored" /\ pc[s] \in InCall /\ e \in Event /\ m \in Log /\ m \in Nat
      /\ Log \subseteq Nat
  BY LogsAssumption DEF IInv, ReleaseTypeOK, CallInv, Acknowledge, InCall, Recording, Log
<1>1. \A l \in Log : /\ Accepted(l) \subseteq Accepted(l)'
                     /\ l \in Reliable /\ l = m => e \in Accepted(l)'
  <2>1. /\ trail' = trail
        /\ \A l \in Log : acked[l] \subseteq acked'[l]
        /\ e \in acked'[m]
    BY <1>0 DEF IInv, ReleaseTypeOK, Acknowledge
  <2>2. m \in Reliable => InTrail(m, e)
    BY DEF Acknowledge, Reliable
  <2> QED BY <2>1, <2>2 DEF Accepted, InTrail
<1>2. \A t \in Session \ {s} : pc'[t] = pc[t] /\ at'[t] = at[t]
  BY DEF IInv, ReleaseTypeOK, Acknowledge
<1>3. \/ pc'[s] = "record" /\ at'[s] = m + 1 /\ m + 1 \in LogsOf(s)
      \/ pc'[s] = "recorded" /\ at'[s] = m /\ m + 1 \notin LogsOf(s)
  BY DEF IInv, ReleaseTypeOK, Acknowledge
<1>4. LogsOf(s) \subseteq Log
  BY LogsAssumption DEF LogsOf, Log
<1>5. ReleaseTypeOK'
  <2>1. acked' \in [Log -> SUBSET Event]
    BY <1>0 DEF IInv, ReleaseTypeOK, Acknowledge
  <2>2. pc' \in [Session -> {"out", "recorded", "printing"} \union Waiting \union Recording]
    BY DEF IInv, ReleaseTypeOK, Acknowledge, Recording
  <2>3. at' \in [Session -> Log]
    BY <1>4 DEF IInv, ReleaseTypeOK, Acknowledge
  <2> QED BY <2>1, <2>2, <2>3 DEF IInv, ReleaseTypeOK, Acknowledge
<1>6. CallInv'
  <2>1. s \in Cli => at'[s] = 1
    BY <1>0, <1>3 DEF IInv, CallInv, LogsOf
  <2> QED BY <1>0, <1>2, <1>3, <2>1 DEF IInv, CallInv, Acknowledge
<1>7. HistoryInv' /\ OneEventPerCall'
  BY DEF IInv, Acknowledge, HistoryInv, OneEventPerCall
<1>8. RecordedInv'
  <2> SUFFICES ASSUME NEW t \in Session, pc'[t] \in InCall, NEW l \in Reliable \intersect LogsOf(t),
                      pc'[t] \in Recording => l < at'[t]
               PROVE  event[t] \in Accepted(l)'
    BY DEF Acknowledge, RecordedInv
  <2>1. l \in Log
    BY DEF Reliable
  <2>2. CASE t # s
    BY <1>1, <1>2, <2>1, <2>2 DEF IInv, RecordedInv
  <2>3. CASE t = s
    <3>1. l <= m
      BY <1>0, <1>3, <2>1, <2>3, LogsAssumption DEF IInv, CallInv, LogsOf, Log, Recording
    <3>2. CASE l = m
      <4>1. e \in Accepted(l)'
        BY <1>1, <2>1, <3>2
      <4> QED BY <2>3, <4>1
    <3>3. CASE l < m
      BY <1>0, <1>1, <2>1, <2>3, <3>3 DEF IInv, RecordedInv
    <3> QED BY <1>0, <2>1, <3>1, <3>2, <3>3
  <2> QED BY <2>2, <2>3
<1>9. CurrentInv'
  <2> SUFFICES ASSUME NEW t \in Session, pc'[t] \in InCall, NEW l \in Log,
                      NEW i \in 1..Len(trail[l]), trail[l][i].call = event[t].call
               PROVE  /\ trail[l][i] = event[t]
                      /\ pc'[t] = "stored" => l <= at'[t]
                      /\ pc'[t] = "record" => l < at'[t]
    BY DEF Acknowledge, CurrentInv
  <2>1. CASE t # s
    BY <1>2, <2>1 DEF IInv, CurrentInv
  <2>2. CASE t = s
    <3>1. trail[l][i] = e /\ l <= m
      BY <1>0, <2>2 DEF IInv, CurrentInv
    <3> QED BY <1>0, <1>3, <2>2, <3>1
  <2> QED BY <2>1, <2>2
<1>10. EndedInv' /\ ReleasedInv' /\ AheadInv'
  <2>1. Reliable \subseteq Log /\ ended' = ended /\ released' = released /\ trail' = trail
    BY DEF Reliable, Acknowledge
  <2>2. EndedInv'
    BY <1>1, <2>1 DEF IInv, EndedInv
  <2>3. ReleasedInv'
    BY <1>1, <2>1 DEF IInv, ReleasedInv
  <2>4. AheadInv'
    BY <1>1, <2>1 DEF IInv, AheadInv
  <2> QED BY <2>2, <2>3, <2>4
<1>11. Reliable \subseteq Log
  BY DEF Reliable
<1> QED BY <1>1, <1>5, <1>6, <1>7, <1>8, <1>9, <1>10, <1>11 DEF IInv

\* Once recorded, an event is accepted by every log the call has.
LEMMA RecordedEverywhere ==
    ASSUME IInv, NEW s \in Session, pc[s] \in {"recorded", "printing"}
    PROVE  /\ event[s] \in Event
           /\ event[s].call \in Call
           /\ event[s].call[1] = s
           /\ event[s].action \in Action
           /\ event[s].count \in 0..BatchSize
           /\ \A l \in Reliable \intersect LogsOf(event[s].call[1]) : event[s] \in Accepted(l)
<1>1. pc[s] \in InCall /\ pc[s] \notin Recording
  BY DEF InCall, Recording
<1>2. event[s] \in Event /\ event[s].call[1] = s
  BY <1>1 DEF IInv, CallInv
<1>3. \A l \in Reliable \intersect LogsOf(s) : event[s] \in Accepted(l)
  BY <1>1 DEF IInv, RecordedInv
<1> QED BY <1>2, <1>3 DEF Event

\* A call returns its values, or starts to print them.
LEMMA ReturnStep ==
    ASSUME IInv, NEW s \in Session, Return(s)
    PROVE  IInv'
<1> DEFINE e == event[s]
<1>1. /\ e \in Event /\ e.call \in Call /\ e.action \in Action /\ e.count \in 0..BatchSize
      /\ e.outcome = "allowed"
      /\ \A l \in Reliable \intersect LogsOf(e.call[1]) : e \in Accepted(l)
  BY RecordedEverywhere DEF Return
<1>2. \A l : Accepted(l)' = Accepted(l)
  BY AcceptedUnchanged DEF Return
<1>3. /\ \A t \in Session : pc'[t] \in InCall =>
            /\ pc[t] \in InCall /\ event'[t] = event[t] /\ at'[t] = at[t]
            /\ pc'[t] \in Recording <=> pc[t] \in Recording
            /\ pc'[t] = "stored" <=> pc[t] = "stored"
            /\ pc'[t] = "record" <=> pc[t] = "record"
      /\ \A t \in Session \ {s} : pc'[t] = pc[t] /\ event'[t] = event[t] /\ at'[t] = at[t]
      /\ pc'[s] = "printing" => s \in Cli /\ event'[s] = e
      /\ at'[s] \in {at[s], 1}
  BY DEF IInv, ReleaseTypeOK, Return, Done, InCall, Recording
<1>4. ReleaseTypeOK'
  <2>1. ended' \subseteq Call \X Action
    <3>1. <<e.call, e.action>> \in Call \X Action
      BY <1>1
    <3> QED BY <3>1 DEF IInv, ReleaseTypeOK, Return
  <2>2. 1 \in Log
    BY LogsAssumption DEF Log
  <2>3. /\ pc' \in [Session -> {"out", "recorded", "printing"} \union Waiting \union Recording]
        /\ event' \in [Session -> Event \union {NoEvent}]
        /\ at' \in [Session -> Log]
        /\ released' \in [Call -> 0..BatchSize]
    BY <1>1, <2>2 DEF IInv, Return, Done, ReleaseTypeOK, Waiting
  <2> QED BY <2>1, <2>3 DEF IInv, ReleaseTypeOK, Return
<1>5. CallInv'
  BY <1>1, <1>3 DEF IInv, CallInv, Return
<1>6. RecordedInv'
  BY <1>2, <1>3 DEF IInv, RecordedInv
<1>7. CurrentInv'
  BY <1>3 DEF IInv, CurrentInv, Return
<1>8. HistoryInv' /\ AheadInv' /\ OneEventPerCall'
  BY <1>2 DEF IInv, Return, HistoryInv, AheadInv, OneEventPerCall
<1>9. EndedInv'
  <2> SUFFICES ASSUME NEW c \in Call, <<c, "view">> \in ended',
                      NEW l \in Reliable \intersect LogsOf(c[1])
               PROVE  \E x \in Accepted(l) : x.call = c
    BY <1>2 DEF EndedInv
  <2>1. CASE <<c, "view">> \in ended
    BY <2>1 DEF IInv, EndedInv
  <2>2. CASE c = e.call
    BY <1>1, <2>2
  <2> QED BY <2>1, <2>2 DEF Return
<1>10. ReleasedInv'
  <2> SUFFICES ASSUME NEW c \in Call, released'[c] > 0, NEW l \in Reliable \intersect LogsOf(c[1])
               PROVE  \E x \in Accepted(l) :
                          x.call = c /\ x.outcome = "allowed" /\ x.count >= released'[c]
    BY <1>2 DEF ReleasedInv
  <2>1. CASE released'[c] = released[c]
    BY <2>1 DEF IInv, ReleasedInv
  <2>2. CASE c = e.call /\ released'[c] = e.count
    BY <1>1, <2>2
  <2> QED BY <2>1, <2>2 DEF IInv, ReleaseTypeOK, Return
<1> QED BY <1>4, <1>5, <1>6, <1>7, <1>8, <1>9, <1>10 DEF IInv

\* A call that was refused or failed raises, on record.
LEMMA RaiseStep ==
    ASSUME IInv, NEW s \in Session, Raise(s)
    PROVE  IInv'
<1> DEFINE e == event[s]
<1>1. /\ e.call \in Call /\ e.action \in Action
      /\ \A l \in Reliable \intersect LogsOf(e.call[1]) : e \in Accepted(l)
  BY RecordedEverywhere DEF Raise
<1>2. \A l : Accepted(l)' = Accepted(l)
  BY AcceptedUnchanged DEF Raise
<1>3. /\ \A t \in Session : pc'[t] \in InCall =>
            pc'[t] = pc[t] /\ event'[t] = event[t] /\ at'[t] = at[t]
      /\ \A t \in Session : at'[t] \in {at[t], 1}
  BY DEF IInv, ReleaseTypeOK, Raise, DoneRaising, Done, InCall, Recording
<1>4. ReleaseTypeOK'
  <2>1. ended' \subseteq Call \X Action
    <3>1. <<e.call, e.action>> \in Call \X Action
      BY <1>1
    <3> QED BY <3>1 DEF IInv, ReleaseTypeOK, Raise
  <2>2. 1 \in Log
    BY LogsAssumption DEF Log
  <2>3. /\ pc' \in [Session -> {"out", "recorded", "printing"} \union Waiting \union Recording]
        /\ event' \in [Session -> Event \union {NoEvent}]
        /\ at' \in [Session -> Log]
    BY <2>2 DEF IInv, Raise, DoneRaising, Done, ReleaseTypeOK, Waiting
  <2> QED BY <2>1, <2>3 DEF IInv, ReleaseTypeOK, Raise
<1>5. CallInv'
  <2>1. \A t \in Session : pc'[t] = "printing" => pc'[t] \in InCall
    BY DEF InCall
  <2> QED BY <1>3, <2>1 DEF IInv, CallInv, Raise
<1>6. RecordedInv' /\ CurrentInv'
  BY <1>2, <1>3 DEF IInv, RecordedInv, CurrentInv, Raise
<1>7. HistoryInv' /\ ReleasedInv' /\ AheadInv' /\ OneEventPerCall'
  BY <1>2 DEF IInv, Raise, HistoryInv, ReleasedInv, AheadInv, OneEventPerCall
<1>8. EndedInv'
  <2> SUFFICES ASSUME NEW c \in Call, <<c, "view">> \in ended',
                      NEW l \in Reliable \intersect LogsOf(c[1])
               PROVE  \E x \in Accepted(l) : x.call = c
    BY <1>2 DEF EndedInv
  <2>1. CASE <<c, "view">> \in ended
    BY <2>1 DEF IInv, EndedInv
  <2>2. CASE c = e.call
    BY <1>1, <2>2
  <2> QED BY <2>1, <2>2 DEF Raise
<1> QED BY <1>4, <1>5, <1>6, <1>7, <1>8 DEF IInv

\* One more value is printed, of those its event counts.
LEMMA PrintStep ==
    ASSUME IInv, NEW s \in Session, PrintValue(s)
    PROVE  IInv'
<1> DEFINE e == event[s]
<1>1. /\ e \in Event /\ e.call \in Call /\ e.count \in 0..BatchSize /\ e.outcome = "allowed"
      /\ \A l \in Reliable \intersect LogsOf(e.call[1]) : e \in Accepted(l)
  BY RecordedEverywhere DEF IInv, CallInv, PrintValue
<1>2. \A l : Accepted(l)' = Accepted(l)
  BY AcceptedUnchanged DEF PrintValue
<1>3. /\ released[e.call] \in 0..BatchSize /\ released[e.call] < e.count
      /\ released' = [released EXCEPT ![e.call] = released[e.call] + 1]
  BY <1>1 DEF IInv, ReleaseTypeOK, PrintValue
<1>4. ReleaseTypeOK'
  <2>1. released[e.call] + 1 \in 0..BatchSize
    BY <1>1, <1>3, BoundsAssumption
  <2> QED BY <1>1, <1>3, <2>1 DEF IInv, ReleaseTypeOK, PrintValue
<1>5. CallInv' /\ HistoryInv' /\ RecordedInv' /\ CurrentInv' /\ EndedInv' /\ AheadInv'
      /\ OneEventPerCall'
  BY <1>2 DEF IInv, PrintValue, CallInv, HistoryInv, RecordedInv, CurrentInv, EndedInv, AheadInv,
              OneEventPerCall
<1>6. ReleasedInv'
  <2> SUFFICES ASSUME NEW c \in Call, released'[c] > 0, NEW l \in Reliable \intersect LogsOf(c[1])
               PROVE  \E x \in Accepted(l) :
                          x.call = c /\ x.outcome = "allowed" /\ x.count >= released'[c]
    BY <1>2 DEF ReleasedInv
  <2>1. CASE c # e.call
    BY <1>3, <2>1 DEF IInv, ReleaseTypeOK, ReleasedInv
  <2>2. CASE c = e.call
    <3>1. released'[c] = released[c] + 1 /\ e.count >= released'[c]
      BY <1>1, <1>3, <2>2, BoundsAssumption DEF IInv, ReleaseTypeOK
    <3> QED BY <1>1, <2>2, <3>1
  <2> QED BY <2>1, <2>2
<1> QED BY <1>4, <1>5, <1>6 DEF IInv

\* A power cut takes no accepted event from a reliable log.
LEMMA ForgetStep ==
    ASSUME IInv, NEW m \in Log, Forget(m)
    PROVE  /\ IInv'
           /\ \A l \in Reliable : Accepted(l) \subseteq Accepted(l)'
<1> PICK n \in 0..(Len(trail[m]) - 1) :
        /\ \A i \in n+1..Len(trail[m]) : trail[m][i] \notin acked[m] \/ m \in Lossy
        /\ trail' = [trail EXCEPT ![m] = SubSeq(@, 1, n)]
  BY DEF Forget
<1>1. /\ trail' \in [Log -> Seq(Event)]
      /\ \A k \in Log : Len(trail[k]) \in Nat
      /\ \A k \in Log \ {m} : trail'[k] = trail[k]
      /\ Len(trail'[m]) = n
      /\ \A i \in 1..n : i \in 1..Len(trail[m]) /\ trail'[m][i] = trail[m][i]
  BY CutEffect DEF IInv
<1>2. \A l \in Log : \A i \in 1..Len(trail'[l]) : i \in 1..Len(trail[l]) /\ trail'[l][i] = trail[l][i]
  BY <1>1
<1>3. \A l \in Reliable : Accepted(l) \subseteq Accepted(l)'
  <2> SUFFICES ASSUME NEW l \in Reliable, NEW x \in Accepted(l)
               PROVE  x \in Accepted(l)'
    OBVIOUS
  <2>1. l \in Log /\ l \notin Lossy
    BY DEF Reliable
  <2>2. PICK i \in 1..Len(trail[l]) : trail[l][i] = x
    BY DEF Accepted, InTrail
  <2>3. x \in acked[l]
    BY DEF Accepted
  <2>4. i \in 1..Len(trail'[l]) /\ trail'[l][i] = x
    <3>1. CASE l = m
      <4>1. i \in Nat /\ Len(trail[m]) \in Nat /\ ~(i \in n+1..Len(trail[m]))
        BY <1>1, <2>1, <2>2, <2>3, <3>1
      <4> QED BY <1>1, <2>2, <3>1, <4>1
    <3>2. CASE l # m
      BY <1>1, <2>1, <2>2, <3>2
    <3> QED BY <3>1, <3>2
  <2> QED BY <2>3, <2>4 DEF Forget, Accepted, InTrail
<1>4. ReleaseTypeOK' /\ CallInv'
  BY <1>1 DEF IInv, Forget, ReleaseTypeOK, CallInv
<1>5. HistoryInv' /\ CurrentInv'
  BY <1>2 DEF IInv, Forget, HistoryInv, CurrentInv
<1>6. RecordedInv'
  BY <1>3 DEF IInv, Forget, RecordedInv
<1>7. EndedInv'
  BY <1>3 DEF IInv, Forget, EndedInv
<1>8. ReleasedInv'
  BY <1>3 DEF IInv, Forget, ReleasedInv
<1>9. AheadInv'
  BY <1>2, <1>3 DEF IInv, AheadInv
<1>10. OneEventPerCall'
  <2> SUFFICES ASSUME NEW l \in Log, NEW k \in Log, NEW i \in 1..Len(trail'[l]),
                      NEW j \in 1..Len(trail'[k]), trail'[l][i].call = trail'[k][j].call
               PROVE  trail'[l][i] = trail'[k][j] /\ (l = k => i = j)
    BY DEF OneEventPerCall
  <2> QED BY <1>2 DEF IInv, OneEventPerCall
<1> QED BY <1>3, <1>4, <1>5, <1>6, <1>7, <1>8, <1>9, <1>10 DEF IInv

\* The initial state satisfies the invariant.
LEMMA InitInvariant == Init => IInv
<1> SUFFICES ASSUME Init PROVE IInv
  OBVIOUS
<1>1. /\ 1 \in Log
      /\ \A l \in Log : trail[l] = <<>> /\ Len(trail[l]) = 0 /\ trail[l] \in Seq(Event)
      /\ 0 \in 0..MaxCalls /\ 0 \in 0..BatchSize
  BY LogsAssumption, BoundsAssumption, EmptySeq DEF Init, Log
<1>2. ReleaseTypeOK
  BY <1>1 DEF Init, ReleaseTypeOK
<1>3. CallInv /\ RecordedInv /\ CurrentInv
  BY CliAssumption DEF Init, CallInv, RecordedInv, CurrentInv, InCall, Recording
<1>4. HistoryInv /\ AheadInv /\ OneEventPerCall
  BY <1>1 DEF HistoryInv, AheadInv, OneEventPerCall
<1>5. EndedInv /\ ReleasedInv
  BY DEF Init, EndedInv, ReleasedInv
<1> QED BY <1>2, <1>3, <1>4, <1>5 DEF IInv

\* Every call, every failure and every power cut preserves the invariant, and
\* takes nothing accepted from a reliable log.
LEMMA StepInvariant ==
    ASSUME IInv, [Next]_vars
    PROVE  /\ IInv'
           /\ \A l \in Reliable : Accepted(l) \subseteq Accepted(l)'
<1>1. CASE UNCHANGED vars
  <2>1. \A l : Accepted(l)' = Accepted(l)
    BY <1>1, AcceptedUnchanged DEF vars
  <2>2. ReleaseTypeOK' /\ CallInv' /\ HistoryInv' /\ OneEventPerCall'
    BY <1>1 DEF vars, IInv, ReleaseTypeOK, CallInv, HistoryInv, OneEventPerCall
  <2>3. RecordedInv' /\ CurrentInv' /\ EndedInv' /\ ReleasedInv' /\ AheadInv'
    BY <1>1, <2>1 DEF vars, IInv, RecordedInv, CurrentInv, EndedInv, ReleasedInv, AheadInv
  <2> QED BY <2>1, <2>2, <2>3 DEF IInv
<1>2. ASSUME NEW s \in Session, NEW a \in Action, NEW o \in Outcome, NEW n \in 0..BatchSize,
             NextCall(s), Conclude(s, a, o, n)
      PROVE  IInv'
  <2> DEFINE e == [call |-> <<s, calls + 1>>, action |-> a, outcome |-> o, count |-> n]
  <2>1. calls + 1 \in 1..MaxCalls
    BY <1>2, BoundsAssumption DEF IInv, ReleaseTypeOK, NextCall
  <2>2. <<s, calls + 1>> \in Call
    BY <2>1 DEF Call
  <2>3. e \in Event
    BY <2>2 DEF Event
  <2>4. e.call = <<s, calls + 1>>
    OBVIOUS
  <2>5. /\ event' = [event EXCEPT ![s] = e] /\ at' = [at EXCEPT ![s] = 1]
        /\ pc' = [pc EXCEPT ![s] = "record"] /\ ended' = ended
    BY <1>2 DEF Conclude
  <2> HIDE DEF e
  <2> QED BY <1>2, <2>3, <2>4, <2>5, BeginStep
<1>3. ASSUME NEW s \in Session,
             DetokenizeAllowed(s) \/ DetokenizeDenied(s) \/ DetokenizeInvalid(s) \/ View(s)
                \/ ViewFails(s)
      PROVE  IInv'
  <2>1. 0 \in 0..BatchSize
    BY BoundsAssumption
  <2>2. {"allowed", "denied", "error"} \subseteq Outcome /\ {"view", "detokenize"} \subseteq Action
    BY DEF Outcome, Action
  <2> QED BY <1>2, <1>3, <2>1, <2>2
       DEF DetokenizeAllowed, DetokenizeDenied, DetokenizeInvalid, View, ViewFails
<1>4. ASSUME NEW s \in Session, Exit(s) \/ RecordRaises(s) \/ NextBatch(s)
      PROVE  IInv'
  <2>1. may \in [Session -> BOOLEAN] /\ may' \in [Session -> BOOLEAN]
    BY <1>4 DEF IInv, ReleaseTypeOK, Exit, RecordRaises, NextBatch
  <2> QED BY <1>4, <2>1, DoneStep DEF Exit, RecordRaises, DoneRaising, NextBatch
<1>5. ASSUME NEW s \in Session,
             \/ Start(s) \/ Exit(s) \/ DetokenizeAllowed(s) \/ DetokenizeDenied(s)
             \/ DetokenizeInvalid(s) \/ DetokenizeFaults(s) \/ View(s) \/ ViewFails(s)
             \/ RecordRaises(s) \/ Return(s) \/ Raise(s) \/ PrintValue(s) \/ NextBatch(s)
      PROVE  /\ IInv'
             /\ \A l \in Reliable : Accepted(l) \subseteq Accepted(l)'
  <2>1. trail' = trail /\ acked' = acked
    BY <1>5 DEF Start, Exit, DetokenizeAllowed, DetokenizeDenied, DetokenizeInvalid, DetokenizeFaults,
        View, ViewFails, RecordRaises, Return, Raise, PrintValue, NextBatch, NextCall
  <2>2. \A l : Accepted(l)' = Accepted(l)
    BY <2>1, AcceptedUnchanged
  <2> QED BY <1>3, <1>4, <1>5, <2>2, StartStep, FaultsStep, ReturnStep, RaiseStep, PrintStep
<1> QED BY <1>1, <1>5, StoreStep, AcknowledgeStep, ForgetStep DEF Next

-----------------------------------------------------------------------------
(* The theorems. *)

\* The inductive invariant.
THEOREM Invariance == Spec => []IInv
<1>1. Init => IInv
  BY InitInvariant
<1>2. IInv /\ [Next]_vars => IInv'
  BY StepInvariant
<1> QED BY <1>1, <1>2, PTL DEF Spec

\* The model's state always has its type.
THEOREM TypeCorrect == Spec => []ReleaseTypeOK
<1>1. IInv => ReleaseTypeOK
  BY DEF IInv
<1> QED BY <1>1, Invariance, PTL

\* policy.py, cli.py: plaintext and views leave colgov only when every reliable
\* log has accepted, and still has, an "allowed" event of that call that counts
\* at least as many values.
THEOREM ReleaseIsOnRecord == Spec => []ReleasedIsRecorded
<1>1. IInv => ReleasedIsRecorded
  <2> SUFFICES ASSUME IInv, NEW c \in Call, released[c] > 0, NEW l \in Reliable \intersect LogsOf(c[1])
               PROVE  \E i \in 1..Len(trail[l]) :
                          /\ trail[l][i] \in acked[l]
                          /\ trail[l][i].call = c
                          /\ trail[l][i].outcome = "allowed"
                          /\ trail[l][i].count >= released[c]
    BY DEF ReleasedIsRecorded
  <2>1. PICK e \in Accepted(l) : e.call = c /\ e.outcome = "allowed" /\ e.count >= released[c]
    BY DEF IInv, ReleasedInv
  <2>2. PICK i \in 1..Len(trail[l]) : trail[l][i] = e
    BY DEF Accepted, InTrail
  <2>3. e \in acked[l]
    BY DEF Accepted
  <2> QED BY <2>1, <2>2, <2>3
<1> QED BY <1>1, Invariance, PTL

\* MultiAuditLog.record: whatever a later log holds, every reliable log before it
\* has accepted and still holds.
THEOREM LogsAgree == Spec => []LaterLogsNeverAhead
<1>1. IInv => LaterLogsNeverAhead
  BY DEF IInv, AheadInv, Accepted, LaterLogsNeverAhead
<1> QED BY <1>1, Invariance, PTL

\* No call is on record twice, or with two outcomes, in any of the logs.
THEOREM CallsAreOneEvent == Spec => []OneEventPerCall
<1>1. IInv => OneEventPerCall
  BY DEF IInv
<1> QED BY <1>1, Invariance, PTL

\* policy.py, apply(): a view that was built, or failed, is on record unless a
\* log raised or the process died.
THEOREM ViewsRecorded == Spec => []ViewsAreOnRecord
<1>1. IInv => ViewsAreOnRecord
  <2> SUFFICES ASSUME IInv, NEW c \in Call, <<c, "view">> \in ended,
                      NEW l \in Reliable \intersect LogsOf(c[1])
               PROVE  \E i \in 1..Len(trail[l]) : trail[l][i].call = c
    BY DEF ViewsAreOnRecord, OnRecord
  <2>1. PICK e \in Accepted(l) : e.call = c
    BY DEF IInv, EndedInv
  <2> QED BY <2>1 DEF Accepted, InTrail
<1> QED BY <1>1, Invariance, PTL

\* An event that a reliable log has accepted stays there, whatever fails later.
THEOREM AcceptedStays ==
    Spec => [][\A l \in Reliable : Accepted(l) \subseteq Accepted(l)']_vars
<1>1. IInv /\ [Next]_vars => [\A l \in Reliable : Accepted(l) \subseteq Accepted(l)']_vars
  BY StepInvariant
<1> QED BY <1>1, Invariance, PTL DEF Spec

-----------------------------------------------------------------------------
(* The refinement of the abstract trail. *)

\* Log l on its own.
Trail(l) == INSTANCE AuditTrail WITH Event <- Event, trail <- trail[l], acked <- acked[l]

\* A log that a step leaves alone.
LEMMA LogStutters ==
    ASSUME NEW l \in Log, trail'[l] = trail[l], acked'[l] = acked[l]
    PROVE  UNCHANGED Trail(l)!trailVars
BY DEF Trail!trailVars

\* Every reliable log is used as an audit log promises to be used (audit.py:83-88):
\* no event is stored in it twice, and none is accepted that it does not hold.
\* AuditLogProofs shows that JsonlAuditLog implements the same trail.
THEOREM LogsAreTrails == ASSUME NEW l \in Reliable PROVE Spec => Trail(l)!TrailSpec
<1>0. l \in Log /\ l \notin Lossy
  BY DEF Reliable
<1>1. Init => Trail(l)!TrailInit
  BY <1>0 DEF Init, Trail!TrailInit
<1>2. IInv /\ [Next]_vars => [Trail(l)!TrailNext]_(Trail(l)!trailVars)
  <2> SUFFICES ASSUME IInv, [Next]_vars
               PROVE  Trail(l)!TrailNext \/ UNCHANGED Trail(l)!trailVars
    OBVIOUS
  <2>1. trail \in [Log -> Seq(Event)] /\ acked \in [Log -> SUBSET Event]
    BY DEF IInv, ReleaseTypeOK
  <2>2. ASSUME NEW s \in Session, Store(s)
        PROVE  Trail(l)!TrailNext \/ UNCHANGED Trail(l)!trailVars
    <3>1. event[s] \in Event
      BY <2>2 DEF IInv, CallInv, Store, InCall, Recording
    <3>2. CASE l # at[s] \/ trail' = trail
      BY <1>0, <2>1, <2>2, <3>2, LogStutters DEF Store
    <3>3. CASE l = at[s] /\ trail' = [trail EXCEPT ![at[s]] = Append(@, event[s])]
      <4>1. \A i \in 1..Len(trail[l]) : trail[l][i] # event[s]
        <5> SUFFICES ASSUME NEW i \in 1..Len(trail[l]), trail[l][i] = event[s] PROVE FALSE
          OBVIOUS
        <5>1. pc[s] = "record" /\ pc[s] \in InCall
          BY <2>2 DEF Store, InCall, Recording
        <5>2. l < l
          BY <1>0, <3>3, <5>1 DEF IInv, CurrentInv
        <5> QED BY <1>0, <5>2, LogsAssumption DEF Log
      <4>2. trail'[l] = Append(trail[l], event[s]) /\ acked'[l] = acked[l]
        BY <1>0, <2>1, <2>2, <3>3 DEF Store
      <4>3. Trail(l)!Store(event[s])
        BY <4>1, <4>2 DEF Trail!Store, Trail!InTrail
      <4> QED BY <3>1, <4>3 DEF Trail!TrailNext
    <3> QED BY <2>2, <3>2, <3>3 DEF Store
  <2>3. ASSUME NEW s \in Session, Acknowledge(s)
        PROVE  Trail(l)!TrailNext \/ UNCHANGED Trail(l)!trailVars
    <3>1. event[s] \in Event
      BY <2>3 DEF IInv, CallInv, Acknowledge, InCall, Recording
    <3>2. CASE l # at[s]
      BY <1>0, <2>1, <2>3, <3>2, LogStutters DEF Acknowledge
    <3>3. CASE l = at[s]
      <4>1. InTrail(l, event[s])
        BY <1>0, <2>3, <3>3 DEF Acknowledge
      <4>2. trail'[l] = trail[l] /\ acked'[l] = acked[l] \union {event[s]}
        BY <1>0, <2>1, <2>3, <3>3 DEF Acknowledge
      <4>3. Trail(l)!Acknowledge(event[s])
        BY <4>1, <4>2 DEF InTrail, Trail!Acknowledge, Trail!InTrail
      <4> QED BY <3>1, <4>3 DEF Trail!TrailNext
    <3> QED BY <3>2, <3>3
  <2>4. ASSUME NEW m \in Log, Forget(m)
        PROVE  Trail(l)!TrailNext \/ UNCHANGED Trail(l)!trailVars
    <3>1. CASE l # m
      BY <1>0, <2>1, <2>4, <3>1, LogStutters DEF Forget
    <3>2. CASE l = m
      <4>1. PICK n \in 0..(Len(trail[l]) - 1) :
              /\ \A i \in n+1..Len(trail[l]) : trail[l][i] \notin acked[l]
              /\ trail' = [trail EXCEPT ![l] = SubSeq(@, 1, n)]
        BY <1>0, <2>4, <3>2 DEF Forget
      <4>2. trail'[l] = SubSeq(trail[l], 1, n) /\ acked'[l] = acked[l]
        BY <1>0, <2>1, <2>4, <4>1 DEF Forget
      <4>3. Trail(l)!Forget(n)
        BY <4>1, <4>2 DEF Trail!Forget
      <4>4. n \in 0..Len(trail[l])
        BY <1>0, EventsInLogs DEF IInv
      <4> QED BY <4>3, <4>4 DEF Trail!TrailNext
    <3> QED BY <3>1, <3>2
  <2>5. ASSUME trail' = trail, acked' = acked
        PROVE  UNCHANGED Trail(l)!trailVars
    BY <1>0, <2>5, LogStutters
  <2>6. CASE UNCHANGED vars
    BY <2>5, <2>6 DEF vars
  <2>7. ASSUME NEW s \in Session,
               \/ Start(s) \/ Exit(s) \/ DetokenizeAllowed(s) \/ DetokenizeDenied(s)
               \/ DetokenizeInvalid(s) \/ DetokenizeFaults(s) \/ View(s) \/ ViewFails(s)
               \/ RecordRaises(s) \/ Return(s) \/ Raise(s) \/ PrintValue(s) \/ NextBatch(s)
        PROVE  trail' = trail /\ acked' = acked
    BY <2>7 DEF Start, Exit, DetokenizeAllowed, DetokenizeDenied, DetokenizeInvalid, DetokenizeFaults,
        View, ViewFails, RecordRaises, Return, Raise, PrintValue, NextBatch, NextCall
  <2> QED BY <2>2, <2>3, <2>4, <2>5, <2>6, <2>7 DEF Next
<1> QED BY <1>1, <1>2, Invariance, PTL DEF Spec, Trail!TrailSpec
=============================================================================
