-------------------------- MODULE CheckpointProofs --------------------------
(***************************************************************************)
(* Theorems about checkpoints of an audit log, for any number of writers,  *)
(* savers and destinations.  Nothing is assumed of the log here: its disk  *)
(* may fail and its platform may have no flock.                            *)
(***************************************************************************)
EXTENDS Checkpoint, AuditLogProofs

-----------------------------------------------------------------------------
(* The inductive invariant of the savers. *)

\* Whose document the destination holds: a saver that created the local file,
\* or was told that its put stored the object.
Owns(s) == stage[s] \in {"created", "written", "saved"} \/ answer[s] = "stored"

\* Local files and puts do not mix, and the client counts its puts.
RouteInv == \A s \in Saver :
    /\ stage[s] \in {"created", "written"} => target[s] \in LocalFile
    /\ stage[s] = "sent" \/ wire[s] # {} \/ answer[s] # "none" => target[s] \in Object
    /\ stage[s] \in {"start", "verified"} => attempt[s] = 0 /\ answer[s] = "none"

\* A destination has one owner at most, and holds what its owner put there.
OwnerInv == \A s \in Saver : Owns(s) =>
    /\ store[target[s]] = IF stage[s] = "created" THEN Torn ELSE taken[s]
    /\ stage[s] = "saved" \/ answer[s] = "stored" => target[s] \in firm
    /\ stage[s] \in {"created", "written"} => target[s] \notin firm
    /\ \A r \in Saver \ {s} : Owns(r) => target[r] # target[s]

\* What no power cut can change is a whole checkpoint.
FirmInv == \A d \in firm : Loads(d)

SaverInv ==
    /\ CheckpointTypeOK
    /\ RouteInv
    /\ OwnerInv
    /\ FirmInv

-----------------------------------------------------------------------------
(* What the operators that read a log and a checkpoint return. *)

\* The log as audit_state reads it.
LEMMA AllLinesType ==
    ASSUME LogInv
    PROVE  /\ AllLines \in Seq(Line)
           /\ Len(AllLines) \in Nat
           /\ HashesCommit(AllLines)
<1>1. lines \in Seq(Line) /\ tail.of \in Line
  BY DEF LogInv, TypeOK, Line
<1>2. HashesCommit(lines)
  BY DEF LogInv
<1>3. Append(lines, tail.of) \in Seq(Line) /\ HashesCommit(Append(lines, tail.of))
  BY <1>1, <1>2, HashesExtend, AppendProperties
<1>4. AllLines \in Seq(Line) /\ HashesCommit(AllLines)
  BY <1>1, <1>2, <1>3 DEF AllLines
<1> QED BY <1>4, LenProperties

\* A checkpoint's hash is the sequence of the events that the log holds.
LEMMA VerifiedState ==
    ASSUME LogInv, Verifies
    PROVE  /\ AuditState \in Checkpoint
           /\ AuditState.count = Len(AllLines)
           /\ AuditState.hash = EventsOf(AllLines)
<1> DEFINE n == Len(AllLines)
<1>1. AllLines \in Seq(Line) /\ n \in Nat /\ HashesCommit(AllLines)
  BY AllLinesType
<1>2. \A i \in 1..n : LinkOK(AllLines, i)
  BY DEF Verifies
<1>3. HashAfter(AllLines) \in Seq(Event) /\ HashAfter(AllLines) = EventsOf(AllLines)
  <2>1. EventsOf(AllLines) \in Seq(Event) /\ Len(EventsOf(AllLines)) = n
    BY <1>1, <1>2, EventsOfType DEF Line
  <2>2. HashAfter(AllLines) = EventsOf(AllLines)
    <3>1. CASE AllLines = <<>>
      <4>1. Len(EventsOf(AllLines)) = 0
        BY <2>1, <3>1, EmptySeq
      <4> QED BY <2>1, <3>1, <4>1, EmptySeq DEF HashAfter, Genesis
    <3>2. CASE AllLines # <<>>
      <4>1. n \in 1..n
        BY <1>1, <3>2, EmptySeq
      <4>2. AllLines[n].hash = [j \in 1..n |-> AllLines[j].event]
        BY <1>1, <1>2, <4>1 DEF HashesCommit
      <4> QED BY <3>2, <4>2 DEF HashAfter, EventsOf
    <3> QED BY <3>1, <3>2
  <2> QED BY <2>1, <2>2
<1>4. AuditState = [count |-> n, hash |-> HashAfter(AllLines)]
  BY DEF AuditState
<1> HIDE DEF n
<1>5. AuditState \in Checkpoint /\ AuditState.count = n /\ AuditState.hash = EventsOf(AllLines)
  BY <1>1, <1>3, <1>4 DEF Checkpoint
<1> QED BY <1>5 DEF n

-----------------------------------------------------------------------------
(* Every step of a saver preserves its invariant. *)

\* A document is not an absent file, and not a torn one.
LEMMA DocumentLoads ==
    ASSUME CheckpointTypeOK, NEW s \in Saver
    PROVE  taken[s] \in Checkpoint /\ taken[s] # Absent /\ taken[s] # Torn
BY ContentAssumption DEF CheckpointTypeOK

\* The destinations of a saver's steps.
LEMMA TargetType ==
    ASSUME CheckpointTypeOK, NEW s \in Saver
    PROVE  /\ target[s] \in Destination
           /\ target[s] \in LocalFile <=> target[s] \notin Object
BY DestinationAssumption DEF CheckpointTypeOK, Destination

\* Nothing is stored before the log was verified, nor by a step that fails.
LEMMA QuietStep ==
    ASSUME LogInv, SaverInv, NEW s \in Saver,
           \/ VerifyLog(s) \/ VerifyLogFails(s) \/ SyncDocumentFails(s)
           \/ PutFails(s) \/ PutReturns(s) \/ Kill(s)
    PROVE  SaverInv'
<1>1. taken'[s] \in Checkpoint
  BY VerifiedState DEF SaverInv, CheckpointTypeOK, VerifyLog, VerifyLogFails, SyncDocumentFails,
                       PutFails, PutReturns, Kill
<1>2. CheckpointTypeOK'
  BY <1>1 DEF SaverInv, CheckpointTypeOK, VerifyLog, VerifyLogFails, SyncDocumentFails, PutFails,
              PutReturns, Kill, Stage, Finished
<1>3. UNCHANGED <<target, store, firm, attempt, wire, answer>>
  BY DEF VerifyLog, VerifyLogFails, SyncDocumentFails, PutFails, PutReturns, Kill
<1>4. \A r \in Saver : r # s => stage'[r] = stage[r] /\ taken'[r] = taken[r]
  BY DEF SaverInv, CheckpointTypeOK, VerifyLog, VerifyLogFails, SyncDocumentFails,
         PutFails, PutReturns, Kill
<1>5. /\ stage'[s] \notin {"start", "created", "written", "sent"}
      /\ stage'[s] = "verified" => stage[s] = "start"
      /\ stage'[s] = "saved" => answer[s] = "stored"
  BY DEF SaverInv, CheckpointTypeOK, VerifyLog, VerifyLogFails, SyncDocumentFails,
         PutFails, PutReturns, Kill, Finished
<1>6. RouteInv'
  BY <1>3, <1>4, <1>5 DEF SaverInv, RouteInv
<1>7. \A r \in Saver : Owns(r)' => Owns(r)
  BY <1>3, <1>4, <1>5 DEF Owns
<1>8. Owns(s)' => taken'[s] = taken[s]
  BY <1>3, <1>5 DEF Owns, VerifyLog, VerifyLogFails, SyncDocumentFails, PutFails, PutReturns, Kill,
     SaverInv, RouteInv
<1>9. OwnerInv'
  BY <1>3, <1>4, <1>5, <1>7, <1>8 DEF SaverInv, OwnerInv, Owns
<1>10. FirmInv'
  BY <1>3 DEF SaverInv, FirmInv, Loads
<1> QED BY <1>2, <1>6, <1>9, <1>10 DEF SaverInv

\* Creating a local file finds it absent, so nobody owns it.
LEMMA CreateStep ==
    ASSUME SaverInv, NEW s \in Saver, Create(s)
    PROVE  SaverInv'
<1>1. target[s] \in Destination /\ target[s] \in LocalFile /\ target[s] \notin Object
  BY TargetType DEF SaverInv, Create
<1>2. UNCHANGED <<target, taken, firm, attempt, wire, answer>> /\ stage[s] = "verified"
  BY DEF Create
<1>3. CASE store[target[s]] # Absent
  <2>1. stage' = [stage EXCEPT ![s] = "failed"] /\ store' = store
    BY <1>3 DEF Create
  <2>2. CheckpointTypeOK'
    BY <1>2, <2>1 DEF SaverInv, CheckpointTypeOK, Stage, Finished
  <2>3. stage'[s] = "failed" /\ \A r \in Saver : r # s => stage'[r] = stage[r]
    BY <2>1 DEF SaverInv, CheckpointTypeOK
  <2>4. RouteInv'
    BY <1>2, <2>3 DEF SaverInv, RouteInv
  <2>5. OwnerInv'
    BY <1>2, <2>1, <2>3 DEF SaverInv, OwnerInv, Owns
  <2> QED BY <1>2, <2>1, <2>2, <2>4, <2>5 DEF SaverInv, FirmInv, Loads
<1>4. CASE store[target[s]] = Absent
  <2>1. stage' = [stage EXCEPT ![s] = "created"] /\ store' = [store EXCEPT ![target[s]] = Torn]
    BY <1>4 DEF Create
  <2>2. CheckpointTypeOK'
    BY <1>2, <2>1 DEF SaverInv, CheckpointTypeOK, Stage, Finished
  <2>3. stage'[s] = "created" /\ \A r \in Saver : r # s => stage'[r] = stage[r]
    BY <2>1 DEF SaverInv, CheckpointTypeOK
  <2>4. store'[target[s]] = Torn /\ \A d \in Destination : d # target[s] => store'[d] = store[d]
    BY <1>1, <2>1 DEF SaverInv, CheckpointTypeOK
  <2>5. RouteInv'
    BY <1>1, <1>2, <2>3 DEF SaverInv, RouteInv
  <2>6. target[s] \notin firm
    BY <1>4 DEF SaverInv, FirmInv, Loads
  <2>7. \A r \in Saver : Owns(r) => target[r] # target[s] /\ target[r] \in Destination
    BY <1>4, DocumentLoads, TargetType, ContentAssumption DEF SaverInv, OwnerInv
  <2>8. answer[s] # "stored"
    BY <1>2 DEF SaverInv, RouteInv
  <2>9. \A r \in Saver : r # s => (Owns(r)' <=> Owns(r))
    BY <1>2, <2>3 DEF Owns
  <2>10. OwnerInv'
    BY <1>2, <2>3, <2>4, <2>6, <2>7, <2>8, <2>9 DEF SaverInv, OwnerInv
  <2>11. FirmInv'
    BY <1>2, <2>4, <2>6 DEF SaverInv, CheckpointTypeOK, FirmInv, Loads
  <2> QED BY <2>2, <2>5, <2>10, <2>11 DEF SaverInv
<1> QED BY <1>3, <1>4

\* Writing the document changes a file that only its saver owns.
LEMMA WriteStep ==
    ASSUME SaverInv, NEW s \in Saver, WriteDocument(s) \/ WriteDocumentFails(s)
    PROVE  SaverInv'
<1>1. target[s] \in Destination
  BY TargetType DEF SaverInv
<1>2. UNCHANGED <<target, taken, firm, attempt, wire, answer>> /\ stage[s] = "created"
  BY DEF WriteDocument, WriteDocumentFails
<1>3. Owns(s) /\ target[s] \notin firm /\ answer[s] # "stored"
  <2>1. Owns(s) /\ target[s] \in LocalFile /\ target[s] \notin Object
    BY <1>2, TargetType DEF SaverInv, RouteInv, Owns
  <2> QED BY <1>2, <2>1 DEF SaverInv, OwnerInv, RouteInv
<1>4. taken[s] \in Checkpoint
  BY DEF SaverInv, CheckpointTypeOK
<1>5. CheckpointTypeOK'
  <2>1. store' \in [Destination -> Checkpoint \union {Absent, Torn}]
    BY <1>4 DEF SaverInv, CheckpointTypeOK, WriteDocument, WriteDocumentFails
  <2> QED BY <1>2, <2>1 DEF SaverInv, CheckpointTypeOK, WriteDocument, WriteDocumentFails, Stage, Finished
<1>6. \A d \in Destination : d # target[s] => store'[d] = store[d]
  BY DEF SaverInv, CheckpointTypeOK, WriteDocument, WriteDocumentFails
<1>7. \A r \in Saver : r # s => stage'[r] = stage[r]
  BY DEF SaverInv, CheckpointTypeOK, WriteDocument, WriteDocumentFails
<1>8. \/ stage'[s] = "failed"
      \/ stage'[s] = "written" /\ store'[target[s]] = taken[s]
  BY <1>1 DEF SaverInv, CheckpointTypeOK, WriteDocument, WriteDocumentFails
<1>9. RouteInv'
  BY <1>2, <1>7, <1>8 DEF SaverInv, RouteInv
<1>10. \A r \in Saver : r # s => (Owns(r)' <=> Owns(r))
  BY <1>2, <1>7 DEF Owns
<1>11. \A r \in Saver \ {s} : Owns(r) => target[r] # target[s] /\ target[r] \in Destination
  BY <1>3, TargetType DEF SaverInv, OwnerInv
<1>12. OwnerInv'
  <2>1. \A r \in Saver \ {s} : Owns(r)' =>
            /\ store'[target[r]] = IF stage'[r] = "created" THEN Torn ELSE taken[r]
            /\ stage'[r] = "saved" \/ answer[r] = "stored" => target[r] \in firm
            /\ stage'[r] \in {"created", "written"} => target[r] \notin firm
            /\ target[r] # target[s]
            /\ \A q \in Saver \ {r, s} : Owns(q)' => target[q] # target[r]
    BY <1>6, <1>7, <1>10, <1>11 DEF SaverInv, OwnerInv
  <2>2. Owns(s)' => /\ store'[target[s]] = taken[s] /\ stage'[s] = "written"
    BY <1>2, <1>3, <1>8 DEF Owns
  <2> QED BY <1>2, <1>3, <2>1, <2>2 DEF OwnerInv
<1>13. FirmInv'
  BY <1>2, <1>3, <1>6 DEF SaverInv, CheckpointTypeOK, FirmInv, Loads
<1> QED BY <1>5, <1>9, <1>12, <1>13 DEF SaverInv

\* The fsync makes the whole document firm.
LEMMA SyncStep ==
    ASSUME SaverInv, NEW s \in Saver, SyncDocument(s)
    PROVE  SaverInv'
<1>1. target[s] \in Destination
  BY TargetType DEF SaverInv
<1>2. UNCHANGED <<target, taken, store, attempt, wire, answer>> /\ stage[s] = "written"
      /\ firm' = firm \union {target[s]}
  BY DEF SyncDocument
<1>3. stage'[s] = "saved" /\ \A r \in Saver : r # s => stage'[r] = stage[r]
  BY DEF SaverInv, CheckpointTypeOK, SyncDocument
<1>4. CheckpointTypeOK'
  BY <1>1 DEF SaverInv, CheckpointTypeOK, SyncDocument, Stage, Finished
<1>5. RouteInv'
  BY <1>2, <1>3 DEF SaverInv, RouteInv
<1>6. Owns(s) /\ store[target[s]] = taken[s] /\ Loads(target[s])
  BY <1>2, DocumentLoads DEF SaverInv, OwnerInv, Owns, Loads
<1>7. \A r \in Saver : Owns(r)' <=> Owns(r)
  BY <1>2, <1>3 DEF Owns
<1>8. OwnerInv'
  BY <1>2, <1>3, <1>6, <1>7 DEF SaverInv, OwnerInv
<1>9. FirmInv'
  BY <1>2, <1>6 DEF SaverInv, FirmInv, Loads
<1> QED BY <1>4, <1>5, <1>8, <1>9 DEF SaverInv

\* A put that is sent is sent to an object, and the client forgets the earlier answer.
LEMMA SendStep ==
    ASSUME SaverInv, NEW s \in Saver, SendPut(s)
    PROVE  SaverInv'
<1>1. target[s] \in Object
  BY DEF SendPut, SaverInv, RouteInv
<1>2. UNCHANGED <<target, taken, store, firm>>
  BY DEF SendPut
<1>3. attempt[s] + 1 \in 1..MaxAttempts
  <2>1. attempt[s] < MaxAttempts
    BY AttemptsAssumption DEF SendPut, SaverInv, RouteInv
  <2> QED BY <2>1, AttemptsAssumption DEF SaverInv, CheckpointTypeOK
<1>4. CheckpointTypeOK'
  <2>1. attempt' \in [Saver -> 0..MaxAttempts] /\ attempt'[s] = attempt[s] + 1
    BY <1>3 DEF SaverInv, CheckpointTypeOK, SendPut
  <2>2. wire' \in [Saver -> SUBSET (1..MaxAttempts)]
    BY <1>3, <2>1 DEF SaverInv, CheckpointTypeOK, SendPut
  <2> QED BY <1>2, <2>1, <2>2 DEF SaverInv, CheckpointTypeOK, SendPut, Stage, Finished, Answer
<1>5. /\ stage'[s] = "sent" /\ answer'[s] = "none"
      /\ \A r \in Saver : r # s => /\ stage'[r] = stage[r] /\ answer'[r] = answer[r]
                                /\ attempt'[r] = attempt[r] /\ wire'[r] = wire[r]
  BY DEF SaverInv, CheckpointTypeOK, SendPut
<1>6. RouteInv'
  BY <1>1, <1>2, <1>5, DestinationAssumption DEF SaverInv, RouteInv
<1>7. ~Owns(s)' /\ \A r \in Saver : r # s => (Owns(r)' <=> Owns(r))
  BY <1>5 DEF Owns
<1>8. OwnerInv'
  BY <1>2, <1>5, <1>7 DEF SaverInv, OwnerInv
<1> QED BY <1>2, <1>4, <1>6, <1>8 DEF SaverInv, FirmInv, Loads

\* A put stores its checkpoint only where nothing was, and S3 keeps it.
LEMMA ArriveStep ==
    ASSUME SaverInv, NEW s \in Saver, NEW n \in 1..MaxAttempts, Arrive(s, n)
    PROVE  SaverInv'
<1>1. target[s] \in Destination /\ target[s] \in Object /\ target[s] \notin LocalFile
  BY TargetType DEF SaverInv, RouteInv, Arrive
<1>2. UNCHANGED <<stage, target, taken, attempt>>
  BY DEF Arrive
<1>3. /\ \A r \in Saver : r # s => answer'[r] = answer[r] /\ wire'[r] = wire[r]
      /\ \A r \in Saver : wire'[r] \subseteq wire[r]
      /\ answer'[s] # answer[s] => stage[s] = "sent"
  BY DEF SaverInv, CheckpointTypeOK, Arrive, AnswerPut
<1>4. CheckpointTypeOK'
  <2>1. taken[s] \in Checkpoint
    BY DEF SaverInv, CheckpointTypeOK
  <2>2. store' \in [Destination -> Checkpoint \union {Absent, Torn}] /\ firm' \subseteq Destination
    BY <1>1, <2>1 DEF SaverInv, CheckpointTypeOK, Arrive
  <2>3. answer' \in [Saver -> Answer] /\ wire' \in [Saver -> SUBSET (1..MaxAttempts)]
    BY DEF SaverInv, CheckpointTypeOK, Arrive, AnswerPut, Answer
  <2> QED BY <1>2, <2>2, <2>3 DEF SaverInv, CheckpointTypeOK
<1>5. RouteInv'
  <2>1. \A r \in Saver : stage[r] \in {"start", "verified"} => answer'[r] = answer[r]
    BY <1>3
  <2> QED BY <1>1, <1>2, <1>3, <2>1 DEF SaverInv, RouteInv
<1>6. CASE store[target[s]] = Absent
  <2>1. store' = [store EXCEPT ![target[s]] = taken[s]] /\ firm' = firm \union {target[s]}
    BY <1>6 DEF Arrive
  <2>2. store'[target[s]] = taken[s] /\ \A d \in Destination : d # target[s] => store'[d] = store[d]
    BY <1>1, <2>1 DEF SaverInv, CheckpointTypeOK
  <2>3. \A r \in Saver : Owns(r) => target[r] # target[s] /\ target[r] \in Destination
    BY <1>6, DocumentLoads, TargetType, ContentAssumption DEF SaverInv, OwnerInv
  <2>4. stage[s] \notin {"created", "written"}
    BY <1>1 DEF SaverInv, RouteInv
  <2>5. \A r \in Saver : r # s => (Owns(r)' <=> Owns(r))
    BY <1>2, <1>3 DEF Owns
  <2>6. OwnerInv'
    BY <1>2, <1>3, <2>1, <2>2, <2>3, <2>4, <2>5 DEF SaverInv, OwnerInv
  <2>7. FirmInv'
    BY <2>1, <2>2, DocumentLoads DEF SaverInv, CheckpointTypeOK, FirmInv, Loads
  <2> QED BY <1>4, <1>5, <2>6, <2>7 DEF SaverInv
<1>7. CASE store[target[s]] # Absent
  <2>1. store' = store /\ firm' = firm /\ answer'[s] \in {"exists", answer[s]}
    BY <1>7 DEF SaverInv, CheckpointTypeOK, Arrive, AnswerPut
  <2>2. \A r \in Saver : answer'[r] = "stored" => answer[r] = "stored"
    BY <1>3, <2>1
  <2>3. OwnerInv'
    BY <1>2, <2>1, <2>2 DEF SaverInv, OwnerInv, Owns
  <2> QED BY <1>4, <1>5, <2>1, <2>3 DEF SaverInv, FirmInv, Loads
<1> QED BY <1>6, <1>7

\* A power cut ends the savers that still owned a file it could reach.
LEMMA PowerStep ==
    ASSUME SaverInv, SaversLosePower
    PROVE  SaverInv'
<1>1. UNCHANGED <<target, taken, firm, attempt, wire, answer>>
  BY DEF SaversLosePower
<1>2. \A s \in Saver : stage'[s] = IF stage[s] \in Finished THEN stage[s] ELSE "killed"
  BY DEF SaversLosePower
<1>3. \A d \in firm : d \in Destination /\ store'[d] = store[d]
  BY DEF SaverInv, CheckpointTypeOK, SaversLosePower
<1>4. CheckpointTypeOK'
  <2>1. stage' \in [Saver -> Stage]
    BY DEF SaverInv, CheckpointTypeOK, SaversLosePower, Stage, Finished
  <2>2. store' \in [Destination -> Checkpoint \union {Absent, Torn}]
    BY DEF SaverInv, CheckpointTypeOK, SaversLosePower
  <2> QED BY <1>1, <2>1, <2>2 DEF SaverInv, CheckpointTypeOK
<1>5. RouteInv'
  BY <1>1, <1>2 DEF SaverInv, RouteInv, Finished
<1>6. \A s \in Saver :
        /\ Owns(s)' => Owns(s) /\ (stage[s] = "saved" \/ answer[s] = "stored")
        /\ stage'[s] \notin {"created", "written"}
        /\ stage'[s] = "saved" => stage[s] = "saved"
  BY <1>1, <1>2 DEF Owns, Finished
<1>7. \A s \in Saver : Owns(s)' => stage[s] # "created"
  <2>1. \A s \in Saver : stage[s] = "created" => answer[s] # "stored"
    BY TargetType DEF SaverInv, RouteInv
  <2> QED BY <1>6, <2>1
<1>8. OwnerInv'
  <2> SUFFICES ASSUME NEW s \in Saver, Owns(s)'
               PROVE  /\ store'[target[s]] = taken[s]
                      /\ target[s] \in firm
                      /\ \A r \in Saver \ {s} : Owns(r)' => target[r] # target[s]
    BY <1>1, <1>6 DEF OwnerInv
  <2>1. Owns(s) /\ target[s] \in firm /\ store[target[s]] = taken[s]
    BY <1>6, <1>7 DEF SaverInv, OwnerInv
  <2> QED BY <1>3, <1>6, <2>1 DEF SaverInv, OwnerInv
<1>9. FirmInv'
  BY <1>1, <1>3 DEF SaverInv, FirmInv, Loads
<1> QED BY <1>4, <1>5, <1>8, <1>9 DEF SaverInv

-----------------------------------------------------------------------------
(* The two invariants together. *)

\* Whatever savers do, the log takes a step of a writer, of a power cut or none.
LEMMA LogSteps ==
    ASSUME [CheckpointNext]_allVars
    PROVE  [Next]_vars
BY DEF CheckpointNext, allVars, Next, SaverNext, VerifyLog, VerifyLogFails, Create, WriteDocument,
       WriteDocumentFails, SyncDocument, SyncDocumentFails, SendPut, PutFails, PutReturns, Arrive,
       Kill

\* Every step of a saver, of a put on its way and of a power cut.
LEMMA SaverStep ==
    ASSUME LogInv, SaverInv, [CheckpointNext]_allVars
    PROVE  SaverInv'
<1>1. CASE UNCHANGED saverVars
  BY <1>1 DEF saverVars, SaverInv, CheckpointTypeOK, RouteInv, OwnerInv, Owns, FirmInv, Loads
<1>2. ASSUME NEW s \in Saver, SaverNext(s)
      PROVE  SaverInv'
  BY <1>2, QuietStep, CreateStep, WriteStep, SyncStep, SendStep, ArriveStep DEF SaverNext
<1>3. CASE SaversLosePower
  BY <1>3, PowerStep
<1> QED BY <1>1, <1>2, <1>3 DEF CheckpointNext, allVars

\* Nothing is stored at first, and no saver has started.
LEMMA SaverInit ==
    ASSUME CheckpointInit
    PROVE  SaverInv
<1>1. CheckpointTypeOK
  <2>1. [count |-> 0, hash |-> Genesis] \in Checkpoint
    BY EmptySeq DEF Checkpoint, Genesis
  <2>2. 0 \in 0..MaxAttempts
    BY AttemptsAssumption
  <2> QED BY <2>1, <2>2 DEF CheckpointInit, CheckpointTypeOK, Stage, Answer
<1>2. RouteInv /\ OwnerInv /\ FirmInv
  BY DEF CheckpointInit, RouteInv, OwnerInv, Owns, FirmInv
<1> QED BY <1>1, <1>2 DEF SaverInv

\* The first lines of two files that agree on them.
LEMMA SameCut ==
    ASSUME NEW ls \in Seq(Line), NEW ms \in Seq(Line), NEW n \in Nat,
           n <= Len(ls), n <= Len(ms), \A i \in 1..n : ms[i] = ls[i]
    PROVE  SubSeq(ms, 1, n) = SubSeq(ls, 1, n)
<1>1. ASSUME NEW q \in Seq(Line), n <= Len(q)
      PROVE  /\ SubSeq(q, 1, n) \in Seq(Line)
             /\ Len(SubSeq(q, 1, n)) = n
             /\ \A i \in 1..n : SubSeq(q, 1, n)[i] = q[i]
  <2>1. Len(q) \in Nat
    BY LenProperties
  <2>2. \A i \in 1..n : q[i] \in Line
    BY <1>1, <2>1, ElementOfSeq
  <2>3. /\ SubSeq(q, 1, n) \in Seq(Line)
        /\ Len(SubSeq(q, 1, n)) = IF 1 <= n THEN n - 1 + 1 ELSE 0
        /\ \A i \in 1..n - 1 + 1 : SubSeq(q, 1, n)[i] = q[1 + i - 1]
    BY <2>2, SubSeqProperties
  <2> QED BY <2>3
<1>2. /\ SubSeq(ls, 1, n) \in Seq(Line) /\ Len(SubSeq(ls, 1, n)) = n
      /\ \A i \in 1..n : SubSeq(ls, 1, n)[i] = ls[i]
  BY <1>1
<1>3. /\ SubSeq(ms, 1, n) \in Seq(Line) /\ Len(SubSeq(ms, 1, n)) = n
      /\ \A i \in 1..n : SubSeq(ms, 1, n)[i] = ms[i]
  BY <1>1
<1>4. \A i \in 1..Len(SubSeq(ms, 1, n)) : SubSeq(ms, 1, n)[i] = SubSeq(ls, 1, n)[i]
  BY <1>2, <1>3
<1> QED BY <1>2, <1>3, <1>4, SeqEqual

-----------------------------------------------------------------------------
(* The theorems. *)

\* The inductive invariant of log and savers.
THEOREM CheckpointInvariance == CheckpointSpec => [](LogInv /\ SaverInv)
<1>1. CheckpointInit => LogInv /\ SaverInv
  BY LogInit, SaverInit DEF CheckpointInit
<1>2. LogInv /\ SaverInv /\ [CheckpointNext]_allVars => (LogInv /\ SaverInv)'
  BY LogSteps, LogStep, SaverStep
<1> QED BY <1>1, <1>2, PTL DEF CheckpointSpec

\* The savers' state always has its type.
THEOREM CheckpointTypeCorrect == CheckpointSpec => []CheckpointTypeOK
<1>1. LogInv /\ SaverInv => CheckpointTypeOK
  BY DEF SaverInv
<1> QED BY <1>1, CheckpointInvariance, PTL

\* checkpoint.py:77-110: the document of a save_checkpoint that returned is at its
\* destination for good, and no other save_checkpoint of it returned.
THEOREM SavedStays == CheckpointSpec => []SavedIsKept
<1>1. LogInv /\ SaverInv => SavedIsKept
  BY DEF SaverInv, OwnerInv, Owns, SavedIsKept
<1> QED BY <1>1, CheckpointInvariance, PTL

\* audit verify with a checkpoint (cli.py) accepts the checkpointed log and no
\* other, whatever happened to the file in between.
THEOREM VerifiedIsTheSaved == CheckpointSpec => []VerifiedLogIsTheSaved
<1>1. LogInv /\ SaverInv => VerifiedLogIsTheSaved
  BY VerifiedState DEF VerifiedLogIsTheSaved, VerifyPasses
<1> QED BY <1>1, CheckpointInvariance, PTL

\* checkpoint.py:81: no put that arrives late and no saver that finds its file
\* taken changes a checkpoint, and a power cut can only take one that was in a file
\* and not synced.
THEOREM CheckpointsAreFinal == CheckpointSpec => NeverOverwritten
<1>1. LogInv /\ SaverInv /\ [CheckpointNext]_allVars =>
        [\A d \in Destination : Loads(d) /\ store'[d] # store[d] =>
            d \notin firm /\ ~Loads(d)' /\ PowerFails /\ SaversLosePower]_allVars
  <2> SUFFICES ASSUME SaverInv, CheckpointNext, NEW d \in Destination,
                      Loads(d), store'[d] # store[d]
               PROVE  d \notin firm /\ ~Loads(d)' /\ PowerFails /\ SaversLosePower
    OBVIOUS
  <2>1. ASSUME NEW s \in Saver, Create(s)
        PROVE  FALSE
    BY <2>1 DEF SaverInv, CheckpointTypeOK, Create, Loads
  <2>2. ASSUME NEW s \in Saver, WriteDocument(s) \/ WriteDocumentFails(s)
        PROVE  FALSE
    <3>1. store[target[s]] = Torn
      BY <2>2 DEF SaverInv, OwnerInv, Owns, WriteDocument, WriteDocumentFails
    <3> QED BY <2>2, <3>1 DEF SaverInv, CheckpointTypeOK, WriteDocument, WriteDocumentFails, Loads
  <2>3. ASSUME NEW s \in Saver, NEW n \in 1..MaxAttempts, Arrive(s, n)
        PROVE  FALSE
    BY <2>3 DEF SaverInv, CheckpointTypeOK, Arrive, Loads
  <2>4. ASSUME NEW s \in Saver, VerifyLog(s) \/ VerifyLogFails(s) \/ SyncDocument(s)
                                 \/ SyncDocumentFails(s) \/ SendPut(s) \/ PutFails(s)
                                 \/ PutReturns(s) \/ Kill(s)
        PROVE  FALSE
    BY <2>4 DEF VerifyLog, VerifyLogFails, SyncDocument, SyncDocumentFails, SendPut, PutFails,
                PutReturns, Kill
  <2>5. PowerFails /\ SaversLosePower
    BY <2>1, <2>2, <2>3, <2>4 DEF CheckpointNext, SaverNext, saverVars
  <2>6. \E lost, cut \in SUBSET {e \in Destination \ firm : store[e] # Absent} :
            store'[d] = IF d \in lost THEN Absent ELSE IF d \in cut THEN Torn ELSE store[d]
    BY <2>5 DEF SaversLosePower
  <2>7. d \notin firm /\ store'[d] \in {Absent, Torn}
    BY <2>6
  <2> QED BY <2>5, <2>7 DEF Loads
<1> QED BY <1>1, CheckpointInvariance, PTL DEF CheckpointSpec, NeverOverwritten

\* A log extends each checkpoint of its durable lines for ever, and each of its
\* other lines until a power cut.
THEOREM LogExtendsCheckpoints == CheckpointSpec => LogKeepsExtending
<1>1. LogInv /\ SaverInv /\ [CheckpointNext]_allVars =>
        [\A d \in Destination :
            /\ Loads(d)
            /\ Extends(lines, store[d])
            /\ store[d].count <= synced \/ ~PowerFails
            => Extends(lines', store[d])]_allVars
  <2> SUFFICES ASSUME LogInv, SaverInv, [CheckpointNext]_allVars, NEW d \in Destination,
                      Loads(d), Extends(lines, store[d]), store[d].count <= synced \/ ~PowerFails
               PROVE  Extends(lines', store[d])
    OBVIOUS
  <2> DEFINE n == store[d].count
  <2>1. n \in Nat /\ n <= Len(lines)
    BY DEF SaverInv, CheckpointTypeOK, Loads, Checkpoint, Extends
  <2>2. /\ lines \in Seq(Line) /\ lines' \in Seq(Line)
        /\ Len(lines) \in Nat /\ Len(lines') \in Nat
        /\ synced \in 0..Len(lines) /\ synced <= Len(lines')
        /\ ~PowerFails => Len(lines) <= Len(lines')
        /\ \A i \in 1..Len(lines) : i <= Len(lines') => lines'[i] = lines[i]
    BY LogSteps, LinesKeep DEF LogInv, TypeOK, Line
  <2>3. n <= Len(lines')
    BY <2>1, <2>2
  <2>4. \A i \in 1..n : lines'[i] = lines[i]
    BY <2>1, <2>2, <2>3
  <2>5. SubSeq(lines', 1, n) = SubSeq(lines, 1, n)
    BY <2>1, <2>2, <2>3, <2>4, SameCut
  <2> QED BY <2>3, <2>5 DEF Extends
<1> QED BY <1>1, CheckpointInvariance, PTL DEF CheckpointSpec, LogKeepsExtending
=============================================================================
