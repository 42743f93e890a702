----------------------------- MODULE Checkpoint -----------------------------
(***************************************************************************)
(* Checkpoints of an audit log (checkpoint.py, audit checkpoint and audit  *)
(* verify of the command line), beside the writers of AuditLog.  A saver   *)
(* verifies the log without its lock and stores the count and final hash   *)
(* it found, in a new local file or with a create-only S3 put.  Savers     *)
(* race for a destination, die between creating a file and syncing it, and *)
(* lose the answer to a put that was done.                                 *)
(*                                                                         *)
(* A saver is one run of save_checkpoint.  created_at, the retention       *)
(* options and the JSON around a checkpoint are left out: a stored         *)
(* document is a checkpoint or Torn, anything from_dict or json refuses.   *)
(***************************************************************************)
EXTENDS AuditLog

CONSTANTS
    Saver,          \* runs of save_checkpoint
    LocalFile,      \* destinations that are local paths
    Object,         \* destinations that are S3 objects
    MaxAttempts,    \* bound: how often the S3 client sends one put
    Absent,         \* the content of a destination that does not exist
    Torn            \* the content of a destination that load_checkpoint refuses

Destination == LocalFile \union Object

Checkpoint == [count : Nat, hash : Seq(Event)]

ASSUME DestinationAssumption == LocalFile \intersect Object = {}
ASSUME AttemptsAssumption == MaxAttempts \in Nat \ {0}
ASSUME ContentAssumption == Absent # Torn /\ {Absent, Torn} \intersect Checkpoint = {}

VARIABLES
    stage,      \* stage[s]: where saver s is in save_checkpoint
    target,     \* target[s]: its destination
    taken,      \* taken[s]: the checkpoint it took of the log
    store,      \* store[d]: what destination d holds
    firm,       \* the destinations that no power cut can change any more
    attempt,    \* attempt[s]: the number of the put the client waits for
    wire,       \* wire[s]: the puts that have not reached S3 yet
    answer      \* answer[s]: S3's answer to the put the client waits for

saverVars == <<stage, target, taken, store, firm, attempt, wire, answer>>
allVars == <<vars, saverVars>>

Finished == {"saved", "failed", "killed"}
Stage == {"start", "verified", "created", "written", "sent"} \union Finished
Answer == {"none", "stored", "exists"}

CheckpointTypeOK ==
    /\ stage \in [Saver -> Stage]
    /\ target \in [Saver -> Destination]
    /\ taken \in [Saver -> Checkpoint]
    /\ store \in [Destination -> Checkpoint \union {Absent, Torn}]
    /\ firm \subseteq Destination
    /\ attempt \in [Saver -> 0..MaxAttempts]
    /\ wire \in [Saver -> SUBSET (1..MaxAttempts)]
    /\ answer \in [Saver -> Answer]
-----------------------------------------------------------------------------
(* Reading a log and a checkpoint. *)

\* Unlike _last_hash, audit_state takes a last line that is a whole JSON
\* object although its newline is missing.
AllLines == IF tail.piece = "object" THEN Append(lines, tail.of) ELSE lines

\* audit_state returns: every line is an entry that extends the one before.
Verifies ==
    /\ tail.piece \in {"none", "object"}
    /\ \A i \in 1..Len(AllLines) : LinkOK(AllLines, i)

AuditState == [count |-> Len(AllLines), hash |-> HashAfter(AllLines)]

Loads(d) == store[d] \notin {Absent, Torn}

\* Mutant: only the number of events is compared.
CountMatches(d) == Loads(d) /\ Verifies /\ AuditState.count = store[d].count

\* colgov audit verify LOG --checkpoint D exits 0.
VerifyPasses(d) == Loads(d) /\ Verifies /\ AuditState = store[d]
-----------------------------------------------------------------------------
(* The steps of save_checkpoint. *)

\* The log is verified first.  A file that is missing cannot be read, and an
\* empty log may be one.
VerifyLog(s) ==
    /\ stage[s] = "start"
    /\ Verifies
    /\ taken' = [taken EXCEPT ![s] = AuditState]
    /\ stage' = [stage EXCEPT ![s] = "verified"]
    /\ UNCHANGED <<vars, target, store, firm, attempt, wire, answer>>

VerifyLogFails(s) ==
    /\ stage[s] = "start"
    /\ ~Verifies \/ AllLines = <<>> \/ IoFaults
    /\ stage' = [stage EXCEPT ![s] = "failed"]
    /\ UNCHANGED <<vars, target, taken, store, firm, attempt, wire, answer>>

\* Mutant: open(target, "wb"), which truncates an existing file.
CreateTruncating(s) ==
    /\ stage[s] = "verified"
    /\ target[s] \in LocalFile
    /\ store' = [store EXCEPT ![target[s]] = Torn]
    /\ stage' = [stage EXCEPT ![s] = "created"]
    /\ UNCHANGED <<vars, target, taken, firm, attempt, wire, answer>>

\* os.open with O_CREAT and O_EXCL: the file is new and still empty.
Create(s) ==
    /\ stage[s] = "verified"
    /\ target[s] \in LocalFile
    /\ IF store[target[s]] = Absent
       THEN /\ store' = [store EXCEPT ![target[s]] = Torn]
            /\ stage' = [stage EXCEPT ![s] = "created"]
       ELSE /\ stage' = [stage EXCEPT ![s] = "failed"]
            /\ UNCHANGED store
    /\ UNCHANGED <<vars, target, taken, firm, attempt, wire, answer>>

\* write and flush.
WriteDocument(s) ==
    /\ stage[s] = "created"
    /\ store' = [store EXCEPT ![target[s]] = taken[s]]
    /\ stage' = [stage EXCEPT ![s] = "written"]
    /\ UNCHANGED <<vars, target, taken, firm, attempt, wire, answer>>

\* The disk is full: whatever was written stays behind, and closing the file
\* tries again to write the rest.
WriteDocumentFails(s) ==
    /\ IoFaults
    /\ stage[s] = "created"
    /\ store' \in {store, [store EXCEPT ![target[s]] = taken[s]]}
    /\ stage' = [stage EXCEPT ![s] = "failed"]
    /\ UNCHANGED <<vars, target, taken, firm, attempt, wire, answer>>

\* Mutant: no fsync before save_checkpoint returns.
ReturnUnsynced(s) ==
    /\ stage[s] = "written"
    /\ stage' = [stage EXCEPT ![s] = "saved"]
    /\ UNCHANGED <<vars, target, taken, store, firm, attempt, wire, answer>>

\* os.fsync, and save_checkpoint returns.
SyncDocument(s) ==
    /\ stage[s] = "written"
    /\ firm' = firm \union {target[s]}
    /\ stage' = [stage EXCEPT ![s] = "saved"]
    /\ UNCHANGED <<vars, target, taken, store, attempt, wire, answer>>

SyncDocumentFails(s) ==
    /\ IoFaults
    /\ stage[s] = "written"
    /\ stage' = [stage EXCEPT ![s] = "failed"]
    /\ UNCHANGED <<vars, target, taken, store, firm, attempt, wire, answer>>

\* Mutant: the client sends the put again and again.
SendPutForEver(s) ==
    /\ \/ stage[s] = "verified" /\ target[s] \in Object
       \/ stage[s] = "sent"
    /\ attempt' = [attempt EXCEPT ![s] = @ + 1]
    /\ wire' = [wire EXCEPT ![s] = @ \union {attempt'[s]}]
    /\ answer' = [answer EXCEPT ![s] = "none"]
    /\ stage' = [stage EXCEPT ![s] = "sent"]
    /\ UNCHANGED <<vars, target, taken, store, firm>>

\* put_object sends the request; the client sends it again when no answer
\* comes, and forgets about the earlier one.
SendPut(s) ==
    /\ \/ stage[s] = "verified" /\ target[s] \in Object
       \/ stage[s] = "sent" /\ attempt[s] < MaxAttempts
    /\ attempt' = [attempt EXCEPT ![s] = @ + 1]
    /\ wire' = [wire EXCEPT ![s] = @ \union {attempt'[s]}]
    /\ answer' = [answer EXCEPT ![s] = "none"]
    /\ stage' = [stage EXCEPT ![s] = "sent"]
    /\ UNCHANGED <<vars, target, taken, store, firm>>

\* put_object raises: no answer in time, or one that says the key exists.
PutFails(s) ==
    /\ stage[s] = "sent"
    /\ answer[s] # "stored"
    /\ stage' = [stage EXCEPT ![s] = "failed"]
    /\ UNCHANGED <<vars, target, taken, store, firm, attempt, wire, answer>>

PutReturns(s) ==
    /\ stage[s] = "sent"
    /\ answer[s] = "stored"
    /\ stage' = [stage EXCEPT ![s] = "saved"]
    /\ UNCHANGED <<vars, target, taken, store, firm, attempt, wire, answer>>
-----------------------------------------------------------------------------
(* The environment. *)

\* The answer to put n reaches the client if it still waits for that one.
AnswerPut(s, n, text) ==
    answer' = [answer EXCEPT ![s] = IF stage[s] = "sent" /\ attempt[s] = n THEN text ELSE @]

\* A put reaches S3, perhaps after its client gave up or died.  IfNoneMatch="*"
\* stores the object only if there is none.
Arrive(s, n) ==
    /\ n \in wire[s]
    /\ wire' = [wire EXCEPT ![s] = @ \ {n}]
    /\ IF store[target[s]] = Absent
       THEN /\ store' = [store EXCEPT ![target[s]] = taken[s]]
            /\ firm' = firm \union {target[s]}
            /\ AnswerPut(s, n, "stored")
       ELSE /\ AnswerPut(s, n, "exists")
            /\ UNCHANGED <<store, firm>>
    /\ UNCHANGED <<vars, stage, target, taken, attempt>>

Kill(s) ==
    /\ stage[s] \notin Finished
    /\ stage' = [stage EXCEPT ![s] = "killed"]
    /\ UNCHANGED <<vars, target, taken, store, firm, attempt, wire, answer>>

\* A power cut ends every saver too.  Of a local file that was not synced, the
\* content or the whole file may be gone.
SaversLosePower ==
    /\ stage' = [s \in Saver |-> IF stage[s] \in Finished THEN stage[s] ELSE "killed"]
    /\ \E lost, cut \in SUBSET {d \in Destination \ firm : store[d] # Absent} :
        store' = [d \in Destination |-> IF d \in lost THEN Absent
                                        ELSE IF d \in cut THEN Torn ELSE store[d]]
    /\ UNCHANGED <<target, taken, firm, attempt, wire, answer>>
-----------------------------------------------------------------------------
CheckpointInit ==
    /\ Init
    /\ stage = [s \in Saver |-> "start"]
    /\ target \in [Saver -> Destination]
    /\ taken = [s \in Saver |-> [count |-> 0, hash |-> Genesis]]
    /\ store = [d \in Destination |-> Absent]
    /\ firm = {}
    /\ attempt = [s \in Saver |-> 0]
    /\ wire = [s \in Saver |-> {}]
    /\ answer = [s \in Saver |-> "none"]

SaverNext(s) ==
    \/ VerifyLog(s) \/ VerifyLogFails(s)
    \/ Create(s) \/ WriteDocument(s) \/ WriteDocumentFails(s)
    \/ SyncDocument(s) \/ SyncDocumentFails(s)
    \/ SendPut(s) \/ PutFails(s) \/ PutReturns(s)
    \/ \E n \in 1..MaxAttempts : Arrive(s, n)
    \/ Kill(s)

CheckpointNext ==
    \/ WriterNext /\ UNCHANGED saverVars
    \/ \E s \in Saver : SaverNext(s)
    \/ PowerFails /\ SaversLosePower

CheckpointSpec == CheckpointInit /\ [][CheckpointNext]_allVars
-----------------------------------------------------------------------------
(* Properties. *)

\* When save_checkpoint returned normally, its destination holds the checkpoint
\* it took, for ever: through other savers of the same destination, late puts
\* and power cuts.  So at most one saver of a destination reports success.
SavedIsKept ==
    \A s \in Saver : stage[s] = "saved" =>
        /\ store[target[s]] = taken[s]
        /\ \A r \in Saver \ {s} : stage[r] = "saved" => target[r] # target[s]

\* A checkpoint is never overwritten (checkpoint.py:81), not even one whose
\* saver died or was told that the put had failed.  What an object holds, or a
\* file that was synced, survives power cuts too; of another file, a power cut that
\* ends every saver and writer may leave nothing, or what does not load.
NeverOverwritten ==
    [][\A d \in Destination : Loads(d) /\ store'[d] # store[d] =>
        d \notin firm /\ ~Loads(d)' /\ PowerFails /\ SaversLosePower]_allVars

Extends(ls, c) == c.count <= Len(ls) /\ HashAfter(SubSeq(ls, 1, c.count)) = c.hash

\* A log that only its writers and failures touch never stops extending a
\* checkpoint taken of it, unless a power cut takes away lines that were not
\* yet synced when they were counted.
LogKeepsExtending ==
    [][\A d \in Destination :
        /\ Loads(d)
        /\ Extends(lines, store[d])
        /\ store[d].count <= synced \/ ~PowerFails
        => Extends(lines', store[d])]_allVars

\* audit verify with a checkpoint accepts only the very log that was
\* checkpointed: every event of it, in order, and no other.  In particular it
\* notices when a power cut took lines and later events took their place.
VerifiedLogIsTheSaved ==
    \A d \in Destination : VerifyPasses(d) => EventsOf(AllLines) = store[d].hash
=============================================================================
