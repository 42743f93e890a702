------------------------------ MODULE AuditLog ------------------------------
(***************************************************************************)
(* JsonlAuditLog (audit.py): a hash-chained JSON Lines file that several   *)
(* processes append to.  record() opens the file, takes an exclusive       *)
(* flock, re-reads the last hash, buffers one line, flushes it, fsyncs,    *)
(* unlocks and closes.  Every one of these is a step here, so processes    *)
(* interleave between any two of them, die between any two of them, and    *)
(* see each other's half-written lines.                                    *)
(*                                                                         *)
(* The data is abstracted to what the chain depends on.                    *)
(*  - SHA-256 is taken to be collision free, so the hash of an entry is    *)
(*    modelled by what it commits to: the sequence of events up to and     *)
(*    including that entry.                                                *)
(*  - A line on disk is an entry, or Garbage when pieces of two lines ran  *)
(*    together.  After the last newline there is a tail: nothing, a piece  *)
(*    of an entry, or pieces of several.                                   *)
(***************************************************************************)
EXTENDS Naturals, Sequences

CONSTANTS
    Writer,         \* processes (or threads: each record() opens the file itself)
    NoWriter,       \* the value of holder when nobody holds the flock
    MaxRecords,     \* bound: record() calls per writer
    Flock,          \* TRUE where fcntl exists; FALSE models the Windows stubs
    IoFaults,       \* TRUE if a flush or an fsync may raise (disk full, EIO, Ctrl-C)
    PowerLoss       \* TRUE if the machine may lose what was not fsynced

ASSUME WriterAssumption == NoWriter \notin Writer
ASSUME BoundAssumption == MaxRecords \in Nat
ASSUME FaultAssumption == Flock \in BOOLEAN /\ IoFaults \in BOOLEAN /\ PowerLoss \in BOOLEAN

VARIABLES
    lines,      \* the lines of the file that end in a newline
    tail,       \* what follows the last newline
    synced,     \* how many lines an fsync has made durable
    holder,     \* who holds the exclusive flock
    pc,         \* pc[w]: where writer w is in record()
    entry,      \* entry[w]: the entry w is writing
    left,       \* left[w]: how much of it is still in w's file buffer
    err,        \* err[w]: the exception w's last call raised, or is raising
    calls,      \* calls[w]: record() calls w has made
    acked       \* events whose record() returned normally

vars == <<lines, tail, synced, holder, pc, entry, left, err, calls, acked>>

Event == Writer \X (1..MaxRecords)

Genesis == <<>>
EntryHash(event, prev) == Append(prev, event)
MakeEntry(event, prev) == [event |-> event, prev |-> prev, hash |-> EntryHash(event, prev)]

Entry == [event : Event, prev : Seq(Event), hash : Seq(Event)]
Garbage == [event |-> <<>>, prev |-> <<>>, hash |-> <<>>]
NoTail == [of |-> Garbage, piece |-> "none"]

\* Pieces of a line: "none" of it, a "head" that is not valid JSON, the
\* "object" without its newline; "mixed" is pieces of several lines.
Piece == {"none", "head", "object", "mixed"}
Left == {"all", "rest", "newline", "none"}
InRecord == {"opened", "locked", "hashed", "flushed", "durable", "failed", "closing"}
PC == {"down", "idle"} \union InRecord
Err == {"none", "log", "io"}

TypeOK ==
    /\ lines \in Seq(Entry \union {Garbage})
    /\ tail \in [of : Entry \union {Garbage}, piece : Piece]
    /\ synced \in 0..Len(lines)
    /\ holder \in Writer \union {NoWriter}
    /\ pc \in [Writer -> PC]
    /\ entry \in [Writer -> Entry \union {Garbage}]
    /\ left \in [Writer -> Left]
    /\ err \in [Writer -> Err]
    /\ calls \in [Writer -> 0..MaxRecords]
    /\ acked \subseteq Event
-----------------------------------------------------------------------------
(* Reading the end of the file, as _last_hash does. *)

HashAfter(ls) == IF ls = <<>> THEN Genesis ELSE ls[Len(ls)].hash

\* Mutant: the last complete line is used, whatever follows it.
LogReadableIgnoringTail == lines # <<>> => lines[Len(lines)] # Garbage

\* _last_hash returns: the file is empty, or ends in a newline after a valid entry.
LogReadable ==
    /\ tail = NoTail
    /\ lines # <<>> => lines[Len(lines)] # Garbage

\* The raw write() calls behind a flush.  left[w] shrinks as bytes reach the
\* file, which is in append mode: they land after whatever is there now.
TailAfter(w, to) ==
    LET piece == IF to = "rest" THEN "head" ELSE "object"
        whole == left[w] = "all" /\ tail = NoTail
        resumed == \/ left[w] = "rest" /\ tail = [of |-> entry[w], piece |-> "head"]
                   \/ left[w] = "newline" /\ tail = [of |-> entry[w], piece |-> "object"]
    IN  IF whole \/ resumed THEN [of |-> entry[w], piece |-> piece]
                            ELSE [of |-> Garbage, piece |-> "mixed"]

\* Some of the buffered bytes reach the file, but not all.
WritePart(w) ==
    \E to \in {"rest", "newline"} :
        /\ <<left[w], to>> \in {<<"all", "rest">>, <<"all", "newline">>, <<"rest", "newline">>}
        /\ tail' = TailAfter(w, to)
        /\ left' = [left EXCEPT ![w] = to]
        /\ UNCHANGED lines

\* All the buffered bytes reach the file; the last of them is the newline.
WriteRest(w) ==
    /\ left[w] # "none"
    /\ LET last == TailAfter(w, "newline")
       IN  lines' = Append(lines, last.of)
    /\ tail' = NoTail
    /\ left' = [left EXCEPT ![w] = "none"]
-----------------------------------------------------------------------------
(* The steps of JsonlAuditLog. *)

\* JsonlAuditLog(path): reads the last hash without the lock.
Construct(w) ==
    /\ pc[w] = "down"
    /\ IF LogReadable
       THEN /\ pc' = [pc EXCEPT ![w] = "idle"]
            /\ err' = [err EXCEPT ![w] = "none"]
       ELSE /\ err' = [err EXCEPT ![w] = "log"]
            /\ UNCHANGED pc
    /\ UNCHANGED <<lines, tail, synced, holder, entry, left, calls, acked>>

\* Mutant: the file is opened with mode "w".
OpenTruncating(w) ==
    /\ pc[w] = "idle"
    /\ calls[w] < MaxRecords
    /\ calls' = [calls EXCEPT ![w] = @ + 1]
    /\ pc' = [pc EXCEPT ![w] = "opened"]
    /\ err' = [err EXCEPT ![w] = "none"]
    /\ lines' = <<>>
    /\ tail' = NoTail
    /\ UNCHANGED <<synced, holder, entry, left, acked>>

\* record(event) opens the file for appending (creating it if need be).
Open(w) ==
    /\ pc[w] = "idle"
    /\ calls[w] < MaxRecords
    /\ calls' = [calls EXCEPT ![w] = @ + 1]
    /\ pc' = [pc EXCEPT ![w] = "opened"]
    /\ err' = [err EXCEPT ![w] = "none"]
    /\ UNCHANGED <<lines, tail, synced, holder, entry, left, acked>>

\* The file cannot be opened: record() raises at once.
OpenFails(w) ==
    /\ IoFaults
    /\ pc[w] = "idle"
    /\ calls[w] < MaxRecords
    /\ calls' = [calls EXCEPT ![w] = @ + 1]
    /\ err' = [err EXCEPT ![w] = "io"]
    /\ UNCHANGED <<lines, tail, synced, holder, pc, entry, left, acked>>

\* Mutant: a shared lock, which excludes nobody.
LockShared(w) ==
    /\ pc[w] = "opened"
    /\ pc' = [pc EXCEPT ![w] = "locked"]
    /\ UNCHANGED <<lines, tail, synced, holder, entry, left, err, calls, acked>>

Lock(w) ==
    /\ pc[w] = "opened"
    /\ IF Flock THEN holder = NoWriter /\ holder' = w
                ELSE UNCHANGED holder
    /\ pc' = [pc EXCEPT ![w] = "locked"]
    /\ UNCHANGED <<lines, tail, synced, entry, left, err, calls, acked>>

\* The flock raises (ENOLCK, an interrupt).  _lock is called before the try, so
\* there is nothing to unlock.
LockFails(w) ==
    /\ IoFaults
    /\ pc[w] = "opened"
    /\ pc' = [pc EXCEPT ![w] = "closing"]
    /\ err' = [err EXCEPT ![w] = "io"]
    /\ UNCHANGED <<lines, tail, synced, holder, entry, left, calls, acked>>

\* Under the lock: read the last hash, build the entry, hand its line to the buffer.
ReadLastHash(w) ==
    /\ pc[w] = "locked"
    /\ IF LogReadable
       THEN /\ entry' = [entry EXCEPT ![w] = MakeEntry(<<w, calls[w]>>, HashAfter(lines))]
            /\ left' = [left EXCEPT ![w] = "all"]
            /\ pc' = [pc EXCEPT ![w] = "hashed"]
            /\ UNCHANGED err
       ELSE /\ err' = [err EXCEPT ![w] = "log"]
            /\ pc' = [pc EXCEPT ![w] = "failed"]
            /\ UNCHANGED <<entry, left>>
    /\ UNCHANGED <<lines, tail, synced, holder, calls, acked>>

\* The file cannot be read, or the event cannot be encoded.
ReadFails(w) ==
    /\ IoFaults
    /\ pc[w] = "locked"
    /\ pc' = [pc EXCEPT ![w] = "failed"]
    /\ err' = [err EXCEPT ![w] = "io"]
    /\ UNCHANGED <<lines, tail, synced, holder, entry, left, calls, acked>>

\* A short write, inside the flush or inside close()'s retry of it.
ShortWrite(w) ==
    /\ pc[w] \in {"hashed", "closing"}
    /\ WritePart(w)
    /\ UNCHANGED <<synced, holder, pc, entry, err, calls, acked>>

\* Mutant: flushed, and reported durable without an fsync.
FlushIsDurable(w) ==
    /\ pc[w] = "hashed"
    /\ WriteRest(w)
    /\ pc' = [pc EXCEPT ![w] = "durable"]
    /\ UNCHANGED <<synced, holder, entry, err, calls, acked>>

\* Mutant: the line goes out but stays buffered, and close() writes it again.
FlushKeepsBuffer(w) ==
    /\ pc[w] = "hashed"
    /\ left[w] = "all"
    /\ lines' = Append(lines, TailAfter(w, "newline").of)
    /\ pc' = [pc EXCEPT ![w] = "flushed"]
    /\ UNCHANGED <<tail, synced, holder, entry, left, err, calls, acked>>

Flush(w) ==
    /\ pc[w] = "hashed"
    /\ WriteRest(w)
    /\ pc' = [pc EXCEPT ![w] = "flushed"]
    /\ UNCHANGED <<synced, holder, entry, err, calls, acked>>

\* The flush raises.  The bytes it did not write stay in the buffer.
FlushFails(w) ==
    /\ IoFaults
    /\ pc[w] = "hashed"
    /\ pc' = [pc EXCEPT ![w] = "failed"]
    /\ err' = [err EXCEPT ![w] = "io"]
    /\ UNCHANGED <<lines, tail, synced, holder, entry, left, calls, acked>>

Fsync(w) ==
    /\ pc[w] = "flushed"
    /\ synced' = Len(lines)
    /\ pc' = [pc EXCEPT ![w] = "durable"]
    /\ UNCHANGED <<lines, tail, holder, entry, left, err, calls, acked>>

FsyncFails(w) ==
    /\ IoFaults
    /\ pc[w] = "flushed"
    /\ pc' = [pc EXCEPT ![w] = "failed"]
    /\ err' = [err EXCEPT ![w] = "io"]
    /\ UNCHANGED <<lines, tail, synced, holder, entry, left, calls, acked>>

\* Mutant: no finally, so an exception leaves the lock held.
UnlockAfterSuccess(w) ==
    /\ pc[w] = "durable"
    /\ holder' = IF holder = w THEN NoWriter ELSE holder
    /\ pc' = [pc EXCEPT ![w] = "closing"]
    /\ UNCHANGED <<lines, tail, synced, entry, left, err, calls, acked>>

\* The finally clause.
Unlock(w) ==
    /\ pc[w] \in {"durable", "failed"}
    /\ holder' = IF holder = w THEN NoWriter ELSE holder
    /\ pc' = [pc EXCEPT ![w] = "closing"]
    /\ UNCHANGED <<lines, tail, synced, entry, left, err, calls, acked>>

\* The with statement closes the file, which flushes what is still buffered.
Close(w) ==
    /\ pc[w] = "closing"
    /\ IF left[w] = "none" THEN UNCHANGED <<lines, tail, left>> ELSE WriteRest(w)
    /\ acked' = IF err[w] = "none" THEN acked \union {entry[w].event} ELSE acked
    /\ pc' = [pc EXCEPT ![w] = "idle"]
    /\ UNCHANGED <<synced, holder, entry, err, calls>>

\* That flush fails too, and close() drops the bytes.
CloseFails(w) ==
    /\ IoFaults
    /\ pc[w] = "closing"
    /\ left[w] # "none"
    /\ left' = [left EXCEPT ![w] = "none"]
    /\ pc' = [pc EXCEPT ![w] = "idle"]
    /\ UNCHANGED <<lines, tail, synced, holder, entry, err, calls, acked>>
-----------------------------------------------------------------------------
(* The environment. *)

\* The process dies: its buffer is gone and the kernel drops its flock.
Crash(w) ==
    /\ pc[w] # "down"
    /\ pc' = [pc EXCEPT ![w] = "down"]
    /\ left' = [left EXCEPT ![w] = "none"]
    /\ err' = [err EXCEPT ![w] = "none"]
    /\ holder' = IF holder = w THEN NoWriter ELSE holder
    /\ UNCHANGED <<lines, tail, synced, entry, calls, acked>>

\* The machine dies.  The file is cut anywhere after its durable lines.
PowerFails ==
    /\ PowerLoss
    /\ \E n \in synced..Len(lines) :
        /\ lines' = SubSeq(lines, 1, n)
        /\ IF n = Len(lines)
           THEN tail' \in {NoTail, tail}
           ELSE tail' \in {NoTail} \union
                    (IF lines[n+1] = Garbage THEN {[of |-> Garbage, piece |-> "mixed"]}
                     ELSE {[of |-> lines[n+1], piece |-> p] : p \in {"head", "object"}})
    /\ pc' = [w \in Writer |-> "down"]
    /\ left' = [w \in Writer |-> "none"]
    /\ err' = [w \in Writer |-> "none"]
    /\ holder' = NoWriter
    /\ UNCHANGED <<synced, entry, calls, acked>>
-----------------------------------------------------------------------------
Init ==
    /\ lines = <<>>
    /\ tail = NoTail
    /\ synced = 0
    /\ holder = NoWriter
    /\ pc = [w \in Writer |-> "down"]
    /\ entry = [w \in Writer |-> Garbage]
    /\ left = [w \in Writer |-> "none"]
    /\ err = [w \in Writer |-> "none"]
    /\ calls = [w \in Writer |-> 0]
    /\ acked = {}

\* What a running writer does by itself, the wait for the lock apart.
Proceed(w) ==
    \/ ReadLastHash(w) \/ ReadFails(w) \/ Flush(w) \/ FlushFails(w)
    \/ Fsync(w) \/ FsyncFails(w) \/ Unlock(w) \/ Close(w) \/ CloseFails(w)

WriterNext ==
    \E w \in Writer :
        \/ Construct(w) \/ Open(w) \/ OpenFails(w) \/ Lock(w) \/ LockFails(w)
        \/ Proceed(w)
        \/ ShortWrite(w) \/ Crash(w)

Next == WriterNext \/ PowerFails

Spec == Init /\ [][Next]_vars

\* A process in record() keeps running until it returns or is killed, and the
\* kernel grants a contended flock to each waiter in turn.
FairSpec ==
    /\ Spec
    /\ \A w \in Writer : WF_vars(Proceed(w)) /\ SF_vars(Lock(w))
-----------------------------------------------------------------------------
(* Properties. *)

\* Line i is the entry that extends line i-1, as audit_state() verifies:
\* prev is the previous hash and hash is the entry's own hash.
LinkOK(ls, i) ==
    /\ ls[i] # Garbage
    /\ ls[i].prev = (IF i = 1 THEN Genesis ELSE ls[i-1].hash)
    /\ ls[i].hash = EntryHash(ls[i].event, ls[i].prev)

\* The chain never forks (audit.py:109-111): however writers interleave and
\* die, the newline-terminated part of the file verifies from its first line.
ChainIntact == \A i \in 1..Len(lines) : LinkOK(lines, i)

\* "Every record is fsync-ed before record returns": an event whose record()
\* returned is in a line that no crash or power loss can take away.
AckedDurable == \A e \in acked : \E i \in 1..synced : lines[i].event = e

\* A writer's events appear in the order of its record() calls, and none
\* twice, even when a failed call's line reaches the file after it raised.
ProgramOrder ==
    \A i, j \in 1..Len(lines) :
        /\ i < j
        /\ lines[i] # Garbage /\ lines[j] # Garbage
        /\ lines[i].event[1] = lines[j].event[1]
        => lines[i].event[2] < lines[j].event[2]

\* The piece of a line after the last newline belongs to nobody who is still
\* going to finish it: the log was damaged by a crash.
Damaged ==
    \/ lines # <<>> /\ lines[Len(lines)] = Garbage
    \/ /\ tail # NoTail
       /\ \A w \in Writer : left[w] \notin {"rest", "newline"}

\* Only the power cut itself can change a damaged log: no writer appends
\* after a torn line, so nothing is ever chained to data that may be lost.
DamageIsFrozen ==
    [][Damaged => \/ lines' = lines /\ tail' = tail
                  \/ pc' = [w \in Writer |-> "down"]]_vars

\* record() refuses to append (AuditLogError) only when the log is damaged,
\* never because another writer is half way through a line.
RecordRefusesOnlyDamage ==
    [][\A w \in Writer : ReadLastHash(w) /\ err'[w] = "log" => Damaged]_vars

\* A record() call returns, raises or dies with its process: waiting for the
\* flock never lasts for ever, whoever else crashes while holding it.
RecordTerminates ==
    \A w \in Writer : (pc[w] = "opened") ~> (pc[w] \in {"idle", "down"})

\* The log keeps the promises of the abstract trail, where every line is
\* one event.
EventsOf(ls) == [i \in 1..Len(ls) |-> ls[i].event]

Trail == INSTANCE AuditTrail WITH
    Event <- Event,
    trail <- EventsOf(lines),
    acked <- acked

ImplementsTrail == Trail!TrailSpec
=============================================================================
