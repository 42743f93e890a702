--------------------------- MODULE AuditLogProofs ---------------------------
(***************************************************************************)
(* Theorems about JsonlAuditLog, with crashes of processes and of the      *)
(* machine: for any number of writers, on a disk that does not fail and a  *)
(* platform that has flock (Disciplined), and for one writer, on any disk  *)
(* and platform (Alone).  Several writers without a lock, or on a disk     *)
(* that fails, may fork the chain (see the run audit_fork); types and the  *)
(* order of a writer's events need no assumption.                          *)
(***************************************************************************)
EXTENDS AuditLog, SequenceTheorems, TLAPS

Disciplined == Flock = TRUE /\ IoFaults = FALSE

-----------------------------------------------------------------------------
(* The inductive invariant. *)

\* Inside the try block, and only there, a writer holds the lock.
Holding == {"locked", "hashed", "flushed", "durable", "failed"}

LockInv == \A w \in Writer : pc[w] \in Holding <=> holder = w

\* A writer in record() has counted the call.
CallInv == \A w \in Writer : pc[w] \in InRecord => calls[w] \in 1..MaxRecords

\* What a writer still has in its buffer, and what it has put in the file, are
\* the two parts of one entry that extends the last line.
BufferInv == \A w \in Writer :
    IF pc[w] = "hashed"
    THEN /\ entry[w] = MakeEntry(<<w, calls[w]>>, HashAfter(lines))
         /\ \/ left[w] = "all" /\ tail = NoTail
            \/ left[w] = "rest" /\ tail = [of |-> entry[w], piece |-> "head"]
            \/ left[w] = "newline" /\ tail = [of |-> entry[w], piece |-> "object"]
    ELSE left[w] = "none"

\* Between the flush and the fsync the writer's line is the last one; once
\* fsynced it is among the durable ones until record() has returned.
DurableInv == \A w \in Writer :
    /\ pc[w] \in {"opened", "locked", "hashed", "flushed", "durable"} => err[w] = "none"
    /\ pc[w] = "failed" => err[w] # "none"
    /\ pc[w] = "flushed" => lines # <<>> /\ lines[Len(lines)] = entry[w]
    /\ pc[w] \in {"durable", "closing"} /\ err[w] = "none" =>
            \E i \in 1..synced : lines[i] = entry[w]

\* No line comes from a call its writer has not made, and none from the call
\* that is still to write its line.
HistoryInv == \A i \in 1..Len(lines) : \A w \in Writer :
    lines[i].event[1] = w =>
        /\ lines[i].event[2] <= calls[w]
        /\ pc[w] \in {"opened", "locked", "hashed"} => lines[i].event[2] < calls[w]

IInv ==
    /\ TypeOK
    /\ LockInv
    /\ CallInv
    /\ BufferInv
    /\ DurableInv
    /\ HistoryInv
    /\ ChainIntact
    /\ AckedDurable
    /\ ProgramOrder

-----------------------------------------------------------------------------
(* Lemmas about the data. *)

\* An entry built from the event of a counted call and a chain of events is a
\* well-formed entry, and differs from garbage.
LEMMA MakeEntryType ==
    ASSUME NEW e \in Event, NEW prev \in Seq(Event)
    PROVE  /\ MakeEntry(e, prev) \in Entry
           /\ MakeEntry(e, prev) # Garbage
<1> DEFINE m == MakeEntry(e, prev)
<1>1. m.event = e /\ m.prev = prev /\ m.hash = Append(prev, e)
  BY DEF MakeEntry, EntryHash
<1>2. Append(prev, e) \in Seq(Event) /\ Append(prev, e) # <<>>
  BY AppendProperties
<1>3. m \in Entry
  BY <1>2 DEF MakeEntry, EntryHash, Entry
<1>4. m # Garbage
  BY <1>1, <1>2 DEF Garbage
<1> QED BY <1>3, <1>4

\* Garbage is not an entry's hash, but it has one of the right type.
LEMMA HashAfterType ==
    ASSUME TypeOK
    PROVE  HashAfter(lines) \in Seq(Event)
<1>1. CASE lines = <<>>
  BY <1>1, EmptySeq DEF HashAfter, Genesis
<1>2. CASE lines # <<>>
  <2>1. lines[Len(lines)] \in Entry \union {Garbage}
    BY <1>2 DEF TypeOK
  <2>2. Garbage.hash \in Seq(Event)
    BY EmptySeq DEF Garbage
  <2>3. \A e \in Entry : e.hash \in Seq(Event)
    BY DEF Entry
  <2>4. lines[Len(lines)].hash \in Seq(Event)
    BY <2>1, <2>2, <2>3
  <2> QED BY <1>2, <2>4 DEF HashAfter
<1> QED BY <1>1, <1>2

\* A line that extends the last one keeps the chain intact.
LEMMA ExtendChain ==
    ASSUME TypeOK, ChainIntact, NEW e \in Event,
           lines' = Append(lines, MakeEntry(e, HashAfter(lines)))
    PROVE  ChainIntact'
<1> DEFINE m == MakeEntry(e, HashAfter(lines))
<1>1. lines \in Seq(Entry \union {Garbage})
  BY DEF TypeOK
<1>2. m \in Entry /\ m # Garbage
  BY MakeEntryType, HashAfterType
<1>3. Len(lines') = Len(lines) + 1 /\ Len(lines) \in Nat
  BY <1>1, <1>2
<1>4. \A i \in 1..Len(lines) : lines'[i] = lines[i]
  BY <1>1, <1>2
<1>5. lines'[Len(lines) + 1] = m
  BY <1>1, <1>2
<1>6. \A i \in 1..Len(lines) : LinkOK(lines', i)
  BY <1>3, <1>4 DEF ChainIntact, LinkOK
<1>7. LinkOK(lines', Len(lines) + 1)
  <2>1. m.prev = HashAfter(lines) /\ m.hash = EntryHash(m.event, m.prev)
    BY DEF MakeEntry
  <2>2. HashAfter(lines) = IF Len(lines) + 1 = 1 THEN Genesis ELSE lines'[Len(lines)].hash
    BY <1>1, <1>3, <1>4 DEF HashAfter
  <2> QED BY <1>2, <1>3, <1>5, <2>1, <2>2 DEF LinkOK
<1> QED BY <1>3, <1>6, <1>7 DEF ChainIntact
-----------------------------------------------------------------------------
(* Every step preserves the invariant. *)

\* The lines of an intact chain hold events.
LEMMA LinkedEvents ==
    ASSUME NEW ls \in Seq(Entry \union {Garbage}), NEW i \in 1..Len(ls), LinkOK(ls, i)
    PROVE  /\ ls[i] \in Entry
           /\ ls[i].event \in Event
           /\ ls[i].event[1] \in Writer
           /\ ls[i].event[2] \in 1..MaxRecords
<1>1. ls[i] \in Entry \union {Garbage}
  BY ElementOfSeq
<1>2. ls[i] # Garbage
  BY DEF LinkOK
<1>3. ls[i] \in Entry
  BY <1>1, <1>2
<1>4. ls[i].event \in Event
  BY <1>3 DEF Entry
<1>5. \A e \in Event : e[1] \in Writer /\ e[2] \in 1..MaxRecords
  BY DEF Event
<1> QED BY <1>3, <1>4, <1>5

\* The same of the file's lines.
LEMMA LineEvents ==
    ASSUME TypeOK, ChainIntact, NEW i \in 1..Len(lines)
    PROVE  /\ lines[i] \in Entry
           /\ lines[i].event \in Event
           /\ lines[i].event[1] \in Writer
           /\ lines[i].event[2] \in 1..MaxRecords
BY LinkedEvents DEF TypeOK, ChainIntact

\* A process starts.
LEMMA ConstructStep ==
    ASSUME IInv, Disciplined, NEW w \in Writer, Construct(w)
    PROVE  IInv'
<1>1. TypeOK'
  BY DEF IInv, Construct, TypeOK, PC, InRecord, Err
<1>2. LockInv'
  BY DEF IInv, Construct, TypeOK, LockInv, Holding, PC, InRecord
<1>3. CallInv'
  BY DEF IInv, Construct, TypeOK, CallInv, InRecord, PC
<1>4. BufferInv'
  BY DEF IInv, Construct, TypeOK, BufferInv
<1>5. DurableInv'
  BY DEF IInv, Construct, TypeOK, DurableInv
<1>6. HistoryInv'
  BY DEF IInv, Construct, TypeOK, HistoryInv
<1>7. ChainIntact'
  BY DEF IInv, Construct, ChainIntact
<1>8. AckedDurable'
  BY DEF IInv, Construct, AckedDurable
<1>9. ProgramOrder'
  BY DEF IInv, Construct, ProgramOrder
<1> QED BY <1>1, <1>2, <1>3, <1>4, <1>5, <1>6, <1>7, <1>8, <1>9 DEF IInv

\* A call begins: the new event's number is above those of all the writer's lines.
LEMMA OpenStep ==
    ASSUME IInv, Disciplined, NEW w \in Writer, Open(w)
    PROVE  IInv'
<1>1. TypeOK'
  BY BoundAssumption DEF IInv, Open, TypeOK, PC, InRecord, Err
<1>2. LockInv'
  BY DEF IInv, Open, TypeOK, LockInv, Holding, PC, InRecord
<1>3. CallInv'
  <2>1. calls[w] + 1 \in 1..MaxRecords
    BY BoundAssumption DEF IInv, Open, TypeOK
  <2> QED BY <2>1 DEF IInv, Open, TypeOK, CallInv, PC, InRecord
<1>4. BufferInv'
  BY DEF IInv, Open, TypeOK, BufferInv
<1>5. DurableInv'
  BY DEF IInv, Open, TypeOK, DurableInv
<1>6. HistoryInv'
  <2>1. \A i \in 1..Len(lines) : lines[i].event[2] \in Nat
    BY LineEvents, BoundAssumption DEF IInv
  <2>2. calls \in [Writer -> Nat]
    BY BoundAssumption DEF IInv, TypeOK
  <2> SUFFICES ASSUME NEW i \in 1..Len(lines), NEW v \in Writer, lines[i].event[1] = v
               PROVE  /\ lines[i].event[2] <= calls'[v]
                      /\ pc'[v] \in {"opened", "locked", "hashed"} =>
                            lines[i].event[2] < calls'[v]
    BY DEF HistoryInv, Open
  <2>3. lines[i].event[2] <= calls[v]
    BY DEF IInv, HistoryInv
  <2>4. CASE v = w
    <3>1. calls'[v] = calls[v] + 1
      BY <2>2, <2>4 DEF Open
    <3> QED BY <2>1, <2>2, <2>3, <3>1
  <2>5. CASE v # w
    <3>1. calls'[v] = calls[v] /\ pc'[v] = pc[v]
      BY <2>5 DEF IInv, TypeOK, Open
    <3> QED BY <3>1 DEF IInv, HistoryInv
  <2> QED BY <2>4, <2>5
<1>7. ChainIntact'
  BY DEF IInv, Open, ChainIntact
<1>8. AckedDurable'
  BY DEF IInv, Open, AckedDurable
<1>9. ProgramOrder'
  BY DEF IInv, Open, ProgramOrder
<1> QED BY <1>1, <1>2, <1>3, <1>4, <1>5, <1>6, <1>7, <1>8, <1>9 DEF IInv

\* The lock is granted: nobody else is inside.
LEMMA LockStep ==
    ASSUME IInv, Disciplined, NEW w \in Writer, Lock(w)
    PROVE  IInv'
<1>1. TypeOK'
  BY DEF IInv, Lock, TypeOK, PC, InRecord, Err
<1>2. LockInv'
  BY WriterAssumption DEF IInv, Disciplined, Lock, TypeOK, LockInv, Holding, PC, InRecord
<1>3. CallInv'
  BY DEF IInv, Lock, TypeOK, CallInv, InRecord, PC
<1>4. BufferInv'
  BY DEF IInv, Lock, TypeOK, BufferInv
<1>5. DurableInv'
  BY DEF IInv, Lock, TypeOK, DurableInv
<1>6. HistoryInv'
  BY DEF IInv, Lock, TypeOK, HistoryInv
<1>7. ChainIntact'
  BY DEF IInv, Lock, ChainIntact
<1>8. AckedDurable'
  BY DEF IInv, Lock, AckedDurable
<1>9. ProgramOrder'
  BY DEF IInv, Lock, ProgramOrder
<1> QED BY <1>1, <1>2, <1>3, <1>4, <1>5, <1>6, <1>7, <1>8, <1>9 DEF IInv

\* The lock is released: the line is durable, or the call has failed.
LEMMA UnlockStep ==
    ASSUME IInv, Disciplined, NEW w \in Writer, Unlock(w)
    PROVE  IInv'
<1>1. TypeOK'
  BY DEF IInv, Unlock, TypeOK, PC, InRecord, Err
<1>2. LockInv'
  BY WriterAssumption DEF IInv, Disciplined, Unlock, TypeOK, LockInv, Holding, PC, InRecord
<1>3. CallInv'
  BY DEF IInv, Unlock, TypeOK, CallInv, InRecord, PC
<1>4. BufferInv'
  BY DEF IInv, Unlock, TypeOK, BufferInv
<1>5. DurableInv'
  BY DEF IInv, Unlock, TypeOK, DurableInv
<1>6. HistoryInv'
  BY DEF IInv, Unlock, TypeOK, HistoryInv
<1>7. ChainIntact'
  BY DEF IInv, Unlock, ChainIntact
<1>8. AckedDurable'
  BY DEF IInv, Unlock, AckedDurable
<1>9. ProgramOrder'
  BY DEF IInv, Unlock, ProgramOrder
<1> QED BY <1>1, <1>2, <1>3, <1>4, <1>5, <1>6, <1>7, <1>8, <1>9 DEF IInv

\* The event of a call in progress is an event.
LEMMA CallEvent ==
    ASSUME IInv, NEW w \in Writer, pc[w] \in InRecord
    PROVE  <<w, calls[w]>> \in Event
<1>1. calls[w] \in 1..MaxRecords
  BY DEF IInv, CallInv
<1> QED BY <1>1 DEF Event

\* Under the lock a writer's bytes join up: nothing else is after the last newline.
LEMMA TailIsOwn ==
    ASSUME IInv, NEW w \in Writer, pc[w] = "hashed", NEW to \in {"rest", "newline"}
    PROVE  TailAfter(w, to) = [of |-> entry[w], piece |-> IF to = "rest" THEN "head" ELSE "object"]
<1>1. \/ left[w] = "all" /\ tail = NoTail
      \/ left[w] = "rest" /\ tail = [of |-> entry[w], piece |-> "head"]
      \/ left[w] = "newline" /\ tail = [of |-> entry[w], piece |-> "object"]
  BY DEF IInv, BufferInv
<1> QED BY <1>1 DEF TailAfter

\* The entry extends the last line: only the holder of the lock gets here.
LEMMA ReadLastHashStep ==
    ASSUME IInv, Disciplined, NEW w \in Writer, ReadLastHash(w)
    PROVE  IInv'
<1>1. TypeOK'
  <2>1. MakeEntry(<<w, calls[w]>>, HashAfter(lines)) \in Entry
    BY CallEvent, HashAfterType, MakeEntryType DEF IInv, ReadLastHash, InRecord
  <2>2. CASE LogReadable
    BY <2>1, <2>2 DEF IInv, ReadLastHash, TypeOK, PC, InRecord, Left
  <2>3. CASE ~LogReadable
    BY <2>3 DEF IInv, ReadLastHash, TypeOK, PC, InRecord, Err
  <2> QED BY <2>2, <2>3
<1>2. LockInv'
  BY DEF IInv, ReadLastHash, TypeOK, LockInv, Holding, PC, InRecord
<1>3. CallInv'
  BY DEF IInv, ReadLastHash, TypeOK, CallInv, InRecord, PC
<1>4. BufferInv'
  <2>1. CASE LogReadable
    <3>1. /\ tail' = NoTail
          /\ left'[w] = "all"
          /\ entry'[w] = MakeEntry(<<w, calls[w]>>, HashAfter(lines))'
      BY <2>1 DEF IInv, ReadLastHash, TypeOK, LogReadable, HashAfter
    <3>2. \A v \in Writer : v # w => pc[v] # "hashed" /\ pc'[v] = pc[v] /\ left'[v] = left[v]
      BY DEF IInv, ReadLastHash, TypeOK, LockInv, Holding
    <3>3. pc'[w] = "hashed"
      BY <2>1 DEF IInv, ReadLastHash, TypeOK
    <3>4. \A v \in Writer : v # w => left[v] = "none"
      BY <3>2 DEF IInv, BufferInv
    <3> QED BY <3>1, <3>2, <3>3, <3>4 DEF BufferInv
  <2>2. CASE ~LogReadable
    BY <2>2 DEF IInv, ReadLastHash, TypeOK, BufferInv
  <2> QED BY <2>1, <2>2
<1>5. DurableInv'
  <2>1. CASE LogReadable
    <3>1. pc[w] = "locked" /\ pc'[w] = "hashed" /\ err'[w] = err[w]
      BY <2>1 DEF IInv, ReadLastHash, TypeOK
    <3>2. \A v \in Writer : v # w =>
              pc'[v] = pc[v] /\ err'[v] = err[v] /\ entry'[v] = entry[v]
      BY <2>1 DEF IInv, ReadLastHash, TypeOK
    <3> QED BY <2>1, <3>1, <3>2 DEF IInv, ReadLastHash, DurableInv
  <2>2. CASE ~LogReadable
    <3>1. pc'[w] = "failed" /\ err'[w] = "log"
      BY <2>2 DEF IInv, ReadLastHash, TypeOK
    <3>2. \A v \in Writer : v # w => pc'[v] = pc[v] /\ err'[v] = err[v]
      BY <2>2 DEF IInv, ReadLastHash, TypeOK
    <3> QED BY <2>2, <3>1, <3>2 DEF IInv, ReadLastHash, DurableInv
  <2> QED BY <2>1, <2>2
<1>6. HistoryInv'
  BY DEF IInv, ReadLastHash, TypeOK, HistoryInv
<1>7. ChainIntact'
  BY DEF IInv, ReadLastHash, ChainIntact
<1>8. AckedDurable'
  BY DEF IInv, ReadLastHash, AckedDurable
<1>9. ProgramOrder'
  BY DEF IInv, ReadLastHash, ProgramOrder
<1> QED BY <1>1, <1>2, <1>3, <1>4, <1>5, <1>6, <1>7, <1>8, <1>9 DEF IInv

\* A part of the line reaches the file.
LEMMA ShortWriteStep ==
    ASSUME IInv, Disciplined, NEW w \in Writer, ShortWrite(w)
    PROVE  IInv'
<1>1. TypeOK'
  <2>1. PICK to \in {"rest", "newline"} :
          left' = [left EXCEPT ![w] = to] /\ tail' = TailAfter(w, to)
    BY DEF ShortWrite, WritePart
  <2>2. TailAfter(w, to) \in [of : Entry \union {Garbage}, piece : Piece]
    BY DEF IInv, TypeOK, TailAfter, Piece
  <2> QED BY <2>1, <2>2 DEF IInv, ShortWrite, WritePart, TypeOK, Left
<1>2. LockInv'
  BY DEF IInv, ShortWrite, TypeOK, LockInv, Holding, PC, InRecord
<1>3. CallInv'
  BY DEF IInv, ShortWrite, TypeOK, CallInv, InRecord, PC
<1>4. BufferInv'
  <2>1. PICK to \in {"rest", "newline"} :
          /\ <<left[w], to>> \in {<<"all", "rest">>, <<"all", "newline">>, <<"rest", "newline">>}
          /\ left' = [left EXCEPT ![w] = to]
          /\ tail' = TailAfter(w, to)
    BY DEF ShortWrite, WritePart
  <2>2. pc[w] = "hashed"
    BY <2>1 DEF IInv, ShortWrite, BufferInv
  <2>3. tail' = [of |-> entry[w], piece |-> IF to = "rest" THEN "head" ELSE "object"]
    BY <2>1, <2>2, TailIsOwn
  <2>4. \A v \in Writer : v # w => pc[v] # "hashed"
    BY <2>2 DEF IInv, LockInv, Holding
  <2> QED BY <2>1, <2>2, <2>3, <2>4 DEF IInv, ShortWrite, WritePart, TypeOK, BufferInv, HashAfter
<1>5. DurableInv'
  BY DEF IInv, ShortWrite, WritePart, TypeOK, DurableInv
<1>6. HistoryInv'
  BY DEF IInv, ShortWrite, WritePart, TypeOK, HistoryInv
<1>7. ChainIntact'
  BY DEF IInv, ShortWrite, WritePart, ChainIntact
<1>8. AckedDurable'
  BY DEF IInv, ShortWrite, WritePart, AckedDurable
<1>9. ProgramOrder'
  BY DEF IInv, ShortWrite, WritePart, ProgramOrder
<1> QED BY <1>1, <1>2, <1>3, <1>4, <1>5, <1>6, <1>7, <1>8, <1>9 DEF IInv

\* The line, which is still the last one, becomes durable.
LEMMA FsyncStep ==
    ASSUME IInv, Disciplined, NEW w \in Writer, Fsync(w)
    PROVE  IInv'
<1>1. TypeOK'
  <2>1. Len(lines) \in 0..Len(lines)
    BY LenProperties DEF IInv, TypeOK
  <2> QED BY <2>1 DEF IInv, Fsync, TypeOK, PC, InRecord
<1>2. LockInv'
  BY DEF IInv, Fsync, TypeOK, LockInv, Holding, PC, InRecord
<1>3. CallInv'
  BY DEF IInv, Fsync, TypeOK, CallInv, InRecord, PC
<1>4. BufferInv'
  BY DEF IInv, Fsync, TypeOK, BufferInv
<1>5. DurableInv'
  <2>1. Len(lines) \in 1..Len(lines) /\ lines[Len(lines)] = entry[w] /\ synced' = Len(lines)
    BY EmptySeq DEF IInv, TypeOK, Fsync, DurableInv
  <2>2. synced <= synced' /\ synced \in Nat /\ synced' \in Nat
    BY <2>1 DEF IInv, TypeOK
  <2>3. 1..synced \subseteq 1..synced'
    BY <2>2
  <2> QED BY <2>1, <2>3 DEF IInv, Fsync, TypeOK, DurableInv
<1>6. HistoryInv'
  BY DEF IInv, Fsync, TypeOK, HistoryInv
<1>7. ChainIntact'
  BY DEF IInv, Fsync, ChainIntact
<1>8. AckedDurable'
  <2>1. synced <= synced' /\ synced \in Nat /\ synced' \in Nat
    BY LenProperties DEF IInv, TypeOK, Fsync
  <2>2. 1..synced \subseteq 1..synced'
    BY <2>1
  <2> QED BY <2>2 DEF IInv, Fsync, AckedDurable
<1>9. ProgramOrder'
  BY DEF IInv, Fsync, ProgramOrder
<1> QED BY <1>1, <1>2, <1>3, <1>4, <1>5, <1>6, <1>7, <1>8, <1>9 DEF IInv

\* What a flush adds to the file: one line, the entry that extends the last one.
LEMMA FlushEffect ==
    ASSUME IInv, NEW w \in Writer, Flush(w)
    PROVE  /\ entry[w] = MakeEntry(<<w, calls[w]>>, HashAfter(lines))
           /\ entry[w] \in Entry
           /\ lines' = Append(lines, entry[w])
           /\ lines' \in Seq(Entry \union {Garbage})
           /\ Len(lines) \in Nat
           /\ Len(lines') = Len(lines) + 1
           /\ \A i \in 1..Len(lines) : lines'[i] = lines[i]
           /\ lines'[Len(lines) + 1] = entry[w]
<1>1. pc[w] = "hashed"
  BY DEF Flush
<1>2. entry[w] = MakeEntry(<<w, calls[w]>>, HashAfter(lines))
  BY <1>1 DEF IInv, BufferInv
<1>3. entry[w] \in Entry
  BY <1>1, <1>2, CallEvent, HashAfterType, MakeEntryType DEF IInv, InRecord
<1>4. TailAfter(w, "newline").of = entry[w]
  BY <1>1, TailIsOwn
<1>5. lines' = Append(lines, entry[w])
  BY <1>4 DEF Flush, WriteRest
<1>6. lines \in Seq(Entry \union {Garbage}) /\ entry[w] \in Entry \union {Garbage}
  BY <1>3 DEF IInv, TypeOK
<1>7. Len(lines) \in Nat
  BY <1>6, LenProperties
<1> QED BY <1>2, <1>3, <1>5, <1>6, <1>7, AppendProperties

\* The rest of the line reaches the file.
LEMMA FlushStep ==
    ASSUME IInv, Disciplined, NEW w \in Writer, Flush(w)
    PROVE  IInv'
<1>0. /\ entry[w] = MakeEntry(<<w, calls[w]>>, HashAfter(lines))
      /\ lines' = Append(lines, entry[w])
      /\ lines' \in Seq(Entry \union {Garbage})
      /\ Len(lines) \in Nat
      /\ Len(lines') = Len(lines) + 1
      /\ \A i \in 1..Len(lines) : lines'[i] = lines[i]
      /\ lines'[Len(lines) + 1] = entry[w]
  BY FlushEffect
<1>1. TypeOK'
  <2>1. NoTail \in [of : Entry \union {Garbage}, piece : Piece]
    BY DEF NoTail, Piece
  <2>2. synced \in 0..Len(lines')
    BY <1>0 DEF IInv, TypeOK
  <2> QED BY <2>1, <2>2, <1>0 DEF IInv, Flush, WriteRest, TypeOK, PC, InRecord, Left
<1>2. LockInv'
  BY DEF IInv, Flush, WriteRest, TypeOK, LockInv, Holding
<1>3. CallInv'
  BY DEF IInv, Flush, WriteRest, TypeOK, CallInv, InRecord
<1>4. BufferInv'
  <2>1. left'[w] = "none" /\ pc'[w] = "flushed"
    BY DEF IInv, Flush, WriteRest, TypeOK
  <2>2. \A v \in Writer : v # w => pc'[v] # "hashed" /\ left'[v] = "none"
    BY DEF IInv, Flush, WriteRest, TypeOK, BufferInv, LockInv, Holding
  <2> QED BY <2>1, <2>2 DEF BufferInv
<1>5. DurableInv'
  <2>1. pc[w] = "hashed" /\ pc'[w] = "flushed" /\ err' = err /\ entry' = entry /\ synced' = synced
    BY DEF IInv, Flush, WriteRest, TypeOK
  <2>2. lines' # <<>> /\ lines'[Len(lines')] = entry[w]
    BY <1>0, EmptySeq
  <2>3. \A v \in Writer : v # w => pc'[v] = pc[v] /\ pc[v] # "flushed"
    BY <2>1 DEF IInv, Flush, TypeOK, LockInv, Holding
  <2>4. \A i \in 1..synced : lines'[i] = lines[i]
    BY <1>0 DEF IInv, TypeOK
  <2> QED BY <2>1, <2>2, <2>3, <2>4 DEF IInv, DurableInv
<1>6. HistoryInv'
  <2> SUFFICES ASSUME NEW i \in 1..Len(lines'), NEW v \in Writer, lines'[i].event[1] = v
               PROVE  /\ lines'[i].event[2] <= calls[v]
                      /\ pc'[v] \in {"opened", "locked", "hashed"} =>
                            lines'[i].event[2] < calls[v]
    BY DEF HistoryInv, Flush
  <2>1. \A u \in Writer : pc'[u] = IF u = w THEN "flushed" ELSE pc[u]
    BY DEF IInv, Flush, TypeOK
  <2>2. CASE i \in 1..Len(lines)
    BY <2>1, <2>2, <1>0 DEF IInv, HistoryInv
  <2>3. CASE i = Len(lines) + 1
    <3>1. lines'[i].event = <<w, calls[w]>>
      BY <2>3, <1>0 DEF MakeEntry
    <3>2. calls[w] \in Nat
      BY BoundAssumption DEF IInv, TypeOK
    <3> QED BY <2>1, <3>1, <3>2
  <2> QED BY <2>2, <2>3, <1>0
<1>7. ChainIntact'
  <2>1. <<w, calls[w]>> \in Event
    BY CallEvent DEF Flush, InRecord
  <2> QED BY <2>1, <1>0, ExtendChain DEF IInv
<1>8. AckedDurable'
  <2>1. \A i \in 1..synced : lines'[i] = lines[i]
    BY <1>0 DEF IInv, TypeOK
  <2> QED BY <2>1 DEF IInv, Flush, AckedDurable
<1>9. ProgramOrder'
  <2> SUFFICES ASSUME NEW i \in 1..Len(lines'), NEW j \in 1..Len(lines'), i < j,
                      lines'[i] # Garbage, lines'[j] # Garbage,
                      lines'[i].event[1] = lines'[j].event[1]
               PROVE  lines'[i].event[2] < lines'[j].event[2]
    BY DEF ProgramOrder
  <2>1. i \in 1..Len(lines) /\ lines'[i] = lines[i]
    BY <1>0
  <2>2. CASE j \in 1..Len(lines)
    BY <2>1, <2>2, <1>0 DEF IInv, ProgramOrder
  <2>3. CASE j = Len(lines) + 1
    <3>1. lines'[j].event = <<w, calls[w]>>
      BY <2>3, <1>0 DEF MakeEntry
    <3>2. pc[w] = "hashed"
      BY DEF Flush
    <3>3. lines[i].event[2] < calls[w]
      BY <2>1, <3>1, <3>2 DEF IInv, HistoryInv
    <3> QED BY <2>1, <3>1, <3>3
  <2> QED BY <2>2, <2>3, <1>0
<1> QED BY <1>1, <1>2, <1>3, <1>4, <1>5, <1>6, <1>7, <1>8, <1>9 DEF IInv

\* record() returns, acknowledging its event, or raises.
LEMMA CloseStep ==
    ASSUME IInv, Disciplined, NEW w \in Writer, Close(w)
    PROVE  IInv'
<1>1. TypeOK'
  <2>1. lines' = lines /\ tail' = tail /\ left' = left
    BY DEF IInv, Close, BufferInv
  <2>2. entry[w].event \in Event \/ err[w] # "none"
    <3>1. err[w] = "none" => \E i \in 1..synced : lines[i] = entry[w]
      BY DEF IInv, Close, DurableInv
    <3>2. \A i \in 1..synced : i \in 1..Len(lines)
      BY LenProperties DEF IInv, TypeOK
    <3>3. \A i \in 1..Len(lines) : lines[i].event \in Event
      BY LineEvents DEF IInv
    <3> QED BY <3>1, <3>2, <3>3
  <2> QED BY <2>1, <2>2 DEF IInv, Close, TypeOK, PC
<1>2. LockInv'
  BY DEF IInv, Close, TypeOK, LockInv, Holding, PC, InRecord
<1>3. CallInv'
  BY DEF IInv, Close, TypeOK, CallInv, InRecord, PC
<1>4. BufferInv'
  <2>1. lines' = lines /\ tail' = tail /\ left' = left
    BY DEF IInv, Close, BufferInv
  <2> QED BY <2>1 DEF IInv, Close, TypeOK, BufferInv, HashAfter
<1>5. DurableInv'
  <2>1. lines' = lines
    BY DEF IInv, Close, BufferInv
  <2> QED BY <2>1 DEF IInv, Close, TypeOK, DurableInv
<1>6. HistoryInv'
  <2>1. lines' = lines
    BY DEF IInv, Close, BufferInv
  <2> QED BY <2>1 DEF IInv, Close, TypeOK, HistoryInv
<1>7. ChainIntact'
  <2>1. lines' = lines
    BY DEF IInv, Close, BufferInv
  <2> QED BY <2>1 DEF IInv, ChainIntact
<1>8. AckedDurable'
  <2>1. lines' = lines
    BY DEF IInv, Close, BufferInv
  <2>2. err[w] = "none" => \E i \in 1..synced : lines[i] = entry[w]
    BY DEF IInv, Close, DurableInv
  <2> QED BY <2>1, <2>2 DEF IInv, Close, AckedDurable
<1>9. ProgramOrder'
  <2>1. lines' = lines
    BY DEF IInv, Close, BufferInv
  <2> QED BY <2>1 DEF IInv, ProgramOrder
<1> QED BY <1>1, <1>2, <1>3, <1>4, <1>5, <1>6, <1>7, <1>8, <1>9 DEF IInv

\* A process dies: its lock is released and the file stays as it is.
LEMMA CrashStep ==
    ASSUME IInv, Disciplined, NEW w \in Writer, Crash(w)
    PROVE  IInv'
<1>1. TypeOK'
  BY DEF IInv, Crash, TypeOK, PC, Left, Err
<1>2. LockInv'
  BY WriterAssumption DEF IInv, Crash, TypeOK, LockInv, Holding
<1>3. CallInv'
  BY DEF IInv, Crash, TypeOK, CallInv, InRecord, PC
<1>4. BufferInv'
  BY DEF IInv, Crash, TypeOK, BufferInv
<1>5. DurableInv'
  BY DEF IInv, Crash, TypeOK, DurableInv
<1>6. HistoryInv'
  BY DEF IInv, Crash, TypeOK, HistoryInv
<1>7. ChainIntact'
  BY DEF IInv, Crash, ChainIntact
<1>8. AckedDurable'
  BY DEF IInv, Crash, AckedDurable
<1>9. ProgramOrder'
  BY DEF IInv, Crash, ProgramOrder
<1> QED BY <1>1, <1>2, <1>3, <1>4, <1>5, <1>6, <1>7, <1>8, <1>9 DEF IInv

\* What a power cut leaves: all the durable lines, in their places.
LEMMA CutLines ==
    ASSUME TypeOK, NEW n \in synced..Len(lines), lines' = SubSeq(lines, 1, n)
    PROVE  /\ lines' \in Seq(Entry \union {Garbage})
           /\ n \in Nat
           /\ Len(lines) \in Nat
           /\ Len(lines') = n
           /\ \A i \in 1..n : i \in 1..Len(lines) /\ lines'[i] = lines[i]
           /\ 1..synced \subseteq 1..n
<1>1. lines \in Seq(Entry \union {Garbage}) /\ Len(lines) \in Nat
  BY LenProperties DEF TypeOK
<1>2. synced \in Nat /\ n \in Nat
  BY <1>1 DEF TypeOK
<1>3. \A i \in 1..n : i \in 1..Len(lines) /\ lines[i] \in Entry \union {Garbage}
  BY <1>1, <1>2, ElementOfSeq
<1>4. 1 \in Int /\ n \in Int
  BY <1>2
<1>5. /\ SubSeq(lines, 1, n) \in Seq(Entry \union {Garbage})
      /\ Len(SubSeq(lines, 1, n)) = IF 1 <= n THEN n - 1 + 1 ELSE 0
      /\ \A i \in 1..n - 1 + 1 : SubSeq(lines, 1, n)[i] = lines[1 + i - 1]
  BY <1>3, <1>4, SubSeqProperties
<1>6. Len(lines') = n
  BY <1>2, <1>5
<1>7. \A i \in 1..n : lines'[i] = lines[i]
  BY <1>2, <1>5
<1>8. 1..synced \subseteq 1..n
  BY <1>2
<1> QED BY <1>1, <1>2, <1>3, <1>5, <1>6, <1>7, <1>8

\* The machine dies: what was fsynced stays.
LEMMA PowerFailsStep ==
    ASSUME IInv, Disciplined, PowerFails
    PROVE  IInv'
<1> PICK n \in synced..Len(lines) :
        /\ lines' = SubSeq(lines, 1, n)
        /\ IF n = Len(lines)
           THEN tail' \in {NoTail, tail}
           ELSE tail' \in {NoTail} \union
                    (IF lines[n+1] = Garbage THEN {[of |-> Garbage, piece |-> "mixed"]}
                     ELSE {[of |-> lines[n+1], piece |-> p] : p \in {"head", "object"}})
  BY DEF PowerFails
<1>0. /\ lines' \in Seq(Entry \union {Garbage})
      /\ n \in Nat
      /\ Len(lines) \in Nat
      /\ Len(lines') = n
      /\ \A i \in 1..n : i \in 1..Len(lines) /\ lines'[i] = lines[i]
      /\ 1..synced \subseteq 1..n
  BY CutLines DEF IInv
<1>1. TypeOK'
  <2>1. tail' \in [of : Entry \union {Garbage}, piece : Piece]
    <3>1. NoTail \in [of : Entry \union {Garbage}, piece : Piece]
      BY DEF NoTail, Piece
    <3>2. tail \in [of : Entry \union {Garbage}, piece : Piece]
      BY DEF IInv, TypeOK
    <3>3. CASE n = Len(lines)
      BY <1>0, <3>1, <3>2, <3>3
    <3>4. CASE n # Len(lines)
      <4>1. n + 1 \in 1..Len(lines)
        BY <1>0, <3>4
      <4>2. lines[n + 1] \in Entry
        BY <4>1, LineEvents DEF IInv
      <4> QED BY <1>0, <3>1, <3>4, <4>2 DEF Piece
    <3> QED BY <3>3, <3>4
  <2>2. synced' \in 0..Len(lines')
    BY <1>0 DEF IInv, TypeOK, PowerFails
  <2> QED BY <1>0, <2>1, <2>2 DEF IInv, PowerFails, TypeOK, PC, Left, Err
<1>2. LockInv'
  BY WriterAssumption DEF PowerFails, LockInv, Holding
<1>3. CallInv'
  BY DEF PowerFails, CallInv, InRecord
<1>4. BufferInv'
  BY DEF PowerFails, BufferInv
<1>5. DurableInv'
  BY DEF PowerFails, DurableInv
<1>6. HistoryInv'
  BY <1>0 DEF IInv, PowerFails, HistoryInv
<1>7. ChainIntact'
  <2> SUFFICES ASSUME NEW i \in 1..n
               PROVE  LinkOK(lines', i)
    BY <1>0 DEF ChainIntact
  <2>1. LinkOK(lines, i)
    BY <1>0 DEF IInv, ChainIntact
  <2>2. i # 1 => i - 1 \in 1..n
    BY <1>0
  <2> QED BY <1>0, <2>1, <2>2 DEF LinkOK
<1>8. AckedDurable'
  BY <1>0 DEF IInv, PowerFails, AckedDurable
<1>9. ProgramOrder'
  BY <1>0 DEF IInv, ProgramOrder
<1> QED BY <1>1, <1>2, <1>3, <1>4, <1>5, <1>6, <1>7, <1>8, <1>9 DEF IInv

\* The invariant holds of an empty file and no process running.
LEMMA InitInvariant == Init => IInv
<1> SUFFICES ASSUME Init PROVE IInv
  OBVIOUS
<1>1. TypeOK
  <2>1. lines \in Seq(Entry \union {Garbage}) /\ Len(lines) = 0
    BY EmptySeq DEF Init
  <2> QED BY <2>1, BoundAssumption DEF Init, TypeOK, NoTail, Piece, PC, Left, Err
<1>2. LockInv
  BY WriterAssumption DEF Init, LockInv, Holding
<1>3. CallInv
  BY DEF Init, CallInv, InRecord
<1>4. BufferInv
  BY DEF Init, BufferInv
<1>5. DurableInv
  BY DEF Init, DurableInv
<1>6. HistoryInv /\ ChainIntact /\ ProgramOrder
  <2>1. Len(lines) = 0
    BY EmptySeq DEF Init
  <2> QED BY <2>1 DEF HistoryInv, ChainIntact, ProgramOrder
<1>7. AckedDurable
  BY DEF Init, AckedDurable
<1> QED BY <1>1, <1>2, <1>3, <1>4, <1>5, <1>6, <1>7 DEF IInv

\* Every step of a writer, every crash and every power cut preserves it.
LEMMA StepInvariant ==
    ASSUME IInv, Disciplined, [Next]_vars
    PROVE  IInv'
<1>1. CASE UNCHANGED vars
  BY <1>1 DEF vars, IInv, TypeOK, LockInv, CallInv, BufferInv, DurableInv, HistoryInv,
              ChainIntact, LinkOK, AckedDurable, ProgramOrder, HashAfter
<1>2. ASSUME NEW w \in Writer, Construct(w) \/ Open(w) \/ Lock(w) \/ Proceed(w)
                                \/ ShortWrite(w) \/ Crash(w)
      PROVE  IInv'
  <2>1. CASE Proceed(w)
    <3>1. ~ReadFails(w) /\ ~FlushFails(w) /\ ~FsyncFails(w) /\ ~CloseFails(w)
      BY DEF Disciplined, ReadFails, FlushFails, FsyncFails, CloseFails
    <3> QED BY <2>1, <3>1, ReadLastHashStep, FlushStep, FsyncStep, UnlockStep, CloseStep
            DEF Proceed
  <2> QED BY <1>2, <2>1, ConstructStep, OpenStep, LockStep, ShortWriteStep, CrashStep
<1>3. \A w \in Writer : ~OpenFails(w) /\ ~LockFails(w)
  BY DEF Disciplined, OpenFails, LockFails
<1>4. CASE PowerFails
  BY <1>4, PowerFailsStep
<1> QED BY <1>1, <1>2, <1>3, <1>4 DEF Next, WriterNext

-----------------------------------------------------------------------------
(* The theorems. *)

\* The inductive invariant: the lock protects the read of the last hash, the
\* buffer and the write of the line together.
THEOREM Invariance == ASSUME Disciplined PROVE Spec => []IInv
<1>1. Init => IInv
  BY InitInvariant
<1>2. IInv /\ [Next]_vars => IInv'
  BY StepInvariant
<1> QED BY <1>1, <1>2, PTL DEF Spec

\* The model's state always has its type.
THEOREM TypeCorrect == ASSUME Disciplined PROVE Spec => []TypeOK
<1>1. IInv => TypeOK
  BY DEF IInv
<1> QED BY <1>1, Invariance, PTL

\* audit.py:109-111, "the chain never forks": however many processes append,
\* and wherever they or the machine die, the lines of the file verify.
THEOREM ChainNeverForks == ASSUME Disciplined PROVE Spec => []ChainIntact
<1>1. IInv => ChainIntact
  BY DEF IInv
<1> QED BY <1>1, Invariance, PTL

\* audit.py:112-113, "Every record is fsync-ed before record returns": what was
\* acknowledged survives every crash and every power cut.
THEOREM AcknowledgedIsDurable == ASSUME Disciplined PROVE Spec => []AckedDurable
<1>1. IInv => AckedDurable
  BY DEF IInv
<1> QED BY <1>1, Invariance, PTL

\* record() raises AuditLogError only on a log that a crash has damaged: no
\* other writer's half-written line is ever mistaken for damage.
THEOREM RefusesOnlyDamage == ASSUME Disciplined PROVE Spec => RecordRefusesOnlyDamage
<1>1. IInv /\ [Next]_vars => [\A w \in Writer : ReadLastHash(w) /\ err'[w] = "log" => Damaged]_vars
  <2> SUFFICES ASSUME IInv, NEW w \in Writer, ReadLastHash(w), err'[w] = "log"
               PROVE  Damaged
    OBVIOUS
  <2>1. pc[w] = "locked" /\ err[w] = "none"
    BY DEF IInv, ReadLastHash, DurableInv
  <2>2. ~LogReadable
    BY <2>1 DEF ReadLastHash
  <2>3. lines # <<>> => lines[Len(lines)] # Garbage
    <3>1. lines # <<>> => Len(lines) \in 1..Len(lines)
      BY EmptySeq DEF IInv, TypeOK
    <3> QED BY <3>1 DEF IInv, ChainIntact, LinkOK
  <2>4. \A v \in Writer : left[v] = "none"
    BY <2>1 DEF IInv, LockInv, BufferInv, Holding
  <2> QED BY <2>2, <2>3, <2>4 DEF LogReadable, Damaged
<1> QED BY <1>1, Invariance, PTL DEF Spec, RecordRefusesOnlyDamage

\* Nothing is appended after a torn line: only a power cut changes a damaged log.
THEOREM DamageStays == ASSUME Disciplined PROVE Spec => DamageIsFrozen
<1>1. IInv /\ [Next]_vars => [Damaged => \/ lines' = lines /\ tail' = tail
                                       \/ pc' = [w \in Writer |-> "down"]]_vars
  <2> SUFFICES ASSUME IInv, Next, Damaged
               PROVE  \/ lines' = lines /\ tail' = tail
                      \/ pc' = [w \in Writer |-> "down"]
    OBVIOUS
  <2>1. tail # NoTail /\ \A w \in Writer : left[w] \notin {"rest", "newline"}
    <3>1. lines # <<>> => Len(lines) \in 1..Len(lines)
      BY EmptySeq DEF IInv, TypeOK
    <3> QED BY <3>1 DEF IInv, ChainIntact, LinkOK, Damaged
  <2>2. \A w \in Writer : pc[w] # "hashed" /\ left[w] = "none"
    BY <2>1 DEF IInv, BufferInv
  <2>3. ASSUME NEW w \in Writer, Construct(w) \/ Open(w) \/ OpenFails(w) \/ Lock(w)
                                  \/ LockFails(w) \/ Proceed(w) \/ ShortWrite(w) \/ Crash(w)
        PROVE  lines' = lines /\ tail' = tail
    <3>1. ~Flush(w) /\ ~ShortWrite(w)
      BY <2>2 DEF Flush, ShortWrite, WritePart
    <3>2. CASE Close(w)
      BY <2>2, <3>2 DEF Close
    <3> QED BY <2>3, <3>1, <3>2 DEF Construct, Open, OpenFails, Lock, LockFails, Proceed,
             ReadLastHash, ReadFails, FlushFails, Fsync, FsyncFails, Unlock, CloseFails, Crash
  <2>4. CASE PowerFails
    BY <2>4 DEF PowerFails
  <2> QED BY <2>3, <2>4 DEF Next, WriterNext
<1> QED BY <1>1, Invariance, PTL DEF Spec, DamageIsFrozen

-----------------------------------------------------------------------------
(* The refinement of the abstract trail. *)

\* What the mapping makes of an intact chain is a sequence of events.
LEMMA EventsOfType ==
    ASSUME NEW ls \in Seq(Entry \union {Garbage}), \A i \in 1..Len(ls) : LinkOK(ls, i)
    PROVE  /\ EventsOf(ls) \in Seq(Event)
           /\ Len(EventsOf(ls)) = Len(ls)
           /\ Len(ls) \in Nat
           /\ \A i \in 1..Len(ls) : EventsOf(ls)[i] = ls[i].event
<1>1. Len(ls) \in Nat
  BY LenProperties
<1>2. \A i \in 1..Len(ls) : ls[i].event \in Event
  BY LinkedEvents
<1>3. EventsOf(ls) \in [1..Len(ls) -> Event]
  BY <1>2 DEF EventsOf
<1>4. EventsOf(ls) \in Seq(Event)
  BY <1>1, <1>3, SeqDef
<1>5. Len(EventsOf(ls)) \in Nat /\ DOMAIN EventsOf(ls) = 1..Len(EventsOf(ls))
  BY <1>4, LenProperties
<1>6. 1..Len(EventsOf(ls)) = 1..Len(ls)
  BY <1>3, <1>5
<1>7. Len(EventsOf(ls)) = Len(ls)
  BY <1>1, <1>5, <1>6
<1> QED BY <1>1, <1>4, <1>7 DEF EventsOf

\* The same of the file's lines.
LEMMA EventsType ==
    ASSUME TypeOK, ChainIntact
    PROVE  /\ EventsOf(lines) \in Seq(Event)
           /\ Len(EventsOf(lines)) = Len(lines)
           /\ Len(lines) \in Nat
           /\ \A i \in 1..Len(lines) : EventsOf(lines)[i] = lines[i].event
BY EventsOfType DEF TypeOK, ChainIntact

\* A line with a new event is stored.
LEMMA LineStores ==
    ASSUME TypeOK, TypeOK', ChainIntact, ChainIntact', NEW x \in Entry, x.event \in Event,
           \A i \in 1..Len(lines) : lines[i].event # x.event,
           lines' = Append(lines, x), acked' = acked
    PROVE  Trail!Store(x.event)
<1> DEFINE e == x.event
<1>1. /\ EventsOf(lines) \in Seq(Event) /\ Len(EventsOf(lines)) = Len(lines) /\ Len(lines) \in Nat
      /\ \A i \in 1..Len(lines) : EventsOf(lines)[i] = lines[i].event
  BY EventsType
<1>2. /\ EventsOf(lines') \in Seq(Event) /\ Len(EventsOf(lines')) = Len(lines')
      /\ \A i \in 1..Len(lines') : EventsOf(lines')[i] = lines'[i].event
  <2>1. lines' \in Seq(Entry \union {Garbage}) /\ \A i \in 1..Len(lines') : LinkOK(lines', i)
    BY DEF TypeOK, ChainIntact
  <2> QED BY <2>1, EventsOfType
<1>3. /\ Len(lines') = Len(lines) + 1
      /\ \A i \in 1..Len(lines) : lines'[i] = lines[i]
      /\ lines'[Len(lines) + 1] = x
  BY AppendProperties DEF TypeOK
<1>4. EventsOf(lines') = Append(EventsOf(lines), e)
  <2>1. /\ Append(EventsOf(lines), e) \in Seq(Event)
        /\ Len(Append(EventsOf(lines), e)) = Len(EventsOf(lines)) + 1
        /\ \A i \in 1..Len(EventsOf(lines)) : Append(EventsOf(lines), e)[i] = EventsOf(lines)[i]
        /\ Append(EventsOf(lines), e)[Len(EventsOf(lines)) + 1] = e
    BY <1>1, AppendProperties
  <2>2. Len(EventsOf(lines')) = Len(Append(EventsOf(lines), e))
    BY <1>1, <1>2, <1>3, <2>1
  <2>3. \A i \in 1..Len(EventsOf(lines')) : EventsOf(lines')[i] = Append(EventsOf(lines), e)[i]
    <3> SUFFICES ASSUME NEW i \in 1..Len(lines) + 1
                 PROVE  EventsOf(lines')[i] = Append(EventsOf(lines), e)[i]
      BY <1>2, <1>3
    <3>1. CASE i \in 1..Len(lines)
      BY <1>1, <1>2, <1>3, <2>1, <3>1
    <3>2. CASE i = Len(lines) + 1
      BY <1>1, <1>2, <1>3, <2>1, <3>2
    <3> QED BY <1>1, <3>1, <3>2
  <2> QED BY <1>2, <2>1, <2>2, <2>3, SeqEqual
<1> QED BY <1>1, <1>4 DEF Trail!Store, Trail!InTrail

\* Writing a line out stores its event.
LEMMA FlushStores ==
    ASSUME IInv, IInv', NEW w \in Writer, Flush(w)
    PROVE  Trail!Store(entry[w].event)
<1> DEFINE e == entry[w].event
<1>1. e = <<w, calls[w]>> /\ e \in Event /\ e[1] = w /\ e[2] = calls[w]
  <2>1. e = <<w, calls[w]>>
    <3>1. entry[w] = MakeEntry(<<w, calls[w]>>, HashAfter(lines))
      BY FlushEffect
    <3> QED BY <3>1 DEF MakeEntry
  <2>2. <<w, calls[w]>> \in Event
    BY CallEvent DEF Flush, InRecord
  <2> QED BY <2>1, <2>2
<1>2. \A i \in 1..Len(lines) : lines[i].event # e
  <2> SUFFICES ASSUME NEW i \in 1..Len(lines), lines[i].event = e PROVE FALSE
    OBVIOUS
  <2>1. pc[w] = "hashed" /\ calls[w] \in Nat
    BY BoundAssumption DEF IInv, TypeOK, Flush
  <2>2. lines[i].event[2] < calls[w]
    BY <1>1, <2>1 DEF IInv, HistoryInv
  <2> QED BY <1>1, <2>1, <2>2
<1>3. entry[w] \in Entry /\ lines' = Append(lines, entry[w]) /\ acked' = acked
  BY FlushEffect DEF Flush
<1> QED BY <1>1, <1>2, <1>3, LineStores DEF IInv

\* The event of a line is acknowledged.
LEMMA LineAcknowledged ==
    ASSUME TypeOK, ChainIntact, NEW i \in 1..Len(lines),
           lines' = lines, acked' = acked \union {lines[i].event}
    PROVE  Trail!Acknowledge(lines[i].event) /\ lines[i].event \in Event
<1>1. EventsOf(lines)[i] = lines[i].event /\ i \in 1..Len(EventsOf(lines))
  BY EventsType
<1>2. lines[i].event \in Event
  BY LineEvents
<1> QED BY <1>1, <1>2 DEF Trail!Acknowledge, Trail!InTrail

\* A return acknowledges an event of the trail.
LEMMA CloseAcknowledges ==
    ASSUME IInv, NEW w \in Writer, Close(w)
    PROVE  \/ Trail!Acknowledge(entry[w].event) /\ entry[w].event \in Event
           \/ lines' = lines /\ acked' = acked
<1>1. lines' = lines
  BY DEF IInv, Close, BufferInv
<1>2. CASE err[w] = "none"
  <2>1. PICK i \in 1..synced : lines[i] = entry[w]
    BY <1>2 DEF IInv, Close, DurableInv
  <2>2. i \in 1..Len(lines)
    BY EventsType DEF IInv, TypeOK
  <2>3. acked' = acked \union {lines[i].event}
    BY <1>2, <2>1 DEF Close
  <2> QED BY <1>1, <2>1, <2>2, <2>3, LineAcknowledged DEF IInv
<1>3. CASE err[w] # "none"
  BY <1>1, <1>3 DEF Close
<1> QED BY <1>2, <1>3

\* A power cut takes away a suffix with no acknowledged event.
LEMMA PowerCutForgets ==
    ASSUME TypeOK, TypeOK', ChainIntact, ChainIntact', AckedDurable, ProgramOrder, PowerFails
    PROVE  \E n \in 0..Len(lines) : Trail!Forget(n)
<1> PICK n \in synced..Len(lines) : lines' = SubSeq(lines, 1, n)
  BY DEF PowerFails
<1>1. /\ n \in Nat /\ Len(lines) \in Nat /\ Len(lines') = n
      /\ \A i \in 1..n : i \in 1..Len(lines) /\ lines'[i] = lines[i]
  BY CutLines
<1>2. /\ EventsOf(lines) \in Seq(Event) /\ Len(EventsOf(lines)) = Len(lines)
      /\ \A i \in 1..Len(lines) : EventsOf(lines)[i] = lines[i].event
  BY EventsType
<1>3. /\ EventsOf(lines') \in Seq(Event) /\ Len(EventsOf(lines')) = Len(lines')
      /\ \A i \in 1..Len(lines') : EventsOf(lines')[i] = lines'[i].event
  <2>1. lines' \in Seq(Entry \union {Garbage}) /\ \A i \in 1..Len(lines') : LinkOK(lines', i)
    BY DEF TypeOK, ChainIntact
  <2> QED BY <2>1, EventsOfType
<1>4. EventsOf(lines') = SubSeq(EventsOf(lines), 1, n)
  <2>1. \A i \in 1..n : EventsOf(lines)[i] \in Event
    BY <1>1, <1>2, ElementOfSeq
  <2>2. 1 \in Int /\ n \in Int
    BY <1>1
  <2>3. /\ SubSeq(EventsOf(lines), 1, n) \in Seq(Event)
        /\ Len(SubSeq(EventsOf(lines), 1, n)) = IF 1 <= n THEN n - 1 + 1 ELSE 0
        /\ \A i \in 1..n - 1 + 1 : SubSeq(EventsOf(lines), 1, n)[i] = EventsOf(lines)[1 + i - 1]
    BY <2>1, <2>2, SubSeqProperties
  <2>4. Len(SubSeq(EventsOf(lines), 1, n)) = n /\ \A i \in 1..n : SubSeq(EventsOf(lines), 1, n)[i] = EventsOf(lines)[i]
    BY <1>1, <2>3
  <2>5. Len(EventsOf(lines')) = Len(SubSeq(EventsOf(lines), 1, n))
    BY <1>1, <1>3, <2>4
  <2>6. \A i \in 1..Len(EventsOf(lines')) : EventsOf(lines')[i] = SubSeq(EventsOf(lines), 1, n)[i]
    BY <1>1, <1>2, <1>3, <2>4
  <2> QED BY <1>3, <2>3, <2>5, <2>6, SeqEqual
<1>5. \A i \in n+1..Len(lines) : lines[i].event \notin acked
  <2> SUFFICES ASSUME NEW i \in n+1..Len(lines), lines[i].event \in acked PROVE FALSE
    OBVIOUS
  <2>1. synced \in Nat /\ synced <= n
    BY <1>1 DEF TypeOK
  <2>2. PICK j \in 1..synced : lines[j].event = lines[i].event
    BY DEF AckedDurable
  <2>3. i \in 1..Len(lines) /\ j \in 1..Len(lines) /\ j < i
    BY <1>1, <2>1
  <2>4. /\ lines[i] # Garbage /\ lines[j] # Garbage
        /\ lines[i].event[2] \in 1..MaxRecords
    BY <2>3, LineEvents DEF ChainIntact, LinkOK
  <2>5. lines[j].event[2] < lines[i].event[2]
    BY <2>2, <2>3, <2>4 DEF ProgramOrder
  <2> QED BY <2>2, <2>4, <2>5, BoundAssumption
<1>6. acked' = acked
  BY DEF PowerFails
<1>7. Trail!Forget(n)
  <2>1. \A i \in n+1..Len(lines) : EventsOf(lines)[i] \notin acked
    BY <1>1, <1>2, <1>5
  <2> QED BY <1>2, <1>4, <1>6, <2>1 DEF Trail!Forget
<1> QED BY <1>1, <1>7

\* Every step of the detailed log is a step of the trail, or none.
LEMMA StepRefines ==
    ASSUME IInv, IInv', Disciplined, [Next]_vars
    PROVE  [Trail!TrailNext]_(Trail!trailVars)
<1>1. ASSUME lines' = lines, acked' = acked
      PROVE  UNCHANGED Trail!trailVars
  BY <1>1 DEF Trail!trailVars
<1>2. CASE UNCHANGED vars
  BY <1>1, <1>2 DEF vars
<1>3. ASSUME NEW w \in Writer, Construct(w) \/ Open(w) \/ OpenFails(w) \/ Lock(w) \/ LockFails(w)
                                \/ ReadLastHash(w) \/ ReadFails(w) \/ FlushFails(w) \/ Fsync(w)
                                \/ FsyncFails(w) \/ Unlock(w) \/ CloseFails(w)
                                \/ ShortWrite(w) \/ Crash(w)
      PROVE  UNCHANGED Trail!trailVars
  <2>1. lines' = lines /\ acked' = acked
    BY <1>3 DEF Construct, Open, OpenFails, Lock, LockFails, ReadLastHash, ReadFails, FlushFails,
             Fsync, FsyncFails, Unlock, CloseFails, ShortWrite, WritePart, Crash
  <2> QED BY <1>1, <2>1
<1>4. ASSUME NEW w \in Writer, Flush(w) PROVE Trail!TrailNext
  <2>1. Trail!Store(entry[w].event)
    BY <1>4, FlushStores
  <2>2. entry[w].event \in Event
    <3>1. entry[w] \in Entry
      BY <1>4, FlushEffect
    <3> QED BY <3>1 DEF Entry
  <2> QED BY <2>1, <2>2 DEF Trail!TrailNext
<1>5. ASSUME NEW w \in Writer, Close(w) PROVE [Trail!TrailNext]_(Trail!trailVars)
  <2>1. CASE Trail!Acknowledge(entry[w].event) /\ entry[w].event \in Event
    BY <2>1 DEF Trail!TrailNext
  <2>2. CASE lines' = lines /\ acked' = acked
    BY <1>1, <2>2
  <2> QED BY <1>5, <2>1, <2>2, CloseAcknowledges
<1>6. CASE PowerFails
  <2>1. PICK n \in 0..Len(lines) : Trail!Forget(n)
    BY <1>6, PowerCutForgets DEF IInv
  <2>2. n \in 0..Len(EventsOf(lines))
    BY EventsType DEF IInv
  <2> QED BY <2>1, <2>2 DEF Trail!TrailNext
<1> QED BY <1>2, <1>3, <1>4, <1>5, <1>6 DEF Next, WriterNext, Proceed

\* An empty file is an empty trail.
LEMMA TrailStarts ==
    ASSUME Init
    PROVE  Trail!TrailInit
<1>1. Len(EventsOf(lines)) = 0 /\ EventsOf(lines) \in Seq(Event)
  BY InitInvariant, EventsType, EmptySeq DEF Init, IInv
<1>2. EventsOf(lines) = <<>>
  BY <1>1, EmptySeq, SeqEqual
<1> QED BY <1>2 DEF Init, Trail!TrailInit

\* JsonlAuditLog keeps what the AuditLog protocol asks of it (audit.py:83-88).
THEOREM Refinement == ASSUME Disciplined PROVE Spec => ImplementsTrail
<1>1. Init => Trail!TrailInit
  BY TrailStarts
<1>2. IInv /\ IInv' /\ [Next]_vars => [Trail!TrailNext]_(Trail!trailVars)
  BY StepRefines
<1> QED BY <1>1, <1>2, Invariance, PTL DEF Spec, ImplementsTrail, Trail!TrailSpec

-----------------------------------------------------------------------------
(* The inductive invariant of the log, disciplined or not. *)

Line == Entry \union {Garbage}

\* A writer in record() has counted the call, and one that is past the read of
\* the last hash without an exception has built an entry.
EntryInv == \A w \in Writer :
    /\ pc[w] \in InRecord => calls[w] \in 1..MaxRecords
    /\ pc[w] = "failed" => err[w] # "none"
    /\ \/ pc[w] \in {"hashed", "flushed", "durable"}
       \/ pc[w] = "closing" /\ err[w] = "none"
       => entry[w] \in Entry

\* The hash of a line commits to all the events up to it, if the lines up to it verify.
HashesCommit(ls) == \A n \in 1..Len(ls) :
    (\A i \in 1..n : LinkOK(ls, i)) => ls[n].hash = [j \in 1..n |-> ls[j].event]

LogInv ==
    /\ TypeOK
    /\ EntryInv
    /\ HashesCommit(lines)

-----------------------------------------------------------------------------
(* Lemmas about the data. *)

\* Whether a line extends the one before depends on the lines up to it only.
LEMMA LinkIsLocal ==
    ASSUME NEW ls, NEW ms, NEW n \in Nat, NEW i \in 1..n, \A j \in 1..n : ls[j] = ms[j]
    PROVE  LinkOK(ls, i) <=> LinkOK(ms, i)
<1>1. ls[i] = ms[i] /\ (i # 1 => ls[i - 1] = ms[i - 1])
  <2>1. i # 1 => i - 1 \in 1..n
    OBVIOUS
  <2> QED BY <2>1
<1> QED BY <1>1 DEF LinkOK

\* One more line.
LEMMA HashesExtend ==
    ASSUME NEW ls \in Seq(Line), NEW x \in Line, HashesCommit(ls)
    PROVE  HashesCommit(Append(ls, x))
<1> DEFINE ms == Append(ls, x)
           k == Len(ls)
<1>1. /\ k \in Nat /\ Len(ms) = k + 1
      /\ \A i \in 1..k : ms[i] = ls[i]
      /\ ms[k + 1] = x
  BY AppendProperties, LenProperties
<1> HIDE DEF ms, k
<1>2. \A i \in 1..k : LinkOK(ms, i) <=> LinkOK(ls, i)
  BY <1>1, LinkIsLocal
<1> SUFFICES ASSUME NEW n \in 1..k + 1, \A i \in 1..n : LinkOK(ms, i)
             PROVE  ms[n].hash = [j \in 1..n |-> ms[j].event]
  BY <1>1 DEF HashesCommit, ms
<1>3. CASE n \in 1..k
  <2>1. \A i \in 1..n : i \in 1..k
    BY <1>1, <1>3
  <2>2. \A i \in 1..n : LinkOK(ls, i)
    BY <1>2, <2>1
  <2>3. ls[n].hash = [j \in 1..n |-> ls[j].event]
    BY <1>3, <2>2 DEF HashesCommit, k
  <2> QED BY <1>1, <1>3, <2>1, <2>3
<1>4. CASE n = k + 1
  <2>1. LinkOK(ms, k + 1) /\ \A i \in 1..k : LinkOK(ms, i)
    BY <1>1, <1>4
  <2>2. /\ ms[k + 1] # Garbage
        /\ ms[k + 1].prev = IF k = 0 THEN <<>> ELSE ms[k].hash
        /\ ms[k + 1].hash = Append(ms[k + 1].prev, ms[k + 1].event)
    BY <1>1, <2>1 DEF LinkOK, Genesis, EntryHash
  <2>3. ms[k + 1] \in Entry
    BY <1>1, <2>2 DEF Line
  <2>4. ms[k + 1].event \in Event /\ ms[k + 1].prev \in Seq(Event)
    BY <2>3 DEF Entry
  <2>5. Len(ms[k + 1].prev) = k /\ \A j \in 1..k : ms[k + 1].prev[j] = ms[j].event
    <3>1. CASE k = 0
      BY <2>2, <3>1, EmptySeq
    <3>2. CASE k # 0
      <4>1. k \in 1..k
        BY <1>1, <3>2
      <4>2. ls[k].hash = [j \in 1..k |-> ls[j].event]
        BY <1>2, <2>1, <4>1 DEF HashesCommit, k
      <4>3. ms[k + 1].prev = [j \in 1..k |-> ls[j].event]
        BY <1>1, <2>2, <3>2, <4>1, <4>2
      <4>4. Len(ms[k + 1].prev) \in Nat /\ DOMAIN ms[k + 1].prev = 1..Len(ms[k + 1].prev)
        BY <2>4, LenProperties
      <4>5. 1..Len(ms[k + 1].prev) = 1..k
        BY <4>3, <4>4
      <4> QED BY <1>1, <4>3, <4>4, <4>5
    <3> QED BY <3>1, <3>2
  <2>6. /\ ms[k + 1].hash \in Seq(Event)
        /\ Len(ms[k + 1].hash) = k + 1
        /\ \A j \in 1..k : ms[k + 1].hash[j] = ms[j].event
        /\ ms[k + 1].hash[k + 1] = ms[k + 1].event
    BY <2>2, <2>4, <2>5, AppendProperties
  <2>7. DOMAIN ms[k + 1].hash = 1..k + 1
    BY <2>6, LenProperties
  <2>8. ms[k + 1].hash = [j \in 1..k + 1 |-> ms[k + 1].hash[j]]
    BY <2>6, <2>7
  <2>9. \A j \in 1..k + 1 : ms[k + 1].hash[j] = ms[j].event
    BY <1>1, <2>6
  <2> QED BY <1>4, <2>8, <2>9
<1> QED BY <1>1, <1>3, <1>4

\* Fewer lines.
LEMMA HashesCut ==
    ASSUME NEW ls, NEW ms, HashesCommit(ls), Len(ls) \in Nat, Len(ms) \in Nat,
           Len(ms) <= Len(ls), \A i \in 1..Len(ms) : ms[i] = ls[i]
    PROVE  HashesCommit(ms)
<1> SUFFICES ASSUME NEW n \in 1..Len(ms), \A i \in 1..n : LinkOK(ms, i)
             PROVE  ms[n].hash = [j \in 1..n |-> ms[j].event]
  BY DEF HashesCommit
<1>1. \A i \in 1..n : LinkOK(ls, i)
  BY LinkIsLocal
<1>2. ls[n].hash = [j \in 1..n |-> ls[j].event]
  BY <1>1 DEF HashesCommit
<1> QED BY <1>2

\* What a write leaves after the last newline.
LEMMA TailType ==
    ASSUME TypeOK, NEW w \in Writer, NEW to
    PROVE  TailAfter(w, to) \in [of : Line, piece : Piece]
BY DEF TypeOK, TailAfter, Line, Piece

-----------------------------------------------------------------------------
(* Every step of the log preserves its invariant. *)

\* The file grows by a line, stays as it is, or is cut by a power failure.
LEMMA LinesStep ==
    ASSUME TypeOK, [Next]_vars
    PROVE  \/ lines' = lines
           \/ \E x \in Line : lines' = Append(lines, x)
           \/ PowerFails /\ \E n \in synced..Len(lines) : lines' = SubSeq(lines, 1, n)
<1>1. ASSUME NEW w \in Writer, WriteRest(w)
      PROVE  \E x \in Line : lines' = Append(lines, x)
  <2>1. TailAfter(w, "newline").of \in Line
    BY TailType
  <2> QED BY <1>1, <2>1 DEF WriteRest
<1>2. ASSUME NEW w \in Writer, Flush(w) \/ Close(w)
      PROVE  lines' = lines \/ \E x \in Line : lines' = Append(lines, x)
  BY <1>1, <1>2 DEF Flush, Close
<1>3. ASSUME NEW w \in Writer,
             \/ Construct(w) \/ Open(w) \/ OpenFails(w) \/ Lock(w) \/ LockFails(w)
             \/ ReadLastHash(w) \/ ReadFails(w) \/ FlushFails(w) \/ Fsync(w) \/ FsyncFails(w)
             \/ Unlock(w) \/ CloseFails(w) \/ ShortWrite(w) \/ Crash(w)
      PROVE  lines' = lines
  BY <1>3 DEF Construct, Open, OpenFails, Lock, LockFails, ReadLastHash, ReadFails, FlushFails,
     Fsync, FsyncFails, Unlock, CloseFails, ShortWrite, WritePart, Crash
<1>4. CASE PowerFails
  BY <1>4 DEF PowerFails
<1>5. CASE UNCHANGED vars
  BY <1>5 DEF vars
<1> QED BY <1>2, <1>3, <1>4, <1>5 DEF Next, WriterNext, Proceed

\* The lines keep their type, and their hashes what they commit to.
LEMMA LinesKeep ==
    ASSUME LogInv, [Next]_vars
    PROVE  /\ lines' \in Seq(Line)
           /\ Len(lines) \in Nat /\ Len(lines') \in Nat
           /\ synced \in 0..Len(lines) /\ synced <= Len(lines')
           /\ ~PowerFails => Len(lines) <= Len(lines')
           /\ \A i \in 1..Len(lines) : i <= Len(lines') => lines'[i] = lines[i]
           /\ HashesCommit(lines')
<1>1. lines \in Seq(Line) /\ Len(lines) \in Nat /\ synced \in 0..Len(lines)
  BY LenProperties DEF LogInv, TypeOK, Line
<1>2. CASE lines' = lines
  BY <1>1, <1>2 DEF LogInv
<1>3. ASSUME NEW x \in Line, lines' = Append(lines, x)
      PROVE  /\ lines' \in Seq(Line)
             /\ Len(lines') = Len(lines) + 1
             /\ \A i \in 1..Len(lines) : lines'[i] = lines[i]
             /\ HashesCommit(lines')
  BY <1>1, <1>3, AppendProperties, HashesExtend DEF LogInv
<1>4. ASSUME NEW n \in synced..Len(lines), lines' = SubSeq(lines, 1, n)
      PROVE  /\ lines' \in Seq(Line)
             /\ Len(lines') = n
             /\ \A i \in 1..n : lines'[i] = lines[i]
             /\ HashesCommit(lines')
  <2>1. /\ lines' \in Seq(Line) /\ n \in Nat /\ Len(lines') = n
        /\ \A i \in 1..n : lines'[i] = lines[i]
    BY <1>4, CutLines DEF LogInv, Line
  <2>2. HashesCommit(lines')
    BY <1>1, <2>1, HashesCut DEF LogInv
  <2> QED BY <2>1, <2>2
<1> QED BY <1>1, <1>2, <1>3, <1>4, LinesStep DEF LogInv

\* The types of the variables that are not lines.
LEMMA LogTypeStep ==
    ASSUME LogInv, [Next]_vars
    PROVE  TypeOK'
<1>1. /\ lines' \in Seq(Entry \union {Garbage}) /\ synced \in 0..Len(lines')
      /\ Len(lines') \in Nat
  BY LinesKeep DEF Line
<1>2. Garbage \in Line /\ NoTail \in [of : Line, piece : Piece]
  BY DEF Line, NoTail, Piece
<1>3. ASSUME NEW w \in Writer, Construct(w) \/ Open(w) \/ OpenFails(w)
      PROVE  TypeOK'
  <2>1. calls' \in [Writer -> 0..MaxRecords]
    <3>1. calls[w] < MaxRecords => calls[w] + 1 \in 0..MaxRecords
      BY BoundAssumption DEF LogInv, TypeOK
    <3> QED BY <1>3, <3>1 DEF LogInv, TypeOK, Construct, Open, OpenFails
  <2>2. pc' \in [Writer -> PC] /\ err' \in [Writer -> Err]
    BY <1>3 DEF LogInv, TypeOK, Construct, Open, OpenFails, PC, InRecord, Err
  <2>3. UNCHANGED <<lines, tail, synced, holder, entry, left, acked>>
    BY <1>3 DEF Construct, Open, OpenFails
  <2> QED BY <2>1, <2>2, <2>3 DEF LogInv, TypeOK
<1>4. ASSUME NEW w \in Writer, Lock(w) \/ LockFails(w) \/ ReadFails(w) \/ FlushFails(w)
                                 \/ FsyncFails(w) \/ Unlock(w)
      PROVE  TypeOK'
  BY <1>1, <1>4 DEF LogInv, TypeOK, Lock, LockFails, ReadFails, FlushFails, FsyncFails, Unlock,
                    PC, InRecord, Err
<1>5. ASSUME NEW w \in Writer, ReadLastHash(w)
      PROVE  TypeOK'
  <2>1. MakeEntry(<<w, calls[w]>>, HashAfter(lines)) \in Entry
    <3>1. <<w, calls[w]>> \in Event
      BY <1>5 DEF LogInv, EntryInv, ReadLastHash, InRecord, Event
    <3> QED BY <3>1, MakeEntryType, HashAfterType DEF LogInv
  <2>2. entry' \in [Writer -> Entry \union {Garbage}] /\ left' \in [Writer -> Left]
    BY <1>5, <2>1 DEF LogInv, TypeOK, ReadLastHash, Left
  <2>3. pc' \in [Writer -> PC] /\ err' \in [Writer -> Err]
    BY <1>5 DEF LogInv, TypeOK, ReadLastHash, PC, InRecord, Err
  <2>4. UNCHANGED <<lines, tail, synced, holder, calls, acked>>
    BY <1>5 DEF ReadLastHash
  <2> QED BY <2>2, <2>3, <2>4 DEF LogInv, TypeOK
<1>6. ASSUME NEW w \in Writer, ShortWrite(w)
      PROVE  TypeOK'
  <2>1. tail' \in [of : Line, piece : Piece]
    BY <1>6, TailType DEF LogInv, ShortWrite, WritePart
  <2>2. left' \in [Writer -> Left]
    BY <1>6 DEF LogInv, TypeOK, ShortWrite, WritePart, Left
  <2> QED BY <1>1, <1>6, <2>1, <2>2 DEF LogInv, TypeOK, ShortWrite, Line
<1>7. ASSUME NEW w \in Writer, Flush(w) \/ Close(w) \/ CloseFails(w)
      PROVE  TypeOK'
  <2>1. tail' \in [of : Line, piece : Piece] /\ left' \in [Writer -> Left]
    BY <1>2, <1>7 DEF LogInv, TypeOK, Flush, Close, CloseFails, WriteRest, Line, Left
  <2>2. acked' \subseteq Event
    <3>1. Close(w) /\ err[w] = "none" => entry[w] \in Entry
      BY DEF LogInv, EntryInv, Close
    <3>2. \A e \in Entry : e.event \in Event
      BY DEF Entry
    <3> QED BY <1>7, <3>1, <3>2 DEF LogInv, TypeOK, Flush, Close, CloseFails
  <2> QED BY <1>1, <1>7, <2>1, <2>2 DEF LogInv, TypeOK, Flush, Close, CloseFails, PC, InRecord, Line
<1>8. ASSUME NEW w \in Writer, Fsync(w)
      PROVE  TypeOK'
  BY <1>1, <1>8, LinesKeep DEF LogInv, TypeOK, Fsync, PC, InRecord
<1>9. ASSUME NEW w \in Writer, Crash(w)
      PROVE  TypeOK'
  BY <1>1, <1>9 DEF LogInv, TypeOK, Crash, PC, Left, Err
<1>10. CASE PowerFails
  <2>1. tail' \in [of : Line, piece : Piece]
    <3>1. PICK n \in synced..Len(lines) :
            IF n = Len(lines)
            THEN tail' \in {NoTail, tail}
            ELSE tail' \in {NoTail} \union
                    (IF lines[n+1] = Garbage THEN {[of |-> Garbage, piece |-> "mixed"]}
                     ELSE {[of |-> lines[n+1], piece |-> p] : p \in {"head", "object"}})
      BY <1>10 DEF PowerFails
    <3>2. n # Len(lines) => lines[n + 1] \in Line
      BY LinesKeep, ElementOfSeq DEF LogInv, TypeOK, Line
    <3> QED BY <1>2, <3>1, <3>2 DEF LogInv, TypeOK, Line, Piece
  <2> QED BY <1>1, <1>10, <2>1 DEF LogInv, TypeOK, PowerFails, PC, Left, Err, Line
<1>11. CASE UNCHANGED vars
  BY <1>11 DEF vars, LogInv, TypeOK
<1> QED BY <1>3, <1>4, <1>5, <1>6, <1>7, <1>8, <1>9, <1>10, <1>11 DEF Next, WriterNext, Proceed

\* What a writer has done, and what its entry is.
LEMMA EntryStep ==
    ASSUME LogInv, [Next]_vars
    PROVE  EntryInv'
<1>1. ASSUME NEW w \in Writer, Construct(w) \/ Open(w) \/ OpenFails(w)
      PROVE  EntryInv'
  <2>1. calls[w] < MaxRecords => calls[w] + 1 \in 1..MaxRecords
    BY BoundAssumption DEF LogInv, TypeOK
  <2>2. Construct(w) => pc'[w] \in {"down", "idle"} /\ calls' = calls
    BY DEF LogInv, TypeOK, Construct
  <2>3. Open(w) => pc'[w] = "opened" /\ calls'[w] = calls[w] + 1 /\ calls[w] < MaxRecords
    BY BoundAssumption DEF LogInv, TypeOK, Open
  <2>4. OpenFails(w) => pc'[w] = "idle"
    BY DEF LogInv, TypeOK, OpenFails
  <2>5. entry' = entry
    BY <1>1 DEF Construct, Open, OpenFails
  <2>6. \A v \in Writer : v # w => pc'[v] = pc[v] /\ calls'[v] = calls[v] /\ err'[v] = err[v]
    BY <1>1 DEF LogInv, TypeOK, Construct, Open, OpenFails
  <2> QED BY <1>1, <2>1, <2>2, <2>3, <2>4, <2>5, <2>6 DEF LogInv, EntryInv, InRecord
<1>2. ASSUME NEW w \in Writer, ReadLastHash(w)
      PROVE  EntryInv'
  <2>1. MakeEntry(<<w, calls[w]>>, HashAfter(lines)) \in Entry
    <3>1. <<w, calls[w]>> \in Event
      BY <1>2 DEF LogInv, EntryInv, ReadLastHash, InRecord, Event
    <3> QED BY <3>1, MakeEntryType, HashAfterType DEF LogInv
  <2>2. \/ pc'[w] = "hashed" /\ entry'[w] \in Entry
        \/ pc'[w] = "failed" /\ err'[w] = "log"
    BY <1>2, <2>1 DEF LogInv, TypeOK, ReadLastHash
  <2>3. \A v \in Writer : v # w => pc'[v] = pc[v] /\ entry'[v] = entry[v] /\ err'[v] = err[v]
    BY <1>2 DEF LogInv, TypeOK, ReadLastHash
  <2>4. calls' = calls /\ pc[w] \in InRecord
    BY <1>2 DEF ReadLastHash, InRecord
  <2> QED BY <2>2, <2>3, <2>4 DEF LogInv, EntryInv
<1>3. ASSUME NEW w \in Writer,
             \/ Lock(w) \/ LockFails(w) \/ ReadFails(w) \/ ShortWrite(w) \/ Flush(w) \/ FlushFails(w)
             \/ Fsync(w) \/ FsyncFails(w) \/ Unlock(w) \/ Close(w) \/ CloseFails(w) \/ Crash(w)
      PROVE  EntryInv'
  <2>1. calls' = calls /\ entry' = entry
    BY <1>3 DEF Lock, LockFails, ReadFails, ShortWrite, Flush, FlushFails, Fsync, FsyncFails,
                Unlock, Close, CloseFails, Crash
  <2>2. \A v \in Writer : v # w => pc'[v] = pc[v] /\ err'[v] = err[v]
    BY <1>3 DEF LogInv, TypeOK, Lock, LockFails, ReadFails, ShortWrite, Flush, FlushFails, Fsync,
                FsyncFails, Unlock, Close, CloseFails, Crash
  <2>3. /\ pc'[w] \in InRecord => pc[w] \in InRecord
        /\ pc'[w] = "failed" => err'[w] # "none"
        /\ \/ pc'[w] \in {"hashed", "flushed", "durable"}
           \/ pc'[w] = "closing" /\ err'[w] = "none"
           => \/ pc[w] \in {"hashed", "flushed", "durable"}
              \/ pc[w] = "closing" /\ err[w] = "none"
    BY <1>3 DEF LogInv, TypeOK, EntryInv, InRecord, Lock, LockFails, ReadFails, ShortWrite, Flush,
                FlushFails, Fsync, FsyncFails, Unlock, Close, CloseFails, Crash
  <2> QED BY <2>1, <2>2, <2>3 DEF LogInv, EntryInv
<1>4. CASE PowerFails
  BY <1>4 DEF PowerFails, EntryInv, InRecord
<1>5. CASE UNCHANGED vars
  BY <1>5 DEF vars, LogInv, EntryInv
<1> QED BY <1>1, <1>2, <1>3, <1>4, <1>5 DEF Next, WriterNext, Proceed

\* The log starts empty.
LEMMA LogInit ==
    ASSUME Init
    PROVE  LogInv
<1>1. TypeOK
  <2>1. NoTail \in [of : Entry \union {Garbage}, piece : Piece]
    BY DEF NoTail, Piece
  <2>2. lines \in Seq(Entry \union {Garbage}) /\ Len(lines) = 0
    BY EmptySeq DEF Init
  <2>3. synced \in 0..Len(lines)
    BY <2>2 DEF Init
  <2>4. calls \in [Writer -> 0..MaxRecords]
    BY BoundAssumption DEF Init
  <2> QED BY <2>1, <2>2, <2>3, <2>4 DEF Init, TypeOK, PC, InRecord, Left, Err
<1>2. EntryInv
  BY DEF Init, EntryInv, InRecord
<1>3. HashesCommit(lines)
  BY EmptySeq DEF Init, HashesCommit
<1> QED BY <1>1, <1>2, <1>3 DEF LogInv

\* Every step of a writer, with and without a lock, on a good and on a bad disk.
LEMMA LogStep ==
    ASSUME LogInv, [Next]_vars
    PROVE  LogInv'
BY LogTypeStep, EntryStep, LinesKeep DEF LogInv


\* A log keeps its shape on any platform and any disk: with and without flock,
\* with writes, fsyncs and closes that fail, each line is an entry or garbage,
\* and the hash of a line commits to every event before it.
THEOREM LogInvariance == Spec => []LogInv
<1>1. Init => LogInv
  BY LogInit
<1>2. LogInv /\ [Next]_vars => LogInv'
  BY LogStep
<1> QED BY <1>1, <1>2, PTL DEF Spec

\* The type of the log's state, with nothing assumed of disk and platform.
THEOREM LogTypeCorrect == Spec => []TypeOK
<1>1. LogInv => TypeOK
  BY DEF LogInv
<1> QED BY <1>1, LogInvariance, PTL

-----------------------------------------------------------------------------
(* The order of a writer's events, with any number of writers and whatever *)
(* the platform and the disk do.                                           *)

\* What a writer has in its buffer is its current call's; it has none of it in
\* the file yet, nor anything of a later call.
OrderInv ==
    /\ \A w \in Writer : left[w] # "none" =>
        /\ pc[w] \in {"hashed", "failed", "closing"}
        /\ entry[w] \in Entry
        /\ entry[w].event = <<w, calls[w]>>
    /\ \A i \in 1..Len(lines) : \A w \in Writer :
        lines[i] # Garbage /\ lines[i].event[1] = w =>
            /\ lines[i].event[2] \in Nat
            /\ lines[i].event[2] <= calls[w]
            /\ pc[w] \in {"opened", "locked"} \/ left[w] # "none" => lines[i].event[2] < calls[w]

\* A step that leaves the lines alone, and begins no call and no line.
LEMMA OrderQuietStep ==
    ASSUME LogInv, OrderInv, NEW w \in Writer,
           \/ Construct(w) \/ OpenFails(w) \/ Lock(w) \/ LockFails(w) \/ ReadFails(w)
           \/ FlushFails(w) \/ Fsync(w) \/ FsyncFails(w) \/ Unlock(w) \/ CloseFails(w)
           \/ ShortWrite(w) \/ Crash(w)
    PROVE  OrderInv'
<1>1. UNCHANGED <<lines, entry>>
  BY DEF Construct, OpenFails, Lock, LockFails, ReadFails, FlushFails, Fsync, FsyncFails, Unlock,
         CloseFails, ShortWrite, WritePart, Crash
<1>2. \A v \in Writer : v # w => pc'[v] = pc[v] /\ left'[v] = left[v] /\ calls'[v] = calls[v]
  BY DEF LogInv, TypeOK, Construct, OpenFails, Lock, LockFails, ReadFails, FlushFails, Fsync,
         FsyncFails, Unlock, CloseFails, ShortWrite, WritePart, Crash
<1>3. left'[w] # "none" => /\ left[w] # "none"
                           /\ pc'[w] \in {"hashed", "failed", "closing"}
                           /\ calls'[w] = calls[w]
  BY DEF LogInv, TypeOK, OrderInv, Construct, OpenFails, Lock, LockFails, ReadFails, FlushFails,
         Fsync, FsyncFails, Unlock, CloseFails, ShortWrite, WritePart, Crash
<1>4. /\ calls'[w] = calls[w] \/ (calls'[w] = calls[w] + 1 /\ pc'[w] = "idle")
      /\ pc'[w] \in {"opened", "locked"} => pc[w] \in {"opened", "locked"}
      /\ calls[w] \in Nat
  BY BoundAssumption DEF LogInv, TypeOK, Construct, OpenFails, Lock, LockFails, ReadFails,
     FlushFails, Fsync, FsyncFails, Unlock, CloseFails, ShortWrite, WritePart, Crash
<1>5. \A v \in Writer : left'[v] # "none" =>
        /\ pc'[v] \in {"hashed", "failed", "closing"}
        /\ entry'[v] \in Entry
        /\ entry'[v].event = <<v, calls'[v]>>
  BY <1>1, <1>2, <1>3 DEF OrderInv
<1>6. \A i \in 1..Len(lines) : \A v \in Writer :
        lines[i] # Garbage /\ lines[i].event[1] = v =>
            /\ lines[i].event[2] \in Nat
            /\ lines[i].event[2] <= calls'[v]
            /\ pc'[v] \in {"opened", "locked"} \/ left'[v] # "none" => lines[i].event[2] < calls'[v]
  BY <1>2, <1>3, <1>4 DEF OrderInv
<1> QED BY <1>1, <1>5, <1>6 DEF OrderInv

\* A call begins: its number is above those of all the writer's lines.
LEMMA OrderOpenStep ==
    ASSUME LogInv, OrderInv, NEW w \in Writer, Open(w)
    PROVE  OrderInv'
<1>1. UNCHANGED <<lines, entry, left>> /\ left[w] = "none"
  BY DEF OrderInv, Open
<1>2. calls'[w] = calls[w] + 1 /\ calls[w] \in Nat
  BY BoundAssumption DEF LogInv, TypeOK, Open
<1>3. \A v \in Writer : v # w => pc'[v] = pc[v] /\ calls'[v] = calls[v]
  BY DEF LogInv, TypeOK, Open
<1> QED BY <1>1, <1>2, <1>3 DEF OrderInv

\* An entry is made of the current call's event.
LEMMA OrderReadStep ==
    ASSUME LogInv, OrderInv, NEW w \in Writer, ReadLastHash(w)
    PROVE  OrderInv'
<1>1. UNCHANGED <<lines, calls>> /\ pc[w] = "locked" /\ left[w] = "none"
  BY DEF OrderInv, ReadLastHash
<1>2. MakeEntry(<<w, calls[w]>>, HashAfter(lines)) \in Entry
  <2>1. <<w, calls[w]>> \in Event
    BY <1>1 DEF LogInv, EntryInv, InRecord, Event
  <2> QED BY <2>1, MakeEntryType, HashAfterType DEF LogInv
<1>3. left'[w] # "none" => /\ pc'[w] = "hashed"
                           /\ entry'[w] \in Entry
                           /\ entry'[w].event = <<w, calls[w]>>
  <2>1. MakeEntry(<<w, calls[w]>>, HashAfter(lines)).event = <<w, calls[w]>>
    BY DEF MakeEntry
  <2>2. CASE LogReadable
    BY <1>2, <2>1, <2>2 DEF LogInv, TypeOK, ReadLastHash
  <2>3. CASE ~LogReadable
    BY <1>1, <2>3 DEF ReadLastHash
  <2> QED BY <2>2, <2>3
<1>4. pc'[w] \notin {"opened", "locked"}
  BY DEF LogInv, TypeOK, ReadLastHash
<1>5. \A v \in Writer : v # w => pc'[v] = pc[v] /\ left'[v] = left[v] /\ entry'[v] = entry[v]
  BY DEF LogInv, TypeOK, ReadLastHash
<1> QED BY <1>1, <1>3, <1>4, <1>5 DEF OrderInv

\* A line is written out: it is the entry, or garbage if bytes of another writer
\* came in between.
LEMMA OrderWriteStep ==
    ASSUME LogInv, OrderInv, ProgramOrder, NEW w \in Writer,
           Flush(w) \/ (Close(w) /\ left[w] # "none")
    PROVE  OrderInv' /\ ProgramOrder'
<1>1. /\ UNCHANGED <<entry, calls>> /\ left[w] # "none" /\ left'[w] = "none"
      /\ pc'[w] \in {"flushed", "idle"}
      /\ lines' = Append(lines, TailAfter(w, "newline").of)
  BY DEF LogInv, TypeOK, Flush, Close, WriteRest
<1>2. \A v \in Writer : v # w => pc'[v] = pc[v] /\ left'[v] = left[v]
  BY DEF LogInv, TypeOK, Flush, Close, WriteRest
<1> PICK x \in {entry[w], Garbage} : lines' = Append(lines, x)
  BY <1>1 DEF TailAfter
<1>3. entry[w] \in Entry /\ entry[w].event = <<w, calls[w]>> /\ calls[w] \in Nat
  BY <1>1, BoundAssumption DEF LogInv, TypeOK, OrderInv
<1>4. /\ Len(lines) \in Nat
      /\ Len(lines') = Len(lines) + 1
      /\ \A i \in 1..Len(lines) : lines'[i] = lines[i]
      /\ lines'[Len(lines) + 1] = x
  <2>1. lines \in Seq(Line) /\ x \in Line
    BY <1>3 DEF LogInv, TypeOK, Line
  <2> QED BY <2>1, AppendProperties, LenProperties
<1>5. x # Garbage => x.event = <<w, calls[w]>>
  BY <1>3
<1>6. OrderInv'
  <2>1. \A v \in Writer : left'[v] # "none" =>
          /\ pc'[v] \in {"hashed", "failed", "closing"}
          /\ entry'[v] \in Entry
          /\ entry'[v].event = <<v, calls'[v]>>
    BY <1>1, <1>2 DEF OrderInv
  <2>2. ASSUME NEW i \in 1..Len(lines'), NEW v \in Writer,
               lines'[i] # Garbage, lines'[i].event[1] = v
        PROVE  /\ lines'[i].event[2] \in Nat
               /\ lines'[i].event[2] <= calls[v]
               /\ pc'[v] \in {"opened", "locked"} \/ left'[v] # "none" =>
                    lines'[i].event[2] < calls[v]
    <3>1. CASE i \in 1..Len(lines)
      BY <1>1, <1>2, <1>4, <2>2, <3>1 DEF OrderInv
    <3>2. CASE i = Len(lines) + 1
      <4>1. v = w /\ lines'[i].event[2] = calls[w]
        BY <1>4, <1>5, <2>2, <3>2
      <4> QED BY <1>1, <1>3, <4>1
    <3> QED BY <1>4, <3>1, <3>2
  <2> QED BY <1>1, <2>1, <2>2 DEF OrderInv
<1>7. ProgramOrder'
  <2> SUFFICES ASSUME NEW i \in 1..Len(lines'), NEW j \in 1..Len(lines'), i < j,
                      lines'[i] # Garbage, lines'[j] # Garbage,
                      lines'[i].event[1] = lines'[j].event[1]
               PROVE  lines'[i].event[2] < lines'[j].event[2]
    BY DEF ProgramOrder
  <2>1. i \in 1..Len(lines) /\ lines'[i] = lines[i]
    BY <1>4
  <2>2. CASE j \in 1..Len(lines)
    BY <1>4, <2>1, <2>2 DEF ProgramOrder
  <2>3. CASE j = Len(lines) + 1
    <3>1. lines'[j].event = <<w, calls[w]>>
      BY <1>4, <1>5, <2>3
    <3>2. lines[i].event[1] = w /\ lines[i] # Garbage
      BY <2>1, <3>1
    <3>3. lines[i].event[2] < calls[w]
      BY <1>1, <2>1, <3>2 DEF OrderInv
    <3> QED BY <2>1, <3>1, <3>3
  <2> QED BY <1>4, <2>2, <2>3
<1> QED BY <1>6, <1>7

\* Every step of every writer, and of the machine.
LEMMA OrderStep ==
    ASSUME LogInv, OrderInv, ProgramOrder, [Next]_vars
    PROVE  OrderInv' /\ ProgramOrder'
<1>1. ASSUME lines' = lines
      PROVE  ProgramOrder'
  BY <1>1 DEF ProgramOrder
<1>2. ASSUME NEW w \in Writer,
             \/ Construct(w) \/ OpenFails(w) \/ Lock(w) \/ LockFails(w) \/ ReadFails(w)
             \/ FlushFails(w) \/ Fsync(w) \/ FsyncFails(w) \/ Unlock(w) \/ CloseFails(w)
             \/ ShortWrite(w) \/ Crash(w)
      PROVE  OrderInv' /\ ProgramOrder'
  <2>1. lines' = lines
    BY <1>2 DEF Construct, OpenFails, Lock, LockFails, ReadFails, FlushFails, Fsync, FsyncFails,
                Unlock, CloseFails, ShortWrite, WritePart, Crash
  <2> QED BY <1>1, <1>2, <2>1, OrderQuietStep
<1>3. ASSUME NEW w \in Writer, Open(w) \/ ReadLastHash(w)
      PROVE  OrderInv' /\ ProgramOrder'
  <2>1. lines' = lines
    BY <1>3 DEF Open, ReadLastHash
  <2> QED BY <1>1, <1>3, <2>1, OrderOpenStep, OrderReadStep
<1>4. ASSUME NEW w \in Writer, Flush(w) \/ Close(w)
      PROVE  OrderInv' /\ ProgramOrder'
  <2>1. CASE Close(w) /\ left[w] = "none"
    <3>1. UNCHANGED <<lines, entry, left, calls>>
      BY <2>1 DEF Close
    <3>2. pc'[w] = "idle" /\ \A v \in Writer : v # w => pc'[v] = pc[v]
      BY <2>1 DEF LogInv, TypeOK, Close
    <3>3. OrderInv'
      BY <2>1, <3>1, <3>2 DEF OrderInv
    <3> QED BY <1>1, <3>1, <3>3
  <2>2. CASE Flush(w) \/ (Close(w) /\ left[w] # "none")
    BY <2>2, OrderWriteStep
  <2> QED BY <1>4, <2>1, <2>2
<1>5. CASE PowerFails
  <2> PICK n \in synced..Len(lines) : lines' = SubSeq(lines, 1, n)
    BY <1>5 DEF PowerFails
  <2>1. /\ n \in Nat /\ Len(lines') = n
        /\ \A i \in 1..n : i \in 1..Len(lines) /\ lines'[i] = lines[i]
    BY CutLines DEF LogInv
  <2>2. calls' = calls /\ \A w \in Writer : pc'[w] = "down" /\ left'[w] = "none"
    BY <1>5 DEF PowerFails
  <2>3. OrderInv'
    BY <2>1, <2>2 DEF OrderInv
  <2>4. ProgramOrder'
    BY <2>1 DEF ProgramOrder
  <2> QED BY <2>3, <2>4
<1>6. CASE UNCHANGED vars
  BY <1>1, <1>6 DEF vars, OrderInv
<1> QED BY <1>2, <1>3, <1>4, <1>5, <1>6 DEF Next, WriterNext, Proceed

\* No event is recorded twice, and a writer's events keep the order of its calls,
\* with any number of writers, with and without a lock, and even where a failing
\* disk forks the chain: a line that close() writes late is before the next one.
THEOREM EventsInOrder == Spec => []ProgramOrder
<1>1. Init => OrderInv /\ ProgramOrder
  <2>1. Init => Len(lines) = 0
    BY EmptySeq DEF Init
  <2> QED BY <2>1 DEF Init, OrderInv, ProgramOrder
<1>2. LogInv /\ OrderInv /\ ProgramOrder /\ [Next]_vars => OrderInv' /\ ProgramOrder'
  BY OrderStep
<1> QED BY <1>1, <1>2, LogInvariance, PTL DEF Spec

-----------------------------------------------------------------------------
(* A log with one writer: no flock is needed, and the disk may fail. *)

Alone == \E w \in Writer : Writer = {w}

\* What the writer has in its buffer, and has put of it in the file, are the two
\* parts of one entry that extends the last line, also after a flush has raised.
SoloBufferInv == \A w \in Writer :
    /\ pc[w] = "hashed" => left[w] # "none"
    /\ left[w] # "none" =>
        /\ pc[w] \in {"hashed", "failed", "closing"}
        /\ entry[w] = MakeEntry(<<w, calls[w]>>, HashAfter(lines))
        /\ \/ left[w] = "all" /\ tail = NoTail
           \/ left[w] = "rest" /\ tail = [of |-> entry[w], piece |-> "head"]
           \/ left[w] = "newline" /\ tail = [of |-> entry[w], piece |-> "object"]

\* A line still in the buffer is of a call that raises; the line of any other is
\* the last one until it is durable.
SoloDurableInv == \A w \in Writer :
    /\ pc[w] \in {"opened", "locked", "hashed", "flushed", "durable"} => err[w] = "none"
    /\ pc[w] = "failed" \/ (pc[w] = "closing" /\ left[w] # "none") => err[w] # "none"
    /\ pc[w] = "flushed" => lines # <<>> /\ lines[Len(lines)] = entry[w]
    /\ pc[w] \in {"durable", "closing"} /\ err[w] = "none" =>
            \E i \in 1..synced : lines[i] = entry[w]

\* No line comes from the call that is still to write its line.
SoloHistoryInv == \A i \in 1..Len(lines) : \A w \in Writer :
    /\ lines[i].event[2] <= calls[w]
    /\ pc[w] \in {"opened", "locked"} \/ left[w] # "none" => lines[i].event[2] < calls[w]

SoloInv ==
    /\ SoloBufferInv
    /\ SoloDurableInv
    /\ SoloHistoryInv
    /\ ChainIntact
    /\ AckedDurable
    /\ ProgramOrder

-----------------------------------------------------------------------------
(* Every step of the only writer preserves it. *)

\* Bytes that reach the file join up with what is there.
LEMMA SoloTail ==
    ASSUME SoloInv, NEW w \in Writer, left[w] # "none", NEW to \in {"rest", "newline"}
    PROVE  TailAfter(w, to) = [of |-> entry[w], piece |-> IF to = "rest" THEN "head" ELSE "object"]
<1>1. \/ left[w] = "all" /\ tail = NoTail
      \/ left[w] = "rest" /\ tail = [of |-> entry[w], piece |-> "head"]
      \/ left[w] = "newline" /\ tail = [of |-> entry[w], piece |-> "object"]
  BY DEF SoloInv, SoloBufferInv
<1> QED BY <1>1 DEF TailAfter

\* What a whole write adds to the file, in record() or in close().
LEMMA SoloWrite ==
    ASSUME LogInv, SoloInv, NEW w \in Writer, WriteRest(w)
    PROVE  /\ entry[w] = MakeEntry(<<w, calls[w]>>, HashAfter(lines))
           /\ entry[w] \in Entry
           /\ <<w, calls[w]>> \in Event
           /\ entry[w].event = <<w, calls[w]>>
           /\ lines' = Append(lines, entry[w])
           /\ lines' \in Seq(Line)
           /\ Len(lines) \in Nat
           /\ Len(lines') = Len(lines) + 1
           /\ \A i \in 1..Len(lines) : lines'[i] = lines[i]
           /\ lines'[Len(lines) + 1] = entry[w]
<1>1. /\ left[w] # "none"
      /\ pc[w] \in InRecord
      /\ entry[w] = MakeEntry(<<w, calls[w]>>, HashAfter(lines))
  BY DEF WriteRest, SoloInv, SoloBufferInv, InRecord
<1>2. <<w, calls[w]>> \in Event
  BY <1>1 DEF LogInv, EntryInv, Event
<1>3. entry[w] \in Entry /\ entry[w].event = <<w, calls[w]>>
  <2>1. entry[w] \in Entry
    BY <1>1, <1>2, HashAfterType, MakeEntryType DEF LogInv
  <2> QED BY <1>1, <2>1 DEF MakeEntry
<1>4. lines' = Append(lines, entry[w])
  <2>1. TailAfter(w, "newline").of = entry[w]
    BY <1>1, SoloTail
  <2> QED BY <2>1 DEF WriteRest
<1>5. lines \in Seq(Line) /\ entry[w] \in Line /\ Len(lines) \in Nat
  BY <1>3, LenProperties DEF LogInv, TypeOK, Line
<1> QED BY <1>1, <1>2, <1>3, <1>4, <1>5, AppendProperties

\* The event of a line that is written out is new, and the last of its writer.
LEMMA SoloNewEvent ==
    ASSUME LogInv, SoloInv, NEW w, Writer = {w}, WriteRest(w)
    PROVE  /\ \A i \in 1..Len(lines) : /\ lines[i].event[2] < calls[w]
                                       /\ lines[i].event # entry[w].event
           /\ ChainIntact'
           /\ ProgramOrder'
           /\ \A i \in 1..Len(lines') : lines'[i].event[2] <= calls[w]
<1>0. /\ <<w, calls[w]>> \in Event
      /\ entry[w] = MakeEntry(<<w, calls[w]>>, HashAfter(lines))
      /\ entry[w].event = <<w, calls[w]>>
      /\ lines' = Append(lines, entry[w])
      /\ Len(lines) \in Nat
      /\ Len(lines') = Len(lines) + 1
      /\ \A i \in 1..Len(lines) : lines'[i] = lines[i]
      /\ lines'[Len(lines) + 1] = entry[w]
  BY SoloWrite
<1>1. \A i \in 1..Len(lines) : lines[i].event[2] < calls[w] /\ lines[i].event[2] \in Nat
  <2>1. left[w] # "none"
    BY DEF WriteRest
  <2>2. \A i \in 1..Len(lines) : lines[i].event[2] \in 1..MaxRecords
    BY LineEvents DEF LogInv, SoloInv
  <2> QED BY <2>1, <2>2, BoundAssumption DEF SoloInv, SoloHistoryInv
<1>2. calls[w] \in Nat /\ entry[w].event[2] = calls[w]
  <2>1. w \in Writer /\ calls \in [Writer -> 0..MaxRecords]
    BY DEF LogInv, TypeOK
  <2>2. calls[w] \in 0..MaxRecords
    BY <2>1
  <2> QED BY <1>0, <2>2, BoundAssumption
<1>3. \A i \in 1..Len(lines) : lines[i].event # entry[w].event
  BY <1>1, <1>2
<1>4. ChainIntact'
  BY <1>0, ExtendChain DEF LogInv, SoloInv
<1>5. ProgramOrder'
  <2> SUFFICES ASSUME NEW i \in 1..Len(lines'), NEW j \in 1..Len(lines'), i < j,
                      lines'[i] # Garbage, lines'[j] # Garbage,
                      lines'[i].event[1] = lines'[j].event[1]
               PROVE  lines'[i].event[2] < lines'[j].event[2]
    BY DEF ProgramOrder
  <2>1. i \in 1..Len(lines) /\ lines'[i] = lines[i]
    BY <1>0
  <2>2. CASE j \in 1..Len(lines)
    BY <2>1, <2>2, <1>0 DEF SoloInv, ProgramOrder
  <2>3. CASE j = Len(lines) + 1
    BY <1>0, <1>1, <1>2, <2>1, <2>3
  <2> QED BY <2>2, <2>3, <1>0
<1>6. \A i \in 1..Len(lines') : lines'[i].event[2] <= calls[w]
  <2> SUFFICES ASSUME NEW i \in 1..Len(lines')
               PROVE  lines'[i].event[2] <= calls[w]
    OBVIOUS
  <2>1. CASE i \in 1..Len(lines)
    BY <1>0, <1>1, <1>2, <2>1
  <2>2. CASE i = Len(lines) + 1
    BY <1>0, <1>2, <2>2
  <2> QED BY <1>0, <2>1, <2>2
<1> QED BY <1>1, <1>3, <1>4, <1>5, <1>6

\* What the writer does between calls, and up to the read of the last hash.
LEMMA SoloBeginStep ==
    ASSUME LogInv, SoloInv, NEW w, Writer = {w},
           Construct(w) \/ Open(w) \/ OpenFails(w) \/ Lock(w) \/ LockFails(w)
    PROVE  SoloInv'
<1>1. UNCHANGED <<lines, tail, synced, entry, left, acked>>
  BY DEF Construct, Open, OpenFails, Lock, LockFails
<1>2. left[w] = "none" /\ pc'[w] \notin {"hashed", "failed", "flushed", "durable"}
  BY DEF LogInv, TypeOK, SoloInv, SoloBufferInv, Construct, Open, OpenFails, Lock, LockFails
<1>3. SoloBufferInv'
  BY <1>1, <1>2 DEF SoloBufferInv
<1>4. SoloDurableInv'
  <2>1. /\ pc'[w] \in {"opened", "locked"} => err'[w] = "none"
        /\ pc'[w] = "closing" => err'[w] # "none"
    BY DEF LogInv, TypeOK, SoloInv, SoloDurableInv, Construct, Open, OpenFails, Lock, LockFails
  <2> QED BY <1>1, <1>2, <2>1 DEF SoloDurableInv
<1>5. SoloHistoryInv'
  <2>1. calls[w] \in Nat /\ \A i \in 1..Len(lines) : lines[i].event[2] \in Nat
    BY LineEvents, BoundAssumption DEF LogInv, TypeOK, SoloInv
  <2>2. \/ calls'[w] = calls[w] + 1
        \/ calls'[w] = calls[w] /\ (pc'[w] \in {"opened", "locked"} => pc[w] \in {"opened", "locked"})
    BY DEF LogInv, TypeOK, Construct, Open, OpenFails, Lock, LockFails
  <2> SUFFICES ASSUME NEW i \in 1..Len(lines)
               PROVE  /\ lines[i].event[2] <= calls'[w]
                      /\ pc'[w] \in {"opened", "locked"} => lines[i].event[2] < calls'[w]
    BY <1>1, <1>2 DEF SoloHistoryInv
  <2>3. /\ lines[i].event[2] <= calls[w]
        /\ pc[w] \in {"opened", "locked"} => lines[i].event[2] < calls[w]
    BY DEF SoloInv, SoloHistoryInv
  <2> QED BY <2>1, <2>2, <2>3
<1>6. ChainIntact' /\ AckedDurable' /\ ProgramOrder'
  BY <1>1 DEF SoloInv, ChainIntact, LinkOK, AckedDurable, ProgramOrder
<1> QED BY <1>3, <1>4, <1>5, <1>6 DEF SoloInv

\* The read of the last hash, whatever comes of it.
LEMMA SoloReadStep ==
    ASSUME LogInv, SoloInv, NEW w, Writer = {w}, ReadLastHash(w) \/ ReadFails(w)
    PROVE  SoloInv'
<1>1. UNCHANGED <<lines, tail, synced, calls, acked>> /\ pc[w] = "locked"
  BY DEF ReadLastHash, ReadFails
<1>2. \/ /\ pc'[w] = "hashed" /\ left'[w] = "all" /\ err'[w] = err[w] /\ tail = NoTail
         /\ entry'[w] = MakeEntry(<<w, calls[w]>>, HashAfter(lines))
      \/ pc'[w] = "failed" /\ left'[w] = left[w] /\ err'[w] # "none"
  BY DEF LogInv, TypeOK, ReadLastHash, ReadFails, LogReadable
<1>3. left[w] = "none" /\ err[w] = "none"
  BY <1>1 DEF SoloInv, SoloBufferInv, SoloDurableInv
<1>4. SoloBufferInv'
  BY <1>1, <1>2, <1>3 DEF SoloBufferInv, HashAfter
<1>5. SoloDurableInv'
  BY <1>1, <1>2, <1>3 DEF SoloDurableInv
<1>6. SoloHistoryInv'
  BY <1>1, <1>2, <1>3 DEF SoloInv, SoloHistoryInv
<1>7. ChainIntact' /\ AckedDurable' /\ ProgramOrder'
  BY <1>1 DEF SoloInv, ChainIntact, LinkOK, AckedDurable, ProgramOrder
<1> QED BY <1>4, <1>5, <1>6, <1>7 DEF SoloInv

\* A part of the line reaches the file, from the flush or from close().
LEMMA SoloShortWriteStep ==
    ASSUME LogInv, SoloInv, NEW w, Writer = {w}, ShortWrite(w)
    PROVE  SoloInv'
<1>1. PICK to \in {"rest", "newline"} :
        /\ <<left[w], to>> \in {<<"all", "rest">>, <<"all", "newline">>, <<"rest", "newline">>}
        /\ left' = [left EXCEPT ![w] = to]
        /\ tail' = TailAfter(w, to)
  BY DEF ShortWrite, WritePart
<1>2. left[w] # "none" /\ left'[w] = to
  BY <1>1 DEF LogInv, TypeOK
<1>3. tail' = [of |-> entry[w], piece |-> IF to = "rest" THEN "head" ELSE "object"]
  BY <1>1, <1>2, SoloTail
<1>4. UNCHANGED <<lines, synced, holder, pc, entry, err, calls, acked>>
  BY DEF ShortWrite, WritePart
<1>5. SoloBufferInv'
  BY <1>2, <1>3, <1>4 DEF SoloInv, SoloBufferInv, HashAfter
<1>6. SoloDurableInv' /\ SoloHistoryInv'
  BY <1>2, <1>4 DEF SoloInv, SoloDurableInv, SoloHistoryInv
<1>7. ChainIntact' /\ AckedDurable' /\ ProgramOrder'
  BY <1>4 DEF SoloInv, ChainIntact, LinkOK, AckedDurable, ProgramOrder
<1> QED BY <1>5, <1>6, <1>7 DEF SoloInv

\* The call goes on, fails or ends without another byte of its line.
LEMMA SoloLeaveStep ==
    ASSUME LogInv, SoloInv, NEW w, Writer = {w},
           FlushFails(w) \/ FsyncFails(w) \/ Unlock(w) \/ CloseFails(w) \/ Crash(w)
    PROVE  SoloInv'
<1>1. UNCHANGED <<lines, tail, synced, entry, calls, acked>>
  BY DEF FlushFails, FsyncFails, Unlock, CloseFails, Crash
<1>2. /\ left'[w] # "none" => left'[w] = left[w] /\ pc'[w] \in {"failed", "closing"}
      /\ pc'[w] \in {"idle", "down", "failed", "closing"}
  BY DEF LogInv, TypeOK, SoloInv, SoloBufferInv, FlushFails, FsyncFails, Unlock, CloseFails, Crash
<1>3. SoloBufferInv'
  BY <1>1, <1>2 DEF SoloInv, SoloBufferInv, HashAfter
<1>4. SoloDurableInv'
  <2>1. pc'[w] = "failed" => err'[w] # "none"
    BY DEF LogInv, TypeOK, FlushFails, FsyncFails, Unlock, CloseFails, Crash
  <2>2. pc'[w] = "closing" => pc[w] \in {"durable", "failed"} /\ err'[w] = err[w] /\ left'[w] = left[w]
    BY DEF LogInv, TypeOK, FlushFails, FsyncFails, Unlock, CloseFails, Crash
  <2>3. pc[w] = "durable" => left[w] = "none"
    BY DEF SoloInv, SoloBufferInv
  <2> QED BY <1>1, <1>2, <2>1, <2>2, <2>3 DEF SoloInv, SoloDurableInv
<1>5. SoloHistoryInv'
  BY <1>1, <1>2 DEF SoloInv, SoloHistoryInv
<1>6. ChainIntact' /\ AckedDurable' /\ ProgramOrder'
  BY <1>1 DEF SoloInv, ChainIntact, LinkOK, AckedDurable, ProgramOrder
<1> QED BY <1>3, <1>4, <1>5, <1>6 DEF SoloInv

\* The line, which is still the last one, becomes durable.
LEMMA SoloFsyncStep ==
    ASSUME LogInv, SoloInv, NEW w, Writer = {w}, Fsync(w)
    PROVE  SoloInv'
<1>1. /\ UNCHANGED <<lines, tail, entry, left, err, calls, acked>>
      /\ pc[w] = "flushed" /\ pc'[w] = "durable" /\ synced' = Len(lines)
  BY DEF LogInv, TypeOK, Fsync
<1>2. Len(lines) \in 1..synced' /\ lines[Len(lines)] = entry[w] /\ 1..synced \subseteq 1..synced'
  <2>1. lines # <<>> /\ lines[Len(lines)] = entry[w]
    BY <1>1 DEF SoloInv, SoloDurableInv
  <2>2. Len(lines) \in Nat /\ Len(lines) # 0 /\ synced \in 0..Len(lines)
    BY <2>1, EmptySeq, LenProperties DEF LogInv, TypeOK
  <2> QED BY <1>1, <2>1, <2>2
<1>3. SoloBufferInv' /\ SoloHistoryInv'
  BY <1>1 DEF SoloInv, SoloBufferInv, SoloHistoryInv, HashAfter
<1>4. SoloDurableInv'
  BY <1>1, <1>2 DEF SoloInv, SoloDurableInv
<1>5. ChainIntact' /\ AckedDurable' /\ ProgramOrder'
  BY <1>1, <1>2 DEF SoloInv, ChainIntact, LinkOK, AckedDurable, ProgramOrder
<1> QED BY <1>3, <1>4, <1>5 DEF SoloInv

\* The rest of the line reaches the file, in time or when the file is closed.
LEMMA SoloWriteStep ==
    ASSUME LogInv, SoloInv, NEW w, Writer = {w}, Flush(w) \/ (Close(w) /\ left[w] # "none")
    PROVE  SoloInv'
<1>1. /\ WriteRest(w) /\ left'[w] = "none" /\ left[w] # "none"
      /\ UNCHANGED <<synced, entry, err, calls>>
  BY DEF LogInv, TypeOK, Flush, Close, WriteRest
<1>2. \/ pc[w] = "hashed" /\ pc'[w] = "flushed"
      \/ pc[w] = "closing" /\ pc'[w] = "idle"
  BY DEF LogInv, TypeOK, Flush, Close
<1>3. acked' = acked
  BY <1>1 DEF SoloInv, SoloDurableInv, Flush, Close
<1>4. /\ Len(lines) \in Nat
      /\ Len(lines') = Len(lines) + 1
      /\ lines' \in Seq(Line)
      /\ \A i \in 1..Len(lines) : lines'[i] = lines[i]
      /\ lines'[Len(lines) + 1] = entry[w]
      /\ ChainIntact' /\ ProgramOrder'
      /\ \A i \in 1..Len(lines') : lines'[i].event[2] <= calls[w]
  BY <1>1, SoloWrite, SoloNewEvent
<1>5. SoloBufferInv'
  BY <1>1, <1>2 DEF SoloBufferInv
<1>6. SoloDurableInv'
  <2>1. lines' # <<>> /\ lines'[Len(lines')] = entry[w]
    BY <1>4, EmptySeq
  <2> QED BY <1>1, <1>2, <2>1 DEF SoloInv, SoloDurableInv
<1>7. SoloHistoryInv'
  BY <1>1, <1>2, <1>4 DEF SoloHistoryInv
<1>8. AckedDurable'
  <2>1. \A i \in 1..synced : lines'[i] = lines[i]
    BY <1>4 DEF LogInv, TypeOK
  <2> QED BY <1>1, <1>3, <2>1 DEF SoloInv, AckedDurable
<1> QED BY <1>4, <1>5, <1>6, <1>7, <1>8 DEF SoloInv

\* record() returns, acknowledging its event, or raises, with nothing to write.
LEMMA SoloCloseStep ==
    ASSUME LogInv, SoloInv, NEW w, Writer = {w}, Close(w), left[w] = "none"
    PROVE  SoloInv'
<1>1. UNCHANGED <<lines, tail, synced, entry, left, calls>> /\ pc'[w] = "idle"
  BY DEF LogInv, TypeOK, Close
<1>2. SoloBufferInv' /\ SoloDurableInv' /\ SoloHistoryInv'
  BY <1>1 DEF SoloInv, SoloBufferInv, SoloDurableInv, SoloHistoryInv
<1>3. AckedDurable'
  <2>1. err[w] = "none" => \E i \in 1..synced : lines[i] = entry[w]
    BY DEF SoloInv, SoloDurableInv, Close
  <2> QED BY <1>1, <2>1 DEF SoloInv, AckedDurable, Close
<1>4. ChainIntact' /\ ProgramOrder'
  BY <1>1 DEF SoloInv, ChainIntact, LinkOK, ProgramOrder
<1> QED BY <1>2, <1>3, <1>4 DEF SoloInv

\* The machine dies: what was fsynced stays.
LEMMA SoloPowerStep ==
    ASSUME LogInv, SoloInv, PowerFails
    PROVE  SoloInv'
<1> PICK n \in synced..Len(lines) : lines' = SubSeq(lines, 1, n)
  BY DEF PowerFails
<1>1. /\ n \in Nat /\ Len(lines) \in Nat /\ Len(lines') = n
      /\ \A i \in 1..n : i \in 1..Len(lines) /\ lines'[i] = lines[i]
      /\ 1..synced \subseteq 1..n
  BY CutLines DEF LogInv
<1>2. UNCHANGED <<synced, entry, calls, acked>>
      /\ \A w \in Writer : pc'[w] = "down" /\ left'[w] = "none"
  BY DEF PowerFails
<1>3. SoloBufferInv' /\ SoloDurableInv'
  BY <1>2 DEF SoloBufferInv, SoloDurableInv
<1>4. SoloHistoryInv'
  BY <1>1, <1>2 DEF SoloInv, SoloHistoryInv
<1>5. ChainIntact'
  <2> SUFFICES ASSUME NEW i \in 1..n
               PROVE  LinkOK(lines', i)
    BY <1>1 DEF ChainIntact
  <2>1. LinkOK(lines, i)
    BY <1>1 DEF SoloInv, ChainIntact
  <2>2. i # 1 => i - 1 \in 1..n
    BY <1>1
  <2> QED BY <1>1, <2>1, <2>2 DEF LinkOK
<1>6. AckedDurable' /\ ProgramOrder'
  BY <1>1, <1>2 DEF SoloInv, AckedDurable, ProgramOrder
<1> QED BY <1>3, <1>4, <1>5, <1>6 DEF SoloInv

\* Every step of the writer, of its disk and of its machine.
LEMMA SoloStep ==
    ASSUME LogInv, SoloInv, Alone, [Next]_vars
    PROVE  SoloInv'
<1> PICK w : w \in Writer /\ Writer = {w}
  BY DEF Alone
<1>1. CASE WriterNext
  BY <1>1, SoloBeginStep, SoloReadStep, SoloShortWriteStep, SoloLeaveStep, SoloFsyncStep,
     SoloWriteStep, SoloCloseStep DEF WriterNext, Proceed
<1>2. CASE PowerFails
  BY <1>2, SoloPowerStep
<1>3. CASE UNCHANGED vars
  BY <1>3 DEF vars, SoloInv, SoloBufferInv, SoloDurableInv, SoloHistoryInv, ChainIntact, LinkOK,
              AckedDurable, ProgramOrder, HashAfter
<1> QED BY <1>1, <1>2, <1>3 DEF Next

\* The log starts empty, and the writer outside record().
LEMMA SoloInit ==
    ASSUME Init
    PROVE  SoloInv
<1>1. Len(lines) = 0
  BY EmptySeq DEF Init
<1> QED BY <1>1 DEF Init, SoloInv, SoloBufferInv, SoloDurableInv, SoloHistoryInv, ChainIntact,
            AckedDurable, ProgramOrder

-----------------------------------------------------------------------------
(* The theorems about one writer. *)

\* The inductive invariant of a log with one writer.
THEOREM SoloInvariance == ASSUME Alone PROVE Spec => [](LogInv /\ SoloInv)
<1>1. Init => SoloInv
  BY SoloInit
<1>2. LogInv /\ SoloInv /\ [Next]_vars => SoloInv'
  BY SoloStep
<1> QED BY <1>1, <1>2, LogInvariance, PTL DEF Spec

\* audit.py:111, "On platforms without fcntl, such as Windows, use one writer per
\* file": that is enough for the chain, on a disk that fails in the middle of a
\* line or of the flush that close() does again.
THEOREM SoloChainNeverForks == ASSUME Alone PROVE Spec => []ChainIntact
<1>1. SoloInv => ChainIntact
  BY DEF SoloInv
<1> QED BY <1>1, SoloInvariance, PTL

\* It is also enough for what record() acknowledged: a failing disk may add the
\* line of a call that raised, and takes away none that returned.
THEOREM SoloAcknowledgedIsDurable == ASSUME Alone PROVE Spec => []AckedDurable
<1>1. SoloInv => AckedDurable
  BY DEF SoloInv
<1> QED BY <1>1, SoloInvariance, PTL

\* With one writer too, record() refuses only a damaged log.
THEOREM SoloRefusesOnlyDamage == ASSUME Alone PROVE Spec => RecordRefusesOnlyDamage
<1>1. SoloInv /\ LogInv => [\A w \in Writer : ReadLastHash(w) /\ err'[w] = "log" => Damaged]_vars
  <2> SUFFICES ASSUME SoloInv, LogInv, NEW w \in Writer, ReadLastHash(w), err'[w] = "log"
               PROVE  Damaged
    OBVIOUS
  <2>1. pc[w] = "locked" /\ err[w] = "none" /\ left[w] = "none"
    BY DEF SoloInv, SoloBufferInv, SoloDurableInv, ReadLastHash
  <2>2. ~LogReadable
    BY <2>1 DEF ReadLastHash
  <2>3. lines # <<>> => lines[Len(lines)] # Garbage
    <3>1. lines # <<>> => Len(lines) \in 1..Len(lines)
      BY EmptySeq DEF LogInv, TypeOK
    <3> QED BY <3>1 DEF SoloInv, ChainIntact, LinkOK
  <2>4. \A v \in Writer : left[v] = "none"
    BY <2>1 DEF Alone
  <2> QED BY <2>2, <2>3, <2>4 DEF LogReadable, Damaged
<1> QED BY <1>1, SoloInvariance, PTL DEF Spec, RecordRefusesOnlyDamage

\* And nothing is appended to a log that a failed close has damaged: the bytes
\* that close() dropped leave a torn line, which every later call refuses.
THEOREM SoloDamageStays == ASSUME Alone PROVE Spec => DamageIsFrozen
<1>1. SoloInv /\ LogInv /\ [Next]_vars =>
        [Damaged => \/ lines' = lines /\ tail' = tail
                    \/ pc' = [w \in Writer |-> "down"]]_vars
  <2> SUFFICES ASSUME SoloInv, LogInv, Next, Damaged
               PROVE  \/ lines' = lines /\ tail' = tail
                      \/ pc' = [w \in Writer |-> "down"]
    OBVIOUS
  <2>1. tail # NoTail /\ \A w \in Writer : left[w] \notin {"rest", "newline"}
    <3>1. lines # <<>> => Len(lines) \in 1..Len(lines)
      BY EmptySeq DEF LogInv, TypeOK
    <3> QED BY <3>1 DEF SoloInv, ChainIntact, LinkOK, Damaged
  <2>2. \A w \in Writer : left[w] = "none"
    BY <2>1 DEF SoloInv, SoloBufferInv
  <2>3. ASSUME NEW w \in Writer, Construct(w) \/ Open(w) \/ OpenFails(w) \/ Lock(w)
                                  \/ LockFails(w) \/ Proceed(w) \/ ShortWrite(w) \/ Crash(w)
        PROVE  lines' = lines /\ tail' = tail
    <3>1. ~Flush(w) /\ ~ShortWrite(w)
      BY <2>2 DEF Flush, WriteRest, ShortWrite, WritePart
    <3>2. CASE Close(w)
      BY <2>2, <3>2 DEF Close
    <3> QED BY <2>3, <3>1, <3>2 DEF Construct, Open, OpenFails, Lock, LockFails, Proceed,
             ReadLastHash, ReadFails, FlushFails, Fsync, FsyncFails, Unlock, CloseFails, Crash
  <2>4. CASE PowerFails
    BY <2>4 DEF PowerFails
  <2> QED BY <2>3, <2>4 DEF Next, WriterNext
<1> QED BY <1>1, SoloInvariance, PTL DEF Spec, DamageIsFrozen

\* A step of the only writer stores its event, acknowledges it, or does nothing
\* that the trail can see.
LEMMA SoloRefines ==
    ASSUME LogInv, LogInv', SoloInv, SoloInv', Alone, [Next]_vars
    PROVE  [Trail!TrailNext]_(Trail!trailVars)
<1>0. TypeOK /\ TypeOK' /\ ChainIntact /\ ChainIntact' /\ AckedDurable /\ ProgramOrder
  BY DEF LogInv, SoloInv
<1>1. ASSUME lines' = lines, acked' = acked
      PROVE  UNCHANGED Trail!trailVars
  BY <1>1 DEF Trail!trailVars
<1>2. CASE UNCHANGED vars
  BY <1>1, <1>2 DEF vars
<1>3. ASSUME NEW w \in Writer, Construct(w) \/ Open(w) \/ OpenFails(w) \/ Lock(w) \/ LockFails(w)
                                \/ ReadLastHash(w) \/ ReadFails(w) \/ FlushFails(w) \/ Fsync(w)
                                \/ FsyncFails(w) \/ Unlock(w) \/ CloseFails(w)
                                \/ ShortWrite(w) \/ Crash(w)
      PROVE  UNCHANGED Trail!trailVars
  <2>1. lines' = lines /\ acked' = acked
    BY <1>3 DEF Construct, Open, OpenFails, Lock, LockFails, ReadLastHash, ReadFails, FlushFails,
             Fsync, FsyncFails, Unlock, CloseFails, ShortWrite, WritePart, Crash
  <2> QED BY <1>1, <2>1
<1>4. ASSUME NEW w \in Writer, Flush(w) \/ (Close(w) /\ left[w] # "none")
      PROVE  Trail!TrailNext
  <2>1. WriteRest(w) /\ acked' = acked
    BY <1>4 DEF SoloInv, SoloDurableInv, Flush, Close
  <2>2. Writer = {w}
    BY DEF Alone
  <2>3. entry[w].event \in Event /\ lines' = Append(lines, entry[w]) /\ entry[w] \in Entry
    BY <2>1, SoloWrite
  <2>4. \A i \in 1..Len(lines) : lines[i].event # entry[w].event
    BY <2>1, <2>2, SoloNewEvent
  <2>5. Trail!Store(entry[w].event)
    BY <1>0, <2>1, <2>3, <2>4, LineStores
  <2> QED BY <2>3, <2>5 DEF Trail!TrailNext
<1>5. ASSUME NEW w \in Writer, Close(w), left[w] = "none"
      PROVE  [Trail!TrailNext]_(Trail!trailVars)
  <2>1. lines' = lines
    BY <1>5 DEF Close
  <2>2. CASE err[w] = "none"
    <3>1. PICK i \in 1..synced : lines[i] = entry[w]
      BY <1>5, <2>2 DEF SoloInv, SoloDurableInv, Close
    <3>2. acked' = acked \union {lines[i].event} /\ i \in 1..Len(lines)
      BY <1>0, <1>5, <2>2, <3>1, EventsType DEF TypeOK, Close
    <3> QED BY <1>0, <2>1, <3>2, LineAcknowledged DEF Trail!TrailNext
  <2>3. CASE err[w] # "none"
    BY <1>1, <1>5, <2>1, <2>3 DEF Close
  <2> QED BY <2>2, <2>3
<1>6. CASE PowerFails
  <2>1. PICK n \in 0..Len(lines) : Trail!Forget(n)
    BY <1>0, <1>6, PowerCutForgets
  <2>2. n \in 0..Len(EventsOf(lines))
    BY <1>0, EventsType
  <2> QED BY <2>1, <2>2 DEF Trail!TrailNext
<1> QED BY <1>2, <1>3, <1>4, <1>5, <1>6 DEF Next, WriterNext, Proceed

\* One writer keeps the promises of an audit log without a lock, and on a disk
\* that fails: what may be in the trail after record() raised is its event, once.
THEOREM SoloRefinement == ASSUME Alone PROVE Spec => ImplementsTrail
<1>1. Init => Trail!TrailInit
  BY TrailStarts
<1>2. LogInv /\ LogInv' /\ SoloInv /\ SoloInv' /\ [Next]_vars => [Trail!TrailNext]_(Trail!trailVars)
  BY SoloRefines
<1> QED BY <1>1, <1>2, SoloInvariance, PTL DEF Spec, ImplementsTrail, Trail!TrailSpec
=============================================================================
