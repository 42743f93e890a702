-------------------------- MODULE ApplyViewProofs ---------------------------
(***************************************************************************)
(* Theorems about `colgov apply`, for any number of runs and versions of   *)
(* the input, which other programs replace as often as they like, with     *)
(* every failure of ApplyView.                                             *)
(***************************************************************************)
EXTENDS ApplyView, SequenceTheorems, TLAPS

-----------------------------------------------------------------------------
(* The inductive invariant. *)

\* Before record_view, and after it has recorded that the view may be written.
Early == {"start", "check", "refused", "allowed"}
Permitted == InSink \union {"failed", "completed"}

\* What a run works on.
VersionInv == \A r \in Run :
    /\ pc[r] # "start" => opened[r] \in Version
    /\ pc[r] \in {"allowed"} \union Permitted => checked[r] \in Version
    /\ pc[r] \in {"write", "replace"} => writing[r] \in Version
    /\ pc[r] = "replace" => writing[r] \notin Malformed

\* What the log has of a run that has not ended.
LogInv == \A r \in Run :
    /\ pc[r] \in Early => \A o \in Outcome : ~Recorded(r, o)
    /\ pc[r] \in Permitted => /\ Recorded(r, "allowed")
                              /\ ~Recorded(r, "completed")
                              /\ ~Recorded(r, "error")

\* Of a view that is not permitted yet there is no part.
TempInv == \A r \in Run : pc[r] \in Early => temp[r] = "none"

\* The output's name is taken in Replace, and nowhere else.
PlacedInv == \A r \in Run :
    /\ pc[r] \in Early \union InSink \union {"failed"} => r \notin placed
    /\ pc[r] = "completed" /\ ~piped[r] => r \in placed

\* The output file is the view of a run that took its name, of an input that
\* had no malformed row.
OutputInv == output # NoOutput => output.by \in placed /\ output.of \notin Malformed

IInv ==
    /\ ApplyTypeOK
    /\ VersionInv
    /\ LogInv
    /\ TempInv
    /\ PlacedInv
    /\ OutputInv
    /\ NothingBeforeAllowed
    /\ LogTellsTheOutput
    /\ OutcomesInOrder
    /\ NoTempLeft

-----------------------------------------------------------------------------
(* Lemmas about the log. *)

\* A step that records nothing.
LEMMA NothingRecorded ==
    ASSUME log' = log
    PROVE  /\ \A r, o : Recorded(r, o)' <=> Recorded(r, o)
           /\ OutcomesInOrder => OutcomesInOrder'
BY DEF Recorded, OutcomesInOrder

\* A step that records an event.
LEMMA EventRecorded ==
    ASSUME log \in Seq(Event), NEW e \in Event, log' = Append(log, e)
    PROVE  /\ log' \in Seq(Event)
           /\ Len(log) \in Nat
           /\ Len(log') = Len(log) + 1
           /\ \A i \in 1..Len(log) : log'[i] = log[i]
           /\ log'[Len(log) + 1] = e
           /\ \A r, o : Recorded(r, o)' <=> Recorded(r, o) \/ (r = e.run /\ o = e.outcome)
<1>1. /\ log' \in Seq(Event)
      /\ Len(log) \in Nat
      /\ Len(log') = Len(log) + 1
      /\ \A i \in 1..Len(log) : log'[i] = log[i]
      /\ log'[Len(log) + 1] = e
  BY AppendProperties, LenProperties
<1>2. \A r, o : Recorded(r, o)' => Recorded(r, o) \/ (r = e.run /\ o = e.outcome)
  BY <1>1 DEF Recorded
<1>3. \A r, o : Recorded(r, o) => Recorded(r, o)'
  <2> SUFFICES ASSUME NEW r, NEW o, Recorded(r, o) PROVE Recorded(r, o)'
    OBVIOUS
  <2>1. PICK i \in 1..Len(log) : log[i].run = r /\ log[i].outcome = o
    BY DEF Recorded
  <2>2. i \in 1..Len(log') /\ log'[i].run = r /\ log'[i].outcome = o
    BY <1>1, <2>1
  <2> QED BY <2>2 DEF Recorded
<1>4. \A r, o : r = e.run /\ o = e.outcome => Recorded(r, o)'
  <2>1. Len(log) + 1 \in 1..Len(log')
    BY <1>1
  <2> QED BY <1>1, <2>1 DEF Recorded
<1> QED BY <1>1, <1>2, <1>3, <1>4

\* What is in the log is an event with an outcome of a run.
LEMMA EventsInLog ==
    ASSUME ApplyTypeOK, NEW i \in 1..Len(log)
    PROVE  /\ log[i] \in Event
           /\ log[i].run \in Run
           /\ log[i].outcome \in Outcome
<1>1. log[i] \in Event
  BY ElementOfSeq DEF ApplyTypeOK
<1> QED BY <1>1 DEF Event

-----------------------------------------------------------------------------
(* Every step preserves the invariant. *)

\* open_source: the run is new, so the log and the output have nothing of it.
LEMMA OpenSourceStep ==
    ASSUME IInv, NEW r \in Run, OpenSource(r)
    PROVE  IInv'
<1>0. /\ pc[r] = "start" /\ pc' = [pc EXCEPT ![r] = "check"]
      /\ \A q \in Run \ {r} : pc'[q] = pc[q] /\ piped'[q] = piped[q] /\ opened'[q] = opened[q]
  BY DEF IInv, ApplyTypeOK, OpenSource, At
<1>1. ApplyTypeOK'
  BY <1>0 DEF IInv, OpenSource, ApplyTypeOK
<1>2. VersionInv'
  BY <1>0 DEF IInv, OpenSource, ApplyTypeOK, VersionInv, Permitted, InSink
<1>3. LogInv' /\ TempInv' /\ PlacedInv'
  BY <1>0, NothingRecorded
     DEF IInv, OpenSource, ApplyTypeOK, LogInv, TempInv, PlacedInv, Early, Permitted, InSink
<1>4. OutputInv' /\ NothingBeforeAllowed' /\ OutcomesInOrder'
  BY NothingRecorded DEF IInv, OpenSource, OutputInv, NothingBeforeAllowed
<1>5. LogTellsTheOutput' /\ NoTempLeft'
  <2>1. temp[r] = "none" /\ ~Recorded(r, "completed") /\ ~Recorded(r, "error")
    BY <1>0 DEF IInv, TempInv, LogInv, Early, Outcome
  <2> QED BY <1>0, <2>1, NothingRecorded DEF IInv, OpenSource, LogTellsTheOutput, NoTempLeft
<1> QED BY <1>1, <1>2, <1>3, <1>4, <1>5 DEF IInv

\* The first pass ends, in one of three ways.
LEMMA CheckStep ==
    ASSUME IInv, NEW r \in Run, CheckPasses(r) \/ CheckRefuses(r) \/ CheckFaults(r)
    PROVE  IInv'
<1>0. /\ pc[r] = "check"
      /\ \/ pc' = [pc EXCEPT ![r] = "allowed"] /\ checked' = [checked EXCEPT ![r] = input]
         \/ pc' = [pc EXCEPT ![r] = "refused"] /\ checked' = checked
         \/ pc' = [pc EXCEPT ![r] = "exit"] /\ checked' = checked
      /\ UNCHANGED <<input, updates, piped, tokenizes, opened, writing, temp, output, placed, stdout, log>>
  BY DEF CheckPasses, CheckRefuses, CheckFaults, At
<1>1. ApplyTypeOK'
  BY <1>0 DEF IInv, ApplyTypeOK, Recording
<1>2. VersionInv'
  BY <1>0 DEF IInv, ApplyTypeOK, VersionInv, Permitted, InSink
<1>3. LogInv' /\ TempInv' /\ PlacedInv'
  BY <1>0, NothingRecorded
     DEF IInv, ApplyTypeOK, LogInv, TempInv, PlacedInv, Early, Permitted, InSink
<1>4. OutputInv' /\ NothingBeforeAllowed' /\ OutcomesInOrder' /\ LogTellsTheOutput'
  BY <1>0, NothingRecorded DEF IInv, OutputInv, NothingBeforeAllowed, LogTellsTheOutput
<1>5. NoTempLeft'
  <2>1. temp[r] = "none"
    BY <1>0 DEF IInv, TempInv, Early
  <2> QED BY <1>0, <2>1 DEF IInv, ApplyTypeOK, NoTempLeft
<1> QED BY <1>1, <1>2, <1>3, <1>4, <1>5 DEF IInv

\* record_view stores the event of the step that a run is in, whether or not
\* record() raises after that.
LEMMA RecordStep ==
    ASSUME IInv, NEW r \in Run, NEW e \in Event, NEW to \in {"sink", "exit"},
           pc[r] \in Recording, pc' = [pc EXCEPT ![r] = to],
           e.run = r,
           pc[r] \in {"refused", "failed"} => e.outcome = "error",
           pc[r] \in {"allowed", "completed"} => e.outcome = pc[r],
           to = "sink" => pc[r] = "allowed",
           log' = Append(log, e),
           UNCHANGED <<input, updates, piped, tokenizes, opened, checked, writing, temp, output,
                       placed, stdout>>
    PROVE  IInv'
<1>1. ApplyTypeOK'
  BY EventRecorded DEF IInv, ApplyTypeOK, InSink
<1>2. /\ Len(log) \in Nat
      /\ Len(log') = Len(log) + 1
      /\ \A i \in 1..Len(log) : log'[i] = log[i]
      /\ log'[Len(log) + 1] = e
      /\ \A q, o : Recorded(q, o)' <=> Recorded(q, o) \/ (q = r /\ o = e.outcome)
  BY EventRecorded DEF IInv, ApplyTypeOK
<1>3. \A q \in Run : q # r => pc'[q] = pc[q]
  BY DEF IInv, ApplyTypeOK
<1>4. pc'[r] = to
  BY DEF IInv, ApplyTypeOK
<1>5. VersionInv'
  BY <1>3, <1>4 DEF IInv, VersionInv, Permitted, InSink, Recording
<1>6. LogInv'
  <2> SUFFICES ASSUME NEW q \in Run
               PROVE  /\ pc'[q] \in Early => \A o \in Outcome : ~Recorded(q, o)'
                      /\ pc'[q] \in Permitted => /\ Recorded(q, "allowed")'
                                                 /\ ~Recorded(q, "completed")'
                                                 /\ ~Recorded(q, "error")'
    BY DEF LogInv
  <2>1. CASE q # r
    BY <1>2, <1>3, <2>1 DEF IInv, LogInv
  <2>2. CASE q = r /\ to = "sink"
    <3>1. \A o \in Outcome : ~Recorded(r, o)
      BY <2>2 DEF IInv, LogInv, Early
    <3>2. pc'[q] \notin Early
      BY <1>4, <2>2 DEF Early
    <3> QED BY <1>2, <2>2, <3>1, <3>2 DEF Outcome
  <2>3. CASE q = r /\ to = "exit"
    BY <1>4, <2>3 DEF Early, Permitted, InSink
  <2> QED BY <2>1, <2>2, <2>3
<1>7. TempInv'
  BY <1>2, <1>3, <1>4 DEF IInv, TempInv, Early
<1>8. PlacedInv'
  BY <1>3, <1>4 DEF IInv, PlacedInv, Early, InSink
<1>9. OutputInv' /\ NothingBeforeAllowed'
  BY <1>2 DEF IInv, OutputInv, NothingBeforeAllowed
<1>10. LogTellsTheOutput'
  <2>1. ~piped[r] /\ e.outcome = "completed" => r \in placed
    BY DEF IInv, PlacedInv, Recording
  <2>2. e.outcome = "error" => r \notin placed
    BY DEF IInv, PlacedInv, Early, Recording
  <2> QED BY <1>2, <2>1, <2>2 DEF IInv, LogTellsTheOutput
<1>11. OutcomesInOrder'
  <2> SUFFICES ASSUME NEW i \in 1..Len(log'), NEW j \in 1..Len(log'), i < j,
                      log'[i].run = log'[j].run
               PROVE  log'[i].outcome = "allowed" /\ log'[j].outcome # "allowed"
    BY DEF OutcomesInOrder
  <2>1. i \in 1..Len(log) /\ log'[i] = log[i]
    BY <1>2
  <2>2. CASE j \in 1..Len(log)
    BY <1>2, <2>1, <2>2 DEF IInv, OutcomesInOrder
  <2>3. CASE j = Len(log) + 1
    <3>1. log[i].run = r /\ log[i].outcome \in Outcome
      BY <1>2, <2>1, <2>3, EventsInLog DEF IInv
    <3>2. Recorded(r, log[i].outcome)
      BY <2>1, <3>1 DEF Recorded
    <3>3. pc[r] \notin Early
      BY <3>1, <3>2 DEF IInv, LogInv
    <3>4. pc[r] \in {"failed", "completed"}
      BY <3>3 DEF Early, Recording
    <3>5. log[i].outcome = "allowed"
      BY <3>1, <3>2, <3>4 DEF IInv, LogInv, Permitted, Outcome
    <3> QED BY <1>2, <2>1, <2>3, <3>4, <3>5
  <2> QED BY <1>2, <2>2, <2>3
<1>12. NoTempLeft'
  <2>1. ~piped[r] => temp[r] = "none"
    BY DEF IInv, ApplyTypeOK, NoTempLeft, Recording
  <2> QED BY <1>3, <2>1 DEF IInv, NoTempLeft
<1> QED BY <1>1, <1>5, <1>6, <1>7, <1>8, <1>9, <1>10, <1>11, <1>12 DEF IInv

\* record() raises, and nothing was stored.
LEMMA RecordNothingStep ==
    ASSUME IInv, NEW r \in Run, pc[r] \in Recording, pc' = [pc EXCEPT ![r] = "exit"],
           UNCHANGED <<input, updates, piped, tokenizes, opened, checked, writing, temp, output,
                       placed, stdout, log>>
    PROVE  IInv'
<1>1. ApplyTypeOK'
  BY DEF IInv, ApplyTypeOK
<1>2. VersionInv'
  BY DEF IInv, ApplyTypeOK, VersionInv, Permitted, InSink, Recording
<1>3. LogInv' /\ TempInv' /\ PlacedInv'
  BY NothingRecorded DEF IInv, ApplyTypeOK, LogInv, TempInv, PlacedInv, Early, Permitted, InSink
<1>4. OutputInv' /\ NothingBeforeAllowed' /\ OutcomesInOrder' /\ LogTellsTheOutput'
  BY NothingRecorded DEF IInv, OutputInv, NothingBeforeAllowed, LogTellsTheOutput
<1>5. NoTempLeft'
  BY DEF IInv, ApplyTypeOK, NoTempLeft, Recording
<1> QED BY <1>1, <1>2, <1>3, <1>4, <1>5 DEF IInv

\* The second pass begins: the view is permitted by now.
LEMMA OpenSinkStep ==
    ASSUME IInv, NEW r \in Run, OpenSink(r)
    PROVE  IInv'
<1>0. /\ pc[r] = "sink" /\ pc' = [pc EXCEPT ![r] = "write"]
      /\ temp' = [temp EXCEPT ![r] = "partial"]
      /\ opened[r] \in Version /\ input \in Version
      /\ \E v \in Version : writing' = [writing EXCEPT ![r] = v]
  BY DEF IInv, ApplyTypeOK, VersionInv, OpenSink, At
<1>1. ApplyTypeOK'
  BY <1>0 DEF IInv, OpenSink, ApplyTypeOK, InSink
<1>2. VersionInv'
  BY <1>0 DEF IInv, OpenSink, ApplyTypeOK, VersionInv, Permitted, InSink
<1>3. LogInv' /\ TempInv' /\ PlacedInv'
  BY <1>0, NothingRecorded
     DEF IInv, OpenSink, ApplyTypeOK, LogInv, TempInv, PlacedInv, Early, Permitted, InSink
<1>4. OutputInv' /\ OutcomesInOrder' /\ LogTellsTheOutput'
  BY NothingRecorded DEF IInv, OpenSink, OutputInv, LogTellsTheOutput
<1>5. NothingBeforeAllowed'
  <2>1. Recorded(r, "allowed")
    BY <1>0 DEF IInv, LogInv, Permitted, InSink
  <2> QED BY <1>0, <2>1, NothingRecorded DEF IInv, ApplyTypeOK, OpenSink, NothingBeforeAllowed
<1>6. NoTempLeft'
  BY <1>0 DEF IInv, ApplyTypeOK, OpenSink, NoTempLeft
<1> QED BY <1>1, <1>2, <1>3, <1>4, <1>5, <1>6 DEF IInv

\* A part of a permitted view leaves stdout's buffer.
LEMMA SpillStep ==
    ASSUME IInv, NEW r \in Run, Spill(r)
    PROVE  IInv'
<1>1. ApplyTypeOK' /\ VersionInv'
  BY DEF IInv, Spill, ApplyTypeOK, VersionInv
<1>2. LogInv' /\ TempInv' /\ PlacedInv' /\ OutputInv' /\ OutcomesInOrder' /\ LogTellsTheOutput'
  BY NothingRecorded DEF IInv, Spill, LogInv, TempInv, PlacedInv, OutputInv, LogTellsTheOutput
<1>3. NothingBeforeAllowed'
  <2>1. Recorded(r, "allowed")
    BY DEF IInv, LogInv, Spill, Permitted, InSink
  <2> QED BY <2>1, NothingRecorded DEF IInv, ApplyTypeOK, Spill, NothingBeforeAllowed
<1>4. NoTempLeft'
  BY DEF IInv, Spill, NoTempLeft
<1> QED BY <1>1, <1>2, <1>3, <1>4 DEF IInv

\* The rows of a well-formed version are written.
LEMMA WriteRowsStep ==
    ASSUME IInv, NEW r \in Run, WriteRows(r)
    PROVE  IInv'
<1>0. /\ pc[r] = "write" /\ pc' = [pc EXCEPT ![r] = IF piped[r] THEN "completed" ELSE "replace"]
      /\ writing[r] \notin Malformed /\ temp' = [temp EXCEPT ![r] = "whole"]
  BY DEF WriteRows, At
<1>1. ApplyTypeOK'
  BY <1>0 DEF IInv, WriteRows, ApplyTypeOK, InSink, Recording
<1>2. VersionInv'
  BY <1>0 DEF IInv, WriteRows, ApplyTypeOK, VersionInv, Permitted, InSink
<1>3. LogInv' /\ TempInv' /\ PlacedInv'
  BY <1>0, NothingRecorded
     DEF IInv, WriteRows, ApplyTypeOK, LogInv, TempInv, PlacedInv, Early, Permitted, InSink
<1>4. OutputInv' /\ OutcomesInOrder' /\ LogTellsTheOutput'
  BY NothingRecorded DEF IInv, WriteRows, OutputInv, LogTellsTheOutput
<1>5. NothingBeforeAllowed'
  <2>1. Recorded(r, "allowed")
    BY <1>0 DEF IInv, LogInv, Permitted, InSink
  <2> QED BY <1>0, <2>1, NothingRecorded DEF IInv, ApplyTypeOK, WriteRows, NothingBeforeAllowed
<1>6. NoTempLeft'
  BY <1>0 DEF IInv, ApplyTypeOK, WriteRows, NoTempLeft
<1> QED BY <1>1, <1>2, <1>3, <1>4, <1>5, <1>6 DEF IInv

\* The view takes the output's name; its run has recorded no failure.
LEMMA ReplaceStep ==
    ASSUME IInv, NEW r \in Run, Replace(r)
    PROVE  IInv'
<1>0. /\ pc[r] = "replace" /\ pc' = [pc EXCEPT ![r] = "completed"]
      /\ temp' = [temp EXCEPT ![r] = "none"]
      /\ writing[r] \in Version /\ writing[r] \notin Malformed
      /\ output' = [by |-> r, of |-> writing[r]]
      /\ Recorded(r, "allowed") /\ ~Recorded(r, "error")
  BY DEF IInv, VersionInv, LogInv, Replace, At, Permitted, InSink
<1>1. ApplyTypeOK'
  BY <1>0 DEF IInv, Replace, ApplyTypeOK, Recording
<1>2. VersionInv'
  BY <1>0 DEF IInv, Replace, ApplyTypeOK, VersionInv, Permitted, InSink
<1>3. LogInv' /\ TempInv' /\ PlacedInv'
  BY <1>0, NothingRecorded
     DEF IInv, Replace, ApplyTypeOK, LogInv, TempInv, PlacedInv, Early, Permitted, InSink
<1>4. OutputInv'
  BY <1>0 DEF Replace, OutputInv
<1>5. NothingBeforeAllowed' /\ OutcomesInOrder' /\ LogTellsTheOutput'
  BY <1>0, NothingRecorded DEF IInv, Replace, NothingBeforeAllowed, LogTellsTheOutput
<1>6. NoTempLeft'
  BY <1>0 DEF IInv, ApplyTypeOK, Replace, NoTempLeft
<1> QED BY <1>1, <1>2, <1>3, <1>4, <1>5, <1>6 DEF IInv

\* An exception or Ctrl-C: open_sink removes the temporary file.
LEMMA FailStep ==
    ASSUME IInv, NEW r \in Run, WriteFails(r) \/ Interrupt(r)
    PROVE  IInv'
<1>0. /\ \/ pc[r] \in InSink /\ pc' = [pc EXCEPT ![r] = "failed"]
         \/ pc[r] # "start" /\ pc' = [pc EXCEPT ![r] = "exit"]
      /\ temp' = IF piped[r] THEN temp ELSE [temp EXCEPT ![r] = "none"]
      /\ UNCHANGED <<input, updates, piped, tokenizes, opened, checked, writing, output, placed,
                     stdout, log>>
  BY DEF WriteFails, Interrupt, Cleanup
<1>1. ApplyTypeOK'
  BY <1>0 DEF IInv, ApplyTypeOK, Recording
<1>2. VersionInv'
  BY <1>0 DEF IInv, ApplyTypeOK, VersionInv, Permitted, InSink
<1>3. LogInv' /\ TempInv' /\ PlacedInv'
  BY <1>0, NothingRecorded
     DEF IInv, ApplyTypeOK, LogInv, TempInv, PlacedInv, Early, Permitted, InSink
<1>4. OutputInv' /\ NothingBeforeAllowed' /\ OutcomesInOrder' /\ LogTellsTheOutput'
  BY <1>0, NothingRecorded DEF IInv, OutputInv, NothingBeforeAllowed, LogTellsTheOutput
<1>5. NoTempLeft'
  BY <1>0 DEF IInv, ApplyTypeOK, NoTempLeft
<1> QED BY <1>1, <1>2, <1>3, <1>4, <1>5 DEF IInv

\* The process ends; what it flushes is a view it was permitted to write.
LEMMA ExitStep ==
    ASSUME IInv, NEW r \in Run, Exit(r) \/ ExitFails(r)
    PROVE  IInv'
<1>0. /\ pc[r] = "exit" /\ pc' = [pc EXCEPT ![r] = "done"]
      /\ \/ stdout' = stdout
         \/ \E out \in {"some", "all"} : temp[r] # "none" /\ stdout' = [stdout EXCEPT ![r] = out]
      /\ UNCHANGED <<input, updates, piped, tokenizes, opened, checked, writing, temp, output, placed, log>>
  BY DEF Exit, ExitFails, At
<1>1. ApplyTypeOK'
  BY <1>0 DEF IInv, ApplyTypeOK
<1>2. VersionInv'
  BY <1>0 DEF IInv, ApplyTypeOK, VersionInv, Permitted, InSink
<1>3. LogInv' /\ TempInv' /\ PlacedInv'
  BY <1>0, NothingRecorded
     DEF IInv, ApplyTypeOK, LogInv, TempInv, PlacedInv, Early, Permitted, InSink
<1>4. OutputInv' /\ OutcomesInOrder' /\ LogTellsTheOutput'
  BY <1>0, NothingRecorded DEF IInv, OutputInv, LogTellsTheOutput
<1>5. NothingBeforeAllowed'
  BY <1>0, NothingRecorded DEF IInv, ApplyTypeOK, TempInv, NothingBeforeAllowed
<1>6. NoTempLeft'
  BY <1>0 DEF IInv, ApplyTypeOK, NoTempLeft
<1> QED BY <1>1, <1>2, <1>3, <1>4, <1>5, <1>6 DEF IInv

\* Another program replaces the input.
LEMMA UpdateStep ==
    ASSUME IInv, Update
    PROVE  IInv'
<1>1. ApplyTypeOK'
  BY UpdatesAssumption DEF IInv, Update, ApplyTypeOK
<1>2. VersionInv' /\ LogInv' /\ TempInv' /\ PlacedInv' /\ OutputInv' /\ NothingBeforeAllowed'
      /\ LogTellsTheOutput' /\ OutcomesInOrder' /\ NoTempLeft'
  BY NothingRecorded DEF IInv, Update, VersionInv, LogInv, TempInv, PlacedInv, OutputInv,
     NothingBeforeAllowed, LogTellsTheOutput, NoTempLeft
<1> QED BY <1>1, <1>2 DEF IInv

\* The initial state satisfies the invariant.
LEMMA InitInvariant == Init => IInv
<1> SUFFICES ASSUME Init PROVE IInv
  OBVIOUS
<1>1. Len(log) = 0 /\ log \in Seq(Event)
  BY EmptySeq DEF Init
<1>2. \A r, o : ~Recorded(r, o)
  BY <1>1 DEF Recorded
<1>3. ApplyTypeOK
  BY <1>1, UpdatesAssumption DEF Init, ApplyTypeOK
<1>4. VersionInv /\ LogInv /\ TempInv /\ PlacedInv /\ OutputInv
  BY <1>2 DEF Init, VersionInv, LogInv, TempInv, PlacedInv, OutputInv, Early, Permitted, InSink
<1>5. NothingBeforeAllowed /\ LogTellsTheOutput /\ OutcomesInOrder /\ NoTempLeft
  BY <1>1, <1>2 DEF Init, NothingBeforeAllowed, LogTellsTheOutput, OutcomesInOrder, NoTempLeft
<1> QED BY <1>3, <1>4, <1>5 DEF IInv

\* Every step of a run, and every change of its input, preserves the invariant.
LEMMA StepInvariant ==
    ASSUME IInv, [Next]_vars
    PROVE  IInv'
<1>1. CASE UNCHANGED vars
  <2>1. log' = log
    BY <1>1 DEF vars
  <2>2. ApplyTypeOK' /\ VersionInv'
    BY <1>1 DEF vars, IInv, ApplyTypeOK, VersionInv
  <2>3. LogInv' /\ TempInv' /\ PlacedInv' /\ OutputInv' /\ NothingBeforeAllowed'
        /\ LogTellsTheOutput' /\ OutcomesInOrder' /\ NoTempLeft'
    BY <1>1, <2>1, NothingRecorded DEF vars, IInv, LogInv, TempInv, PlacedInv, OutputInv,
       NothingBeforeAllowed, LogTellsTheOutput, NoTempLeft
  <2> QED BY <2>2, <2>3 DEF IInv
<1>2. \A r \in Run, v \in Version, o \in Outcome :
        /\ [run |-> r, outcome |-> o, count |-> 0] \in Event
        /\ [run |-> r, outcome |-> o, count |-> Rows[v]] \in Event
  BY DEF Event
<1>3. ASSUME NEW r \in Run, NEW to \in {"sink", "exit"}, NEW o \in Outcome,
             pc[r] \in Recording, pc' = [pc EXCEPT ![r] = to],
             \/ pc[r] \in {"refused", "failed"} /\ o = "error" /\ Append1(r, o, 0)
             \/ pc[r] \in {"allowed", "completed"} /\ o = pc[r] /\ Append1(r, o, Rows[checked[r]]),
             to = "sink" => pc[r] = "allowed",
             UNCHANGED <<input, updates, piped, tokenizes, opened, checked, writing, temp, output,
                         placed, stdout>>
      PROVE  IInv'
  <2>1. CASE pc[r] \in {"refused", "failed"}
    <3> DEFINE e == [run |-> r, outcome |-> o, count |-> 0]
    <3>1. e \in Event /\ e.run = r /\ e.outcome = o
      BY <1>2, VersionAssumption DEF Event
    <3>2. log' = Append(log, e) /\ o = "error"
      BY <1>3, <2>1 DEF Append1
    <3> HIDE DEF e
    <3> QED BY <1>3, <2>1, <3>1, <3>2, RecordStep
  <2>2. CASE pc[r] \in {"allowed", "completed"}
    <3> DEFINE e == [run |-> r, outcome |-> o, count |-> Rows[checked[r]]]
    <3>1. checked[r] \in Version
      BY <2>2 DEF IInv, VersionInv, Permitted
    <3>2. e \in Event /\ e.run = r /\ e.outcome = o
      BY <1>2, <3>1
    <3>3. log' = Append(log, e) /\ o = pc[r]
      BY <1>3, <2>2 DEF Append1
    <3> HIDE DEF e
    <3> QED BY <1>3, <2>2, <3>2, <3>3, RecordStep
  <2> QED BY <1>3, <2>1, <2>2
<1>4. ASSUME NEW r \in Run,
             RecordRefusal(r) \/ RecordAllowed(r) \/ RecordFailure(r) \/ RecordCompleted(r)
      PROVE  IInv'
  BY <1>3, <1>4 DEF RecordRefusal, RecordAllowed, RecordFailure, RecordCompleted, At, Recording, Outcome
<1>5. ASSUME NEW r \in Run, RecordRaises(r)
      PROVE  IInv'
  <2>1. CASE log' = log
    BY <1>5, <2>1, RecordNothingStep DEF RecordRaises
  <2>2. CASE log' # log
    BY <1>3, <1>5, <2>2 DEF RecordRaises, Outcome
  <2> QED BY <2>1, <2>2
<1> QED BY <1>1, <1>4, <1>5, OpenSourceStep, CheckStep, OpenSinkStep, SpillStep, WriteRowsStep,
           ReplaceStep, FailStep, ExitStep, UpdateStep DEF Next

-----------------------------------------------------------------------------
(* The theorems. *)

\* The inductive invariant.
THEOREM Invariance == Spec => []IInv
<1>1. Init => IInv
  BY InitInvariant
<1>2. IInv /\ [Next]_vars => IInv'
  BY StepInvariant
<1> QED BY <1>1, <1>2, PTL DEF Spec

\* The model's state always has its type.
THEOREM TypeCorrect == Spec => []ApplyTypeOK
<1>1. IInv => ApplyTypeOK
  BY DEF IInv
<1> QED BY <1>1, Invariance, PTL

\* cli.py:292, "recorded before any output is written": no part of a view is in a
\* temporary file, the output file, stdout's buffer or stdout before the run is on
\* record as allowed.
THEOREM RecordedBeforeOutput == Spec => []NothingBeforeAllowed
<1>1. IInv => NothingBeforeAllowed
  BY DEF IInv
<1> QED BY <1>1, Invariance, PTL

\* "completed" is recorded only of a view that took the output's name, "error"
\* only of one that never did.
THEOREM LogIsTrue == Spec => []LogTellsTheOutput
<1>1. IInv => LogTellsTheOutput
  BY DEF IInv
<1> QED BY <1>1, Invariance, PTL

\* A run is on record as refused, or as allowed and then at most once more.
THEOREM OutcomesOrdered == Spec => []OutcomesInOrder
<1>1. IInv => OutcomesInOrder
  BY DEF IInv
<1> QED BY <1>1, Invariance, PTL

\* open_sink leaves no temporary file behind, and renames only whole ones.
THEOREM TempsAreGone == Spec => []NoTempLeft
<1>1. IInv => NoTempLeft
  BY DEF IInv
<1> QED BY <1>1, Invariance, PTL

\* Whatever is in the output file is the view of a run that is on record as
\* allowed, of an input without a malformed row, even when the input was replaced
\* after it had been checked.
THEOREM OutputIsPermitted ==
    Spec => [](output # NoOutput => Recorded(output.by, "allowed") /\ output.of \notin Malformed)
<1>1. IInv => (output # NoOutput => Recorded(output.by, "allowed") /\ output.of \notin Malformed)
  BY DEF IInv, ApplyTypeOK, OutputInv, NothingBeforeAllowed
<1> QED BY <1>1, Invariance, PTL
=============================================================================
