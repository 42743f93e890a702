----------------------------- MODULE ApplyView -----------------------------
(***************************************************************************)
(* `colgov apply` (cmd_apply in cli.py, open_source and open_sink in       *)
(* _tabular.py).  A run reads its input twice, once to check it and once   *)
(* to write the role's view of it, to a temporary file that is renamed     *)
(* into place or to stdout, and records in the audit log that it may do    *)
(* so, and how it ended.  Other programs replace the input meanwhile, and  *)
(* several runs may write the same output file.                            *)
(*                                                                         *)
(* A version of the input is known by how many rows it has and whether it  *)
(* passes the check.  The audit log is AuditTrail's without power cuts: an *)
(* event is stored or not, and record() may raise either way.              *)
(***************************************************************************)
EXTENDS Naturals, Sequences

CONSTANTS
    Run,            \* processes that apply a role's policy to the input
    Version,        \* the contents the input may have
    NoVersion,
    Rows,           \* Rows[v]: how many rows version v has
    Malformed,      \* the versions with a row that has too few or too many fields
    LowCardinality, \* the versions in which a tokenized column fails the risk check
    MaxUpdates      \* bound: how often the input is replaced

ASSUME VersionAssumption ==
    /\ NoVersion \notin Version
    /\ Rows \in [Version -> Nat]
    /\ Malformed \subseteq Version
    /\ LowCardinality \subseteq Version
ASSUME UpdatesAssumption == MaxUpdates \in Nat

VARIABLES
    input,      \* the content of the input file
    updates,    \* how often it was replaced
    pc,         \* pc[r]: where run r is
    piped,      \* piped[r]: whether it writes to stdout; the others share one output file
    tokenizes,  \* tokenizes[r]: whether its plan tokenizes a column
    opened,     \* opened[r]: what open_source opened
    checked,    \* checked[r]: what the first pass read
    writing,    \* writing[r]: what the second pass reads
    temp,       \* temp[r]: the view in its temporary file or in stdout's buffer: none,
                \* partial or whole
    output,     \* the output file: whose view of which version
    placed,     \* the runs whose view has been the output file
    stdout,     \* stdout[r]: what of the view has left r's stdout buffer: none, some or all
    log         \* the audit log

vars == <<input, updates, pc, piped, tokenizes, opened, checked, writing, temp, output,
          placed, stdout, log>>

Outcome == {"allowed", "completed", "error"}
Event == [run : Run, outcome : Outcome, count : {0} \union {Rows[v] : v \in Version}]
NoOutput == [by |-> "nobody", of |-> NoVersion]

Recording == {"refused", "allowed", "failed", "completed"}
InSink == {"sink", "write", "replace"}

ApplyTypeOK ==
    /\ input \in Version
    /\ updates \in 0..MaxUpdates
    /\ pc \in [Run -> {"start", "check", "exit", "done"} \union Recording \union InSink]
    /\ piped \in [Run -> BOOLEAN]
    /\ tokenizes \in [Run -> BOOLEAN]
    /\ opened \in [Run -> Version \union {NoVersion}]
    /\ checked \in [Run -> Version \union {NoVersion}]
    /\ writing \in [Run -> Version \union {NoVersion}]
    /\ temp \in [Run -> {"none", "partial", "whole"}]
    /\ output \in [by : Run, of : Version] \union {NoOutput}
    /\ placed \subseteq Run
    /\ stdout \in [Run -> {"none", "some", "all"}]
    /\ log \in Seq(Event)
-----------------------------------------------------------------------------
(* The first pass. *)

At(r, from, to) ==
    /\ pc[r] = from
    /\ pc' = [pc EXCEPT ![r] = to]

\* open_source, and a plan from the policy and the catalog.
OpenSource(r) ==
    /\ At(r, "start", "check")
    /\ opened' = [opened EXCEPT ![r] = input]
    /\ piped' \in {[piped EXCEPT ![r] = b] : b \in BOOLEAN}
    /\ tokenizes' \in {[tokenizes EXCEPT ![r] = b] : b \in BOOLEAN}
    /\ UNCHANGED <<input, updates, checked, writing, temp, output, placed, stdout, log>>

\* The check opens the input by its name again, also when it is Parquet.
Passes(r) == input \notin Malformed /\ (tokenizes[r] => input \notin LowCardinality)

\* Mutant: the view is written first, and recorded when it is.
CheckThenSink(r) ==
    /\ Passes(r)
    /\ At(r, "check", "sink")
    /\ checked' = [checked EXCEPT ![r] = input]
    /\ UNCHANGED <<input, updates, piped, tokenizes, opened, writing, temp, output, placed, stdout, log>>

CheckPasses(r) ==
    /\ Passes(r)
    /\ At(r, "check", "allowed")
    /\ checked' = [checked EXCEPT ![r] = input]
    /\ UNCHANGED <<input, updates, piped, tokenizes, opened, writing, temp, output, placed, stdout, log>>

\* TabularError, LowCardinalityError or RiskThresholdError.
CheckRefuses(r) ==
    /\ ~Passes(r)
    /\ At(r, "check", "refused")
    /\ UNCHANGED <<input, updates, piped, tokenizes, opened, checked, writing, temp,
                   output, placed, stdout, log>>

\* Any other exception (the input is gone, or not UTF-8) is not recorded.
CheckFaults(r) ==
    /\ At(r, "check", "exit")
    /\ UNCHANGED <<input, updates, piped, tokenizes, opened, checked, writing, temp,
                   output, placed, stdout, log>>
-----------------------------------------------------------------------------
(* record_view. *)

Append1(r, outcome, count) ==
    log' = Append(log, [run |-> r, outcome |-> outcome, count |-> count])

RecordRefusal(r) ==
    /\ At(r, "refused", "exit")
    /\ Append1(r, "error", 0)
    /\ UNCHANGED <<input, updates, piped, tokenizes, opened, checked, writing, temp, output, placed, stdout>>

RecordAllowed(r) ==
    /\ At(r, "allowed", "sink")
    /\ Append1(r, "allowed", Rows[checked[r]])
    /\ UNCHANGED <<input, updates, piped, tokenizes, opened, checked, writing, temp, output, placed, stdout>>

\* Mutant: no raise after the failure was recorded.
RecordFailureOnly(r) ==
    /\ At(r, "failed", "completed")
    /\ Append1(r, "error", 0)
    /\ UNCHANGED <<input, updates, piped, tokenizes, opened, checked, writing, temp, output, placed, stdout>>

RecordFailure(r) ==
    /\ At(r, "failed", "exit")
    /\ Append1(r, "error", 0)
    /\ UNCHANGED <<input, updates, piped, tokenizes, opened, checked, writing, temp, output, placed, stdout>>

\* With the row count of the first pass.
RecordCompleted(r) ==
    /\ At(r, "completed", "exit")
    /\ Append1(r, "completed", Rows[checked[r]])
    /\ UNCHANGED <<input, updates, piped, tokenizes, opened, checked, writing, temp, output, placed, stdout>>

\* Mutant: "completed" is recorded inside the try.
RaiseIsFailure(r) ==
    /\ At(r, "completed", "failed")
    /\ UNCHANGED <<input, updates, piped, tokenizes, opened, checked, writing, temp,
                   output, placed, stdout, log>>

\* record() raises, whether or not the event was stored; nothing catches it.
RecordRaises(r) ==
    /\ pc[r] \in Recording
    /\ pc' = [pc EXCEPT ![r] = "exit"]
    /\ \/ UNCHANGED log
       \/ pc[r] \in {"refused", "failed"} /\ Append1(r, "error", 0)
       \/ pc[r] \in {"allowed", "completed"} /\ Append1(r, pc[r], Rows[checked[r]])
    /\ UNCHANGED <<input, updates, piped, tokenizes, opened, checked, writing, temp, output, placed, stdout>>
-----------------------------------------------------------------------------
(* The second pass, inside open_sink. *)

\* Mutant: the rows are not read.
OpenSinkOnly(r) ==
    /\ At(r, "sink", "write")
    /\ temp' = [temp EXCEPT ![r] = "partial"]
    /\ UNCHANGED <<input, updates, piped, tokenizes, opened, checked, writing, output, placed, stdout, log>>

\* The temporary file is made, or the header goes to stdout's buffer, and the rows
\* are read: from the open Parquet file, or from whatever the CSV file is by now.
OpenSink(r) ==
    /\ At(r, "sink", "write")
    /\ writing' \in {[writing EXCEPT ![r] = v] : v \in {opened[r], input}}
    /\ temp' = [temp EXCEPT ![r] = "partial"]
    /\ UNCHANGED <<input, updates, piped, tokenizes, opened, checked, output, placed, stdout, log>>

\* stdout's buffer is full.
Spill(r) ==
    /\ pc[r] = "write"
    /\ piped[r]
    /\ stdout' = [stdout EXCEPT ![r] = "some"]
    /\ UNCHANGED <<input, updates, pc, piped, tokenizes, opened, checked, writing, temp, output, placed, log>>

\* Every row is written.  A temporary file is closed; stdout is not flushed.
WriteRows(r) ==
    /\ At(r, "write", IF piped[r] THEN "completed" ELSE "replace")
    /\ writing[r] \notin Malformed
    /\ temp' = [temp EXCEPT ![r] = "whole"]
    /\ UNCHANGED <<input, updates, piped, tokenizes, opened, checked, writing, output, placed, stdout, log>>

\* os.replace.
Replace(r) ==
    /\ At(r, "replace", "completed")
    /\ output' = [by |-> r, of |-> writing[r]]
    /\ placed' = placed \union {r}
    /\ temp' = [temp EXCEPT ![r] = "none"]
    /\ UNCHANGED <<input, updates, piped, tokenizes, opened, checked, writing, stdout, log>>

\* What is in stdout's buffer stays there until the process exits.
Cleanup(r) == temp' = IF piped[r] THEN temp ELSE [temp EXCEPT ![r] = "none"]

\* An exception: a malformed row, a full disk, a closed pipe, no permission.
WriteFails(r) ==
    /\ pc[r] \in InSink
    /\ pc' = [pc EXCEPT ![r] = "failed"]
    /\ Cleanup(r)
    /\ UNCHANGED <<input, updates, piped, tokenizes, opened, checked, writing, output, placed, stdout, log>>

\* Mutant: open_sink cleans up after exceptions, but not after Ctrl-C.
InterruptKeepsTemp(r) ==
    /\ pc[r] \notin {"start", "exit", "done"}
    /\ pc' = [pc EXCEPT ![r] = "exit"]
    /\ UNCHANGED <<input, updates, piped, tokenizes, opened, checked, writing, temp,
                   output, placed, stdout, log>>

\* Ctrl-C.  KeyboardInterrupt is no Exception, so nothing is recorded.
Interrupt(r) ==
    /\ pc[r] \notin {"start", "exit", "done"}
    /\ pc' = [pc EXCEPT ![r] = "exit"]
    /\ Cleanup(r)
    /\ UNCHANGED <<input, updates, piped, tokenizes, opened, checked, writing, output, placed, stdout, log>>

\* The process ends, however it got here, and the interpreter flushes stdout.
Exit(r) ==
    /\ At(r, "exit", "done")
    /\ stdout' = CASE piped[r] /\ temp[r] = "whole" -> [stdout EXCEPT ![r] = "all"]
                   [] piped[r] /\ temp[r] = "partial" -> [stdout EXCEPT ![r] = "some"]
                   [] OTHER -> stdout
    /\ UNCHANGED <<input, updates, piped, tokenizes, opened, checked, writing, temp, output, placed, log>>

\* That flush fails: the disk is full, or the reader of the pipe is gone.
ExitFails(r) ==
    /\ piped[r]
    /\ temp[r] # "none"
    /\ At(r, "exit", "done")
    /\ UNCHANGED <<input, updates, piped, tokenizes, opened, checked, writing, temp,
                   output, placed, stdout, log>>

\* Another program replaces the input.
Update ==
    /\ updates < MaxUpdates
    /\ updates' = updates + 1
    /\ input' \in Version
    /\ UNCHANGED <<pc, piped, tokenizes, opened, checked, writing, temp, output, placed, stdout, log>>
-----------------------------------------------------------------------------
Init ==
    /\ input \in Version
    /\ updates = 0
    /\ pc = [r \in Run |-> "start"]
    /\ piped = [r \in Run |-> FALSE]
    /\ tokenizes = [r \in Run |-> FALSE]
    /\ opened = [r \in Run |-> NoVersion]
    /\ checked = [r \in Run |-> NoVersion]
    /\ writing = [r \in Run |-> NoVersion]
    /\ temp = [r \in Run |-> "none"]
    /\ output = NoOutput
    /\ placed = {}
    /\ stdout = [r \in Run |-> "none"]
    /\ log = <<>>

Next ==
    \/ \E r \in Run :
        \/ OpenSource(r) \/ CheckPasses(r) \/ CheckRefuses(r) \/ CheckFaults(r)
        \/ RecordRefusal(r) \/ RecordAllowed(r) \/ RecordFailure(r) \/ RecordCompleted(r)
        \/ RecordRaises(r)
        \/ OpenSink(r) \/ Spill(r) \/ WriteRows(r) \/ Replace(r) \/ WriteFails(r)
        \/ Interrupt(r) \/ Exit(r) \/ ExitFails(r)
    \/ Update

Spec == Init /\ [][Next]_vars
-----------------------------------------------------------------------------
(* Properties. *)

Recorded(r, outcome) == \E i \in 1..Len(log) : log[i].run = r /\ log[i].outcome = outcome

\* "recorded before any output is written" (cli.py:292): nothing of a view is in
\* a temporary file or stdout's buffer, has been the output file or has left stdout
\* unless the log has the run as allowed, whichever runs share the output file.
NothingBeforeAllowed ==
    \A r \in Run : temp[r] # "none" \/ r \in placed \/ stdout[r] # "none" =>
        Recorded(r, "allowed")

\* The log never says of an output file what is not so: "completed" only of a
\* view that took the output's name, "error" only of one that never did, also
\* when recording itself fails.
LogTellsTheOutput ==
    \A r \in Run : ~piped[r] =>
        /\ Recorded(r, "completed") => r \in placed
        /\ Recorded(r, "error") => r \notin placed

\* A run is on record as refused, or as allowed and then at most once as
\* completed or failed.
OutcomesInOrder ==
    \A i, j \in 1..Len(log) : i < j /\ log[i].run = log[j].run =>
        log[i].outcome = "allowed" /\ log[j].outcome # "allowed"

\* The view is either in place or gone: whatever ends a run, no temporary file
\* stays behind, and what takes the output's name is whole.
NoTempLeft ==
    \A r \in Run : ~piped[r] /\ temp[r] # "none" => pc[r] = (IF temp[r] = "whole" THEN "replace" ELSE "write")

\* README:304, "`completed` means its output write finished", for stdout too.
CompletedMeansWritten ==
    \A r \in Run : piped[r] /\ pc[r] = "done" /\ Recorded(r, "completed") => stdout[r] = "all"
=============================================================================
