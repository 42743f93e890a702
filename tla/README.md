# A formal model of colgov

colgov keeps an inventory of what the columns of a data set hold (a reviewed *catalog*), a
*policy* that says what each role sees of each label, and tools that act on the two: role
views, tokens that can be turned back by roles that may, and an audit log of who did what.
This directory holds TLA+ modules that model that core, TLC configurations that check it on
small instances, and proofs, checked with TLAPS, that hold for every instance.

Paths below are relative to `src/` (the repository); most of the code is in
`src/src/colgov/`, and a bare file name is a file there. `PROJECT.json` maps every
definition to its lines.

## The system

| Part | State it keeps | Operations | What makes it correct |
|---|---|---|---|
| Policy (`policy.py`) | roles, and their grants by label | load, resolve a column, plan, `may_detokenize`, `apply`, `detokenize` | fails closed; agrees with every report about it |
| Catalog (`review.py`) | decisions by (table, column), in memory and in a YAML file | load, decide, revoke, pending, save | a file is whole; a save changes what was decided and nothing else |
| Review (`cmd_review`) | a catalog loaded once, the columns still to ask about | decide, skip, quit; saves after every decision | no decision is lost |
| Access comparison (`access.py`, `cmd_policy_diff`) | none: two revisions | explain, compare, gate | a gated change expands nobody's rights |
| Coverage (`cmd_check`) | none | find columns not reviewed or granted to nobody | its findings are what roles experience |
| Audit logs (`audit.py`) | a hash-chained file, an flock, one write buffer per call | construct, record, verify | the chain never forks; what was acknowledged survives |
| Release (`policy.py`, `cmd_detokenize`, `MultiAuditLog`) | the logs, one event per call | apply, detokenize, record, return, print | nothing is out that is not on record |
| Streaming views (`cmd_apply`, `_tabular.py`) | an input read twice, a temporary file or a stdout buffer | check, record, write, rename | nothing out before it is allowed; the log tells the truth |
| Checkpoints (`checkpoint.py`, `audit checkpoint`, `audit verify`) | a file or an S3 object that is never overwritten | save, load, verify | what was saved stays; a healthy log goes on extending it; verify accepts no other log |
| Tokens and keys (`tokenization.py`, `keys.py`, `rotation.py`, `cmd_retokenize`, `cmd_rotation_preview`) | a key file: primary and previous keys; a keyring per session | tokenize, detokenize, retokenize, preview | rotation loses nothing, and migrated tokens join |
| Risk (`risk.py`, `risk_gate.py`, `_check_rows_and_cardinality`, `cmd_report`, `cmd_risk_check`) | counts, exact or bounded | profile, refuse | all the ways to count come to one verdict |
| Rules (`rules.py`, `packs/`, `rule_cases.py`), Presidio (`presidio.py`) | none | suggest labels | suggestions only: they grant nothing |
| View generators (`sql.py`, `dbt.py`) | none | print SQL for a plan | the SQL shows what `Policy.apply` shows |
| Adapters (`pandas.py`, `polars.py`, `spark.py`) | none | apply, detokenize for other data frames | agree with `Policy` |
| CLI (`cli.py`) | none | parse, call, report | exit status |

How they interact: a policy is applied through a catalog, by label. Rules suggest the labels
that a reviewer decides on; decisions go to the catalog file that every other command loads
once, when it starts. Releases ask the policy and the catalog for a right, record the answer
in the logs, and only then hand data out. Checkpoints read a log that others append to.
Processes share files and nothing else: the audit log (with an flock), the catalog and an
output file (with an atomic rename, and no lock).

What is hard here: processes that interleave on a shared file; a flush, an fsync, a lock or a
rename that fails in the middle of an operation; a process killed, or a machine that loses
power, between any two steps; state read once and used much later (a catalog, a keyring, the
counts of a preview, an input that is read twice); several logs of which one raises; and rules for what
a role sees that are simple one by one (public by default, unless denied) and have corners
together. Each of these is in `PROJECT.json` under `hazards`, at its line, with the property
that covers it or the reason there is none.

## Modules

| Module | Models | Used by |
|---|---|---|
| `AuditTrail` | what any audit log promises its callers: the `AuditLog` protocol | `AuditLog` implements it, `Release` relies on it |
| `AuditLog` | `JsonlAuditLog`, step by step | `MCAuditLog`, `AuditLogProofs` |
| `Checkpoint` | runs of `audit checkpoint` beside the writers of `AuditLog`, and `audit verify` | `MCCheckpoint`, `CheckpointProofs` |
| `Policy` | resolution, detokenize right, explanations, comparison, the gate's verdict (operators only) | `PolicyGate`, `Views` |
| `Views` | what `_build_view`, `sql-view` and `dbt-views` make of a plan (operators only) | `MCPolicyGate`, `PolicyGateProofs` |
| `PolicyGate` | sequences of edits, gated merges, decisions and revocations | `MCPolicyGate`, `PolicyGateProofs` |
| `Review` | catalog files, review sessions, revoking scripts and `save()` | `MCReview`, `ReviewProofs` |
| `Release` | library and command-line releases over a `MultiAuditLog` | `MCRelease`, `ReleaseProofs` |
| `ApplyView` | `colgov apply` | `MCApplyView`, `ApplyViewProofs` |
| `Risk` | the ways to measure how predictable a column is (operators only) | `Tokenization`, `RiskProofs` |
| `Tokenization` | keyrings, tokens of both formats, `retokenize`, `preview_rotation` (operators only) | `Rotation` |
| `Rotation` | `apply`, `retokenize` and `rotation-preview` over one file, while keys and domains change | `MCRotation`, `RotationProofs` |

Definitions whose comment starts with "Mutant:" are wrong on purpose: each is the definition
below it with one plausible bug, and shows that a property notices that bug.

### AuditLog and AuditTrail

The steps of `record()` are `Open`, `Lock`, `ReadLastHash`, `Flush` (with `ShortWrite` before
it), `Fsync`, `Unlock`, `Close`, each with its failure (`OpenFails`, `LockFails`,
`ReadFails`, `FlushFails`, `FsyncFails`, `CloseFails`). A failure goes where the `finally` and
the `with` of the code take it: the lock is released first and the file closed, and its
buffer flushed again, afterwards. `Construct` is `__init__`, which reads the file without the
lock. `Crash` and `PowerFails` strike anywhere.

`lines` and `tail` are the file: its complete lines, and what follows the last newline.
`left[w]` is what is still in writer `w`'s buffer, `synced` how many lines are durable,
`holder` the flock. SHA-256 is taken to be collision free, so a hash is the sequence of
events it commits to. Bytes of a line that fall behind another's are `Garbage`, and a piece
of a line is not valid JSON or lacks its newline: `_last_hash` refuses both. An fsync makes
the whole file durable; the directory entry of a new file is taken to be durable with the
first fsync.

`AuditTrail` is the abstract specification: events join one ordered trail, an event whose
`record()` returned stays, and a failure takes away only the newest, unacknowledged ones.
`AuditLog` implements it with `trail <- EventsOf(lines)`, an event per line.

### Checkpoint

A saver is one run of `save_checkpoint`. It reads and verifies the log without the flock
(`VerifyLog`), between any two steps of the writers, and stores the count and the final hash.
A local file is created exclusively, written, flushed and synced (`Create`, `WriteDocument`,
`SyncDocument`, each with its failure); an empty or cut file is `Torn` to whoever loads it. An
S3 object is put with `IfNoneMatch="*"`: the client sends the put up to `MaxAttempts` times
(`SendPut`), puts arrive in any order and perhaps after their client gave up or died
(`Arrive`), and an answer counts only for the put the client still waits for. `Kill` and
power cuts strike at any step. The fsync of a new file is taken to make its directory entry
durable too.

`audit verify --checkpoint` compares for equality, so it refuses a log that has grown since;
`LogKeepsExtending` is therefore about `Extends`, what such a log still satisfies, and
`VerifiedLogIsTheSaved` about what the command accepts. A checkpoint may count a line that is
flushed and not yet synced: after a power cut an honest log then no longer extends it, which
`LogKeepsExtending` allows in that case alone.

### Policy and PolicyGate

`Policy` has the rules of `policy.py` and `access.py` as operators on a policy (a function
from roles to functions from labels to grants) and a catalog (a function from reviewed
columns to decisions): `Lookup`, `Resolve`, `MayDetokenize`, `GrantedLabels`, `Explanation`,
`Rights`, `Changes`, `GatePasses`. In `PolicyGate` anyone edits a working revision of both,
any number of times, and `Merge` puts it on main when `policy-diff --fail-on-expansion`
passes against what main is at that moment. `RightsNeverExceedBaseline` says that no sequence
of such merges gives any role a right that it lacked at the start; it is not a restatement of
the gate, because the gate compares one pair of revisions, over the roles and columns that
occur in either, and because roles, columns, labels and decisions come and go in between.

### Views

`Built` is what `Policy.apply` and the data frame adapters show for a plan. `SqlView` and
`DbtViews` say when the two commands print SQL, and `Select` which source column that SQL
shows under which name: `generate_view_sql` leaves out the companions (the columns that hold
tokens) and shows one where the role sees tokens. They are functions of a policy and a
catalog, and `MCPolicyGate` evaluates them in every revision that a branch of `PolicyGate`
reaches: over tables with and without a companion, six mappings, of which three are
refused, and dbt artifacts with two relations, with a table that has undocumented columns, an
ephemeral model, and relations whose views would collide with each other or with a source.
That a companion really holds tokens is the user's business (sql.py:43-45) and outside of it.

### Review

A session loads the catalog (`StartReview`, `RevokeScript`), decides or skips (`Decide`,
`Skip`, `Quit`) and saves: `CreateTemp`, `WriteTemp`, `SyncTemp`, `Replace`, or `SaveFails`
from any of them (an exception, or Ctrl-C, after which the temporary file is removed).
`Kill`, `Writeback` and `PowerFails` are the environment. Renames that are not yet on disk
(`older`) may come back after a power cut, which `save()` allows, because it does not fsync the
directory. If a rename could reach the disk before the content, a power cut could leave a
part of the file (`Remains`), which may still load, because an empty file is an empty catalog;
`cut` says that the file is such a part, and `CatalogWhole` that it never is. A killed process
leaves its temporary file behind; nothing could remove it, and the model forgets it.

### Release

A call of `Policy.apply` or `Policy.detokenize` ends up with one event and an outcome; the
event goes through the logs of the session one by one (`Store`, `Acknowledge`, or
`RecordRaises`, before or after it was stored) and then the call returns its data (`Return`)
or raises. `cmd_detokenize` prints its values one at a time and goes on with the next batch.
A log is only as good as `AuditTrail`: it may have stored an event and raise, and `Forget`
takes away events that were not acknowledged. A `Lossy` log (`LoggingAuditLog`) takes
everything and may keep nothing. What a role may do is `Policy`'s business, and is one Boolean
here, fixed when the session loads its policy and catalog: a revocation does not reach
sessions that already run.

### ApplyView

A run checks its input in a first pass, records a refusal or `allowed`, writes its view in a
second pass, and records `completed` or a failure. CSV input is opened again by name for each
pass, and Parquet stays open, so the version written is the one opened first or the current
one. `WriteFails`, `Interrupt` (Ctrl-C, which is no `Exception`: the temporary file goes and
nothing is recorded) and `RecordRaises` strike at any step. `Exit` flushes stdout, and
`ExitFails` is that flush failing. Only runs with `--audit` are modelled. Here the log is a
sequence without power cuts: those are `AuditLog`'s and `Release`'s subject.

### Risk, Tokenization and Rotation

`Risk` has the profile of a column (`column_risk`), the thresholds (`risk_violations`), and
the five places that decide whether a column is too predictable: `tokenize_column`, Spark's
aggregation, the streaming count of `apply`, the one of `report`, and `risk-check` over
`profile_columns`. The two streaming counts are loops of the same shape, one operator here. A
share is a fraction and is compared exactly; the division of two counts and the reading of
a decimal limit are both rounded to the nearest float, so they come out equal exactly when
the fractions are, for counts below 2^53 and limits of the usual few digits.

`Tokenization` takes AES-SIV as ideal: a text opens under the key, domain and header it was
made with. A token has the key id its first bytes name (`head`), the format it really has (2,
1, or 0 for altered or foreign text) and what it was made from. `head` and `format` are
separate because `is_current` looks at the first only. Key ids may collide (`IdOf` need not
be injective); that the random first bytes of a v1 token name a key in use is left out
(2^-40).

`Rotation` has one file with one tokenized column. `Begin` loads the catalog and the key file
(a session's `ring` and `dom`), `Read` reads the column, and the last step replaces the file,
so sessions that began earlier overwrite it with what they know. `apply` reads its input twice:
`Read` is the reading it checks, and `Apply` writes another one, which may have nothing to do
with the first. `written` are the thresholds checked on the values whose tokens the file has,
and there are none when the readings differ. `Redecide` changes the column's token domain.

The operator (`AddKey`, `DropKeys`) follows docs/threat-model.md: make a new key the primary,
retokenize, and drop the old keys when a preview under that primary counted nothing to
re-issue. A preview only prints (`reports`); nothing withdraws what it printed when the file
is replaced, before or after the printing, so the operator of the model may act on any clean
preview there ever was. Two things are noted for the properties, and no action looks at them:

- `since`, the keys that other sessions wrote the file with since the preview read it. A report
  `Holds` while they are none but its own key;
- `late`, that a session with another primary key wrote the file and the keys are gone all the
  same: it did so after the preview read the file and before the keys were dropped on that
  preview (`DropKeys`), or it was running when its primary key was dropped and wrote
  afterwards (`outlived`, `Replace`).

`DropLosesNothing` says that every token's key is there unless the file is `late`, so these two
overlaps are all the ways to lose one. Of `outlived`, it is the session that
counts, and not whether its key is in the key file when it writes: `is_current` passes over
tokens by their header, so when key ids are shared and a dropped key comes back, a session
that outlived it can leave tokens of a key that is gone. Once `late`, a file is given up for
good, although a new `apply` would make it sound again.

## What is checked

| Run | Instance | Shows |
|---|---|---|
| `audit_crash` | two writers, two calls each, flock, healthy disk, crashes and power cuts | the chain verifies; what was acknowledged is durable; damage is never appended to, and is the only reason to refuse; the trail is implemented |
| `audit_single` | one writer, two calls, no flock, failing disk, power cuts; two savers, a local file and an S3 object, two attempts per put | the chain and the trail for the setup the documentation prescribes on Windows; a reported checkpoint is kept, none is overwritten, the log keeps extending it, verify accepts no other log |
| `audit_live` | two writers, two calls, flock, failing disk, crashes, fairness | every call ends; order holds even when a failed call's line arrives late |
| `audit_fork` | two writers, one call, flock, failing disk | **violation** of `ChainIntact`, see below |
| `policy_gate` | two roles, a private and a public label, two columns, two edits between merges, any number of merges | rights stay within the baseline, merge by merge; `check` and the generated SQL agree with views; removing never grants |
| `review` | two places for sessions, three sessions in all, two columns, failures, kills, power cuts | the file is whole; a save that fails or is interrupted leaves no temporary file; a save keeps what it knew |
| `review_lost` | two sessions | **violation** of `NothingLost`, see below |
| `release` | a command with one log, a service with three, one lossy, two calls, batches of two | nothing is out that is not on record; later logs are never ahead; one event per call; views are always on record |
| `release_unrecorded` | one service, one call | **violation** of `EveryAttemptRecorded`, see below |
| `apply` | two runs that may share an output file, three versions of the input (sound, weak, malformed), one replacement of it | nothing out before it is allowed; the log is right about the output file; outcomes in order; no temporary file stays |
| `rotation` | three keys of which two share an id, two domains, two sessions at a time and three in all, two old keys beside the primary, columns of two and three rows | the primary key reads what a clean preview read; keys dropped on any clean preview, however old, cost no token unless another key wrote in between; migrated tokens join; thresholds hold of the tokens of checked values; all checks agree |
| `apply_stdout` | one run | **violation** of `CompletedMeansWritten`, see below |

Bounds and why they are enough:

- Writers. Two are enough for one to interleave with, or wait for, another; the theorems hold
  for any number. Two calls each let a writer come back after its own
  failed call, after the other's, and after a power cut. Writers are symmetric where only
  safety is checked.
- Roles, columns, labels. Rules treat columns one by one, so one column is enough to
  distinguish all the rules; the second is another column's companion, or undocumented. The
  second role is the one that lists nothing, the second label the public one. One token domain
  is enough: domains give no rights. The proofs cover the rest. Merges are not bounded.
  `MaxEdits` bounds the edits between two merges, that is, how far a working revision strays.
- Savers. Two race for a destination, or use one each. Two attempts are one that is lost or
  late and one that is answered.
- Keys and columns. `MaxOldKeys` bounds the key file, not how often keys are added and dropped.
  Two keys beside the primary let a key grow old and then be dropped; the third key has the id of
  the first, so it may come only after the first is gone. The file's first two rows
  mix a current token with an old, altered or foreign one; the columns to tokenize have different
  values, nulls among values or alone, and, in three rows, one value more frequent than another. The limits are one of distinct values
  and one of share. Values are symmetric.
- Sessions. Two at a time overlap; the third is the one that comes after both.
- Logs. Three: a reliable one, a lossy one, and a reliable one behind the lossy one. Two calls
  in all are enough for a session to fail and go on, or for two sessions to mix. A batch of two
  can be printed in part.
- Runs of `apply`. Two, for the shared output. One replacement of the input can fall between
  any two of the three times it is read; what it changes to is arbitrary.

Deadlock is not checked where a bounded number of calls or sessions ends in a state without
steps. It is checked in `policy_gate`, where there is always something to do.

Fairness, in `audit_live` only: `WF(Proceed(w))`, because a process inside `record()` runs on
until it returns, raises or is killed, and `SF(Lock(w))`, because the kernel queues the
waiters of a contended flock and grants it to each in turn (weak fairness would let a waiter
be overtaken for ever). Nothing is assumed of crashes, or that anyone calls `record()`.

### Disagreements between the code and what is said of it

1. **A failed flush can fork the chain** (`audit_fork`). When `file.flush()` (audit.py:128)
   raises, the `finally` releases the flock while the line is still buffered, and the `with`
   statement's `close()` flushes it again, without the lock. If another process recorded in
   between, the late line's `prev` is no longer the last hash. audit.py:109: "so the chain
   never forks". The proofs for several writers
   therefore assume a disk that does not fail; one writer is safe even so
   (`SoloChainNeverForks`, `audit_single`).
2. **Overlapping reviews lose decisions** (`review_lost`). Each session saves the whole
   catalog that it loaded at the start. cli.py:195: "after every decision, so nothing is
   lost".
3. **Some failed detokenize calls leave no event** (`release_unrecorded`). Only `InvalidToken`
   is recorded; a `TypeError`, or an exception from the iterable of tokens, is not. audit.py:3
   and README.md:276 say that every attempt is. No plaintext is released in this case.
4. **"completed" is recorded before stdout is flushed** (`apply_stdout`). With `--output -`
   the view may still be in the buffer; when the flush at exit fails, the log has `completed`
   and no `error`. README.md:305: "`completed` means its output write finished".

A limit that is no finding: `cmd_apply` checks one reading of its input (cli.py:276-287) and
writes another (cli.py:299), and a file replaced in between is tokenized and written
unchecked. `ApplyView` and `Rotation` both have this step, and the properties are stated for
it: `NothingBeforeAllowed`, `LogTellsTheOutput` and `NoTempLeft` hold whichever version is
written, while `TokensMeetLimits` claims thresholds only of values that were checked.

## What is proved

Every invariant and action property of the passing runs is stated by a theorem, for every
value of the constants: any number of writers, savers, sessions, runs, logs, keys, columns and
calls. The bounds on calls and sessions are arbitrary numbers there.

### AuditLog

`AuditLogProofs` is about `Spec` of `AuditLog`. Under `Disciplined == Flock = TRUE /\ IoFaults =
FALSE`, for every set of writers, every number of calls, with and without power cuts, it
proves `TypeCorrect`, `ChainNeverForks`, `AcknowledgedIsDurable`, `RefusesOnlyDamage`,
`DamageStays` and `Refinement` (it implements `AuditTrail`). Under `Alone`, one writer, whatever
the platform and the disk do, it proves the same as `SoloChainNeverForks` ... `SoloRefinement`.
`audit_fork` shows what happens with neither. Two theorems need no assumption: `LogTypeCorrect`,
and `EventsInOrder`, because a line that `close()` writes late is before the next call of its
writer, and bytes that fall behind another's make no entry (`OrderInv`).

None of the properties is inductive. Under `Disciplined`, the invariant, `IInv`, adds to them

- `LockInv`: a writer is between locking and unlocking exactly when it holds the flock, so at
  most one is;
- `CallInv`: a writer inside `record()` is in a call that was counted, so its event is new;
- `BufferInv`: what a writer has in its buffer, step by step, and that whatever follows the
  last newline while it holds the lock is its own, unless the log was damaged before; the
  entry it wrote extends the last line;
- `DurableInv`: after its fsync, a writer's line is within `synced`, also while it unlocks and
  closes the file;
- `HistoryInv`: the events of a writer that are in the file belong to calls it has made, and
  its current one is there only after the flush.

One lemma per action shows that it keeps `IInv` (`ConstructStep` ... `PowerFailsStep`), and
`StepInvariant` puts them together. `ExtendChain` is the heart: an entry made from the last
hash, appended to a chain, is a chain. For the refinement, `FlushStores`,
`CloseAcknowledges` and `PowerCutForgets` show which abstract step each step is; all others
are stutters.

With one writer the lock does not matter, and a failed flush leaves bytes in a buffer that
nobody can come before. `SoloInv` has the buffer as `BufferInv` does, but also in the steps
after a flush that raised, until `close()` has flushed again or dropped the bytes;
`SoloDurableInv` says that a line still in a buffer is of a call that raises, so that it is
never acknowledged, and `SoloHistoryInv` that no line in the file is of that call.
`LogInv` (types, and that a hash commits to all the events before it) needs neither
assumption: `LogInvariance`.

### Checkpoint

`CheckpointProofs` assumes nothing of the log, the disk or the platform. `SaverInv` adds

- `RouteInv`: exclusive creation is for local files and puts are for objects, and the two
  never meet at one destination;
- `OwnerInv`: the saver that created a local file, or whose put was answered as stored, owns the
  destination; it is the only one, and the destination holds what it put there, `Torn` until
  it wrote;
- `FirmInv`: what no power cut can take away is a whole checkpoint.

From these follow `SavedStays` and `CheckpointsAreFinal`: whatever can be read at a destination is
replaced by nothing else, and only a power cut takes it away, when it is in a local file that
was never synced. `VerifiedIsTheSaved` and
`LogExtendsCheckpoints` rest on `HashesCommit`: equal final hashes mean equal events, and
lines that stay in place keep their hash (`SameCut`).

### Release

`ReleaseProofs` is for any sessions, reliable and lossy logs, calls and batches. The argument
follows `MultiAuditLog.record` through the logs: `RecordedInv` says that the reliable logs
before the one a session is at have accepted its event, `CurrentInv` that no log beyond it
has heard of the call, and `CallInv` and `HistoryInv` that the call is new. What a log has
accepted stays (`AcceptedStays`), because `Forget` takes unacknowledged events only, so a
release that was covered once stays covered (`ReleaseIsOnRecord`), and a later log holds
nothing that an earlier reliable one has not accepted (`LogsAgree`). `LogsAreTrails` shows that
each reliable log on its own is an `AuditTrail`, the specification that
`JsonlAuditLog` implements.

### ApplyView

`ApplyViewProofs` is for any runs and versions of the input, replaced as often as one likes.
`LogInv` says what the log has of a run by the step it is at, `TempInv` and `PlacedInv` tie the
temporary file and the output's name to it, and `OutputInv` says that the output is of an input
without malformed rows. The five properties follow, and `OutputIsPermitted`: whatever is in
the output file is of a run on record as allowed.

### Review

`ReviewProofs` is for any sessions and columns, with and without power cuts. `FileInv` (only
fsynced content takes the catalog's name) needs `TempInv` (how far the temporary file is, by
the step of `save()`); `SavingInv` says that in `save()` the catalog differs from the one last
seen in one column. `AloneNothingIsLost` is the positive side of `review_lost`: in a behaviour
in which no two sessions overlap, the comment at cli.py:195 is true.

### Policy, PolicyGate and Views

`PolicyGateProofs` is about `GateSpec`, for every set of roles, columns, labels and domains and
any policy and catalog to begin with: `RightsBounded` (via `GateIsSound`: a change that
passes the gate gives no role on no column a right, where `UnknownHasNoRights` covers the
roles and columns that are not compared), `CheckIsExact`, `RemovalIsSafe` and
`GateTypeCorrect`, on top of `RevisionsAreWellFormed`.

The views are functions, so their theorems are about all policies, catalogs, tables,
mappings and manifests, and not only about those a branch reaches: `SqlViewsAgree` (by
`GeneratedIsMapped` and `SelectedColumns`), `DbtIsSafe` (by `ViewsAreNoSources`: a view that
were the source of another relation would be the source of its own, which is refused), and
`ViewsWithinRights`, which joins them to the gate: what `Policy.apply` shows a role is within the
rights that the comparison counts. `BranchViewsAgree` states the first two as the run does.

### Risk

The counts of `Risk` are folds over the rows. `RiskProofs` first derives induction over a set
of numbers from the well-foundedness of `<` (`SetInduction`), then that a fold of the
community modules is a recursion over the rows (`FoldOfRows`), and from there what the
two loops compute after each row, for every column: `FrequencyFold` and `CountFold`. So
`EveryCheckAgrees` and `BoundedCountIsExact` hold for columns of any length.
`ShapeDecidesRisk` says that a profile depends only on which rows are equal and which are null.

### Rotation

`RotationProofs` is for any keys, ids (shared or not), domains and columns, and any number of
overlapping sessions and rotations; a dropped key may come back. The invariant needs

- `GenuineTokens`: a token's header is that of its key;
- `SessionInv`: a session that did not outlive its primary key still finds it in the key file,
  and of what it has read, the tokens that `is_current` passes over are really of that key
  (`CurrentIsPrimary`), unless a file was late already;
- `ReportInv`: until the file is written again, all tokens that a clean preview read are of its
  one key and domain, not only of one key id; and while its report `Holds`, writes under the
  same key, in any domain, keep the real tokens of that key;
- `PreviewInv`: the same of a preview that has read the file and not printed yet;
- `MigratedInv`: every token of a migrated file has the primary's header;
- `LimitsInv`: a file of values on which thresholds were checked is, token by token, an encoding
  under one key and domain of a column that meets them, and so is what a session has read of
  one that had them (`checked`), which may be written back much later; by `ShapeDecidesRisk` it meets them too
  (`TokensMeetTheLimits`).

### Only model-checked

Liveness (`RecordTerminates`), which is about fairness, and that the four violations occur.
What the proofs assume beyond what is said above is in the `ASSUME`s of the modules: markers such as
`NoWriter`, `Null` or `NoLimits` differ from what they stand beside, bounds are numbers, limits are
those that `RiskThresholds` accepts (risk_gate.py:33-39), and the first file of `Rotation`
holds tokens of the first key, or none.

## What is not modelled, and why

- Ciphers, HKDF, encodings, SHA-256, SQLite, KMS: libraries and services, taken as ideal where
  they appear.
- YAML and JSON parsing, error messages, reports, argument parsing: pure, without state.
- Threads that share one `Catalog` or `Policy` object: the classes take no locks and document
  no thread safety. Sessions and writers are processes, or threads with objects of their own.
- Classification (`rules.py`, `packs/`, `rule_cases.py`, sampling) and Presidio: regular
  expressions and scores that suggest labels to a reviewer, who decides; no state, and no
  effect on what anyone sees.
- Data frame adapters beyond the plan and Spark's cardinality check: column-wise calls into
  pandas, polars and Spark.
- `k_anonymity`: a count that is printed, and that no decision depends on.
- `created_at`, retention options, `--expected-count` and `--expected-hash` of checkpoints;
  SQL dialects and quoting.
- A policy and a catalog that change between a command's two reads, and sessions that use
  the catalog they loaded after a revocation: the code promises nothing about either.
- Edits by hand of the catalog file while sessions run, and anyone who tampers with the log. (Edits
  by hand of the policy, on a branch, are the first four actions of `PolicyGate`.)

## Plan

Next proofs:

1. `Release` over `AuditLog` rather than over its promises, for the log file that the
   command line opens: the refinement of both to `AuditTrail` is there, the composition is not.
2. `Rotation`: when a file that was `late` is sound again.

Left to model: one more `AuditLog` writer beside savers and `Rotation` under power cuts, if a
cheaper state space allows.
