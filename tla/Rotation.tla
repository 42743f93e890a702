------------------------------ MODULE Rotation ------------------------------
(***************************************************************************)
(* Key rotation over one file with one tokenized column: `colgov apply`    *)
(* and tokenize_column write it, `colgov retokenize` migrates it in place, *)
(* `colgov rotation-preview` counts what is left to do, and an operator    *)
(* edits the key file: a new key becomes the primary, and the old keys are *)
(* dropped when some preview said that nothing needs them, however long    *)
(* ago and whatever happened to the file since.                            *)
(*                                                                         *)
(* Each command is a session: it loads the catalog and the key file, then  *)
(* reads the column, then replaces the file by renaming a temporary one.   *)
(* Sessions overlap, and the key file, the catalog, the file and the input *)
(* of apply change under them.                                             *)
(***************************************************************************)
EXTENDS Tokenization

CONSTANTS
    Session,
    FirstKey,       \* the only key in the key file at first
    FirstDomain,    \* the column's token domain at first
    FirstColumns,   \* the columns the file may hold at first
    RawColumns,     \* the columns that apply may have to tokenize
    Limits,         \* the risk thresholds a session may be given
    NoLimits,
    MaxSessions,    \* bound: sessions that begin
    MaxOldKeys      \* bound: keys in the key file beside the primary

\* A v2 token names its key, and the first bytes of a v1 token name no key.
Genuine(t) ==
    /\ t.format # 0 => t.key \in Key /\ t.value \in Value
    /\ t.format = 1 => t.head \in {StrayId, NoHead}
    /\ t.format = 2 => t.head = IdOf[t.key]

ASSUME BoundsAssumption == MaxSessions \in Nat /\ MaxOldKeys \in Nat
ASSUME FirstAssumption ==
    /\ FirstKey \in Key
    /\ FirstDomain \in Domain
    /\ FirstColumns \subseteq Seq(Token \union {Null})
    /\ \A col \in FirstColumns : \A i \in 1..Len(col) : col[i] # Null =>
        Genuine(col[i]) /\ (col[i].format # 0 => col[i].key = FirstKey)
ASSUME RawAssumption == RawColumns \subseteq Seq(Value \union {Null})
\* What RiskThresholds accepts.
ASSUME LimitsAssumption ==
    /\ NoLimits \notin Limits
    /\ \A limit \in Limits : limit.min_distinct \in Nat \ {0}

VARIABLES
    keyfile,    \* the keys in the key file, primary first
    domain,     \* the token domain the catalog gives the column
    file,       \* the tokens in the file
    written,    \* the thresholds that apply checked on the values whose tokens the file has
    migrated,   \* the primary key and domain of the retokenize that wrote the file
    reports,    \* the previews that were printed
    late,       \* whether a session with another primary key wrote the file after the
                \* preview on which the old keys were dropped had read it
    begun,      \* how many sessions began
    stage,      \* stage[s]: what session s is about to do
    job,        \* job[s]: its command
    ring,       \* ring[s]: its keyring
    dom,        \* dom[s]: its token domain
    column,     \* column[s]: what it has read
    checked,    \* checked[s]: the thresholds checked on the values of the file it has read
    since,      \* since[s]: the keys that others wrote the file with since preview s read it
    outlived    \* the sessions whose primary key was dropped while they ran

session == <<stage, job, ring, dom, column, checked, since, outlived>>
vars == <<keyfile, domain, file, written, migrated, reports, late, begun, session>>

\* What a preview prints: a key (the printed id is the key's), a domain and a count.
\* What happened since is not printed, and only the properties know it.
Printed == [key : Key, domain : Domain, reissue : Nat, since : SUBSET Key]

\* No session has written the file with another primary key since it was read.
Holds(r) == r.since \subseteq {r.key}

NotMigrated == [key |-> NoKey, domain |-> NoHead]
Cells == Token \union Value \union {Null}

RotationTypeOK ==
    /\ keyfile \in Seq(Key) /\ KeyringLoads(keyfile)
    /\ domain \in Domain
    /\ file \in Seq(Token \union {Null})
    /\ written \in Limits \union {NoLimits}
    /\ migrated \in [key : Key, domain : Domain] \union {NotMigrated}
    /\ reports \subseteq Printed
    /\ late \in BOOLEAN
    /\ begun \in 0..MaxSessions
    /\ stage \in [Session -> {"idle", "read", "finish"}]
    /\ job \in [Session -> {"apply", "retokenize", "preview"}]
    /\ ring \in [Session -> Seq(Key)]
    /\ dom \in [Session -> Domain]
    /\ column \in [Session -> Seq(Cells)]
    /\ checked \in [Session -> Limits \union {NoLimits}]
    /\ since \in [Session -> SUBSET Key]
    /\ outlived \subseteq Session
-----------------------------------------------------------------------------
(* The operator. *)

\* A new key becomes the primary.  colgov refuses a key file in which two keys
\* share an id, so the operator makes another key then.
AddKey(k) ==
    /\ k \notin Keys(keyfile)
    /\ Len(keyfile) <= MaxOldKeys
    /\ KeyringLoads(<<k>> \o keyfile)
    /\ keyfile' = <<k>> \o keyfile
    /\ UNCHANGED <<domain, file, written, migrated, reports, late, begun, session>>

\* The older keys are dropped because a preview under this primary key's id counted
\* no token to re-issue.  It may be any that was printed: nothing withdraws it when
\* the file is replaced.
DropKeys(r) ==
    /\ Len(keyfile) > 1
    /\ IdOf[r.key] = PrimaryId(keyfile)
    /\ r.reissue = 0
    /\ keyfile' = <<Primary(keyfile)>>
    /\ late' = (late \/ ~Holds(r))
    /\ outlived' = outlived \union
            {s \in Session : stage[s] # "idle" /\ Primary(ring[s]) # Primary(keyfile)}
    /\ UNCHANGED <<domain, file, written, migrated, reports, begun,
                   stage, job, ring, dom, column, checked, since>>

\* A reviewer gives the column another token domain.  Bound: once.
Redecide(d) ==
    /\ domain = FirstDomain /\ d # domain
    /\ domain' = d
    /\ UNCHANGED <<keyfile, file, written, migrated, reports, late, begun, session>>
-----------------------------------------------------------------------------
(* Sessions. *)

End(s) ==
    /\ stage' = [stage EXCEPT ![s] = "idle"]
    /\ job' = [job EXCEPT ![s] = "apply"]
    /\ ring' = [ring EXCEPT ![s] = <<>>]
    /\ dom' = [dom EXCEPT ![s] = FirstDomain]
    /\ column' = [column EXCEPT ![s] = <<>>]
    /\ checked' = [checked EXCEPT ![s] = NoLimits]
    /\ outlived' = outlived \ {s}

\* A session ends and the file stays.
Leave(s) ==
    /\ End(s)
    /\ since' = [since EXCEPT ![s] = {}]

\* The catalog and the key file are loaded.
Begin(s, j) ==
    /\ begun < MaxSessions
    /\ stage[s] = "idle"
    /\ begun' = begun + 1
    /\ stage' = [stage EXCEPT ![s] = "read"]
    /\ job' = [job EXCEPT ![s] = j]
    /\ ring' = [ring EXCEPT ![s] = keyfile]
    /\ dom' = [dom EXCEPT ![s] = domain]
    /\ UNCHANGED <<keyfile, domain, file, written, migrated, reports, late, column, checked,
                   since, outlived>>

\* apply makes the first of its two readings, of a table that has nothing to do
\* with the file; the others read the file.
Read(s) ==
    /\ stage[s] = "read"
    /\ \E col \in IF job[s] = "apply" THEN RawColumns ELSE {file} :
        column' = [column EXCEPT ![s] = col]
    /\ checked' = [checked EXCEPT ![s] = IF job[s] = "apply" THEN NoLimits ELSE written]
    /\ stage' = [stage EXCEPT ![s] = "finish"]
    /\ UNCHANGED <<keyfile, domain, file, written, migrated, reports, late, begun,
                   job, ring, dom, since, outlived>>

\* The temporary file is renamed into place.  Previews that have read the file, and
\* those that were printed, do not notice.
Replace(s, col) ==
    /\ file' = col
    /\ late' = (late \/ s \in outlived)
    /\ since' = [r \in Session |-> IF r # s /\ stage[r] = "finish" /\ job[r] = "preview"
                                  THEN since[r] \union {Primary(ring[s])} ELSE {}]
    /\ reports' = {[r EXCEPT !.since = @ \union {Primary(ring[s])}] : r \in reports}

\* Mutant: min_distinct is the only threshold that is looked at.
RefusesIndistinct(col, limit) == BoundedRefuses(BoundedCount(col, limit.min_distinct))

\* cmd_apply: the bounded count, unless there are other thresholds than min_distinct.
Refuses(col, limit) ==
    IF limit = OnlyDistinct(limit.min_distinct)
    THEN BoundedRefuses(BoundedCount(col, limit.min_distinct))
    ELSE RiskCheckFails(col, limit)

\* cmd_apply: the second reading is written, whatever the input has become since the
\* first, which was checked.
Apply(s) ==
    /\ stage[s] = "finish" /\ job[s] = "apply"
    /\ \E limit \in Limits, input \in RawColumns :
        /\ ~Refuses(column[s], limit)
        /\ Replace(s, TokenizeMany(ring[s], input, dom[s]))
        /\ written' = IF input = column[s] THEN limit ELSE NoLimits
    /\ migrated' = NotMigrated
    /\ End(s)
    /\ UNCHANGED <<keyfile, domain, begun>>

\* Policy.apply and the adapters: tokenize_column, whose result the caller stores.
ApplyInMemory(s) ==
    /\ stage[s] = "finish" /\ job[s] = "apply"
    /\ \E limit \in Limits :
        /\ limit = OnlyDistinct(limit.min_distinct)
        /\ ~IsLowCardinality(ColumnRisk(column[s]), limit.min_distinct)
        /\ written' = limit
    /\ Replace(s, TokenizeMany(ring[s], column[s], dom[s]))
    /\ migrated' = NotMigrated
    /\ End(s)
    /\ UNCHANGED <<keyfile, domain, begun>>

ApplyRefused(s) ==
    /\ stage[s] = "finish" /\ job[s] = "apply"
    /\ \E limit \in Limits : Refuses(column[s], limit)
    /\ Leave(s)
    /\ UNCHANGED <<keyfile, domain, file, written, migrated, reports, late, begun>>

\* Mutant: a token that does not open is replaced by the error's text.
MigrateSwallowing(s) ==
    LET new == [i \in 1..Len(column[s]) |-> Retokenize(ring[s], column[s][i], dom[s])]
    IN  /\ stage[s] = "finish" /\ job[s] = "retokenize"
        /\ Replace(s, new)
        /\ written' = checked[s]
        /\ migrated' = [key |-> Primary(ring[s]), domain |-> dom[s]]
        /\ End(s)
        /\ UNCHANGED <<keyfile, domain, begun>>

Migrate(s) ==
    LET new == [i \in 1..Len(column[s]) |-> Retokenize(ring[s], column[s][i], dom[s])]
    IN  /\ stage[s] = "finish" /\ job[s] = "retokenize"
        /\ \A i \in 1..Len(new) : new[i] # InvalidToken
        /\ Replace(s, new)
        /\ written' = checked[s]
        /\ migrated' = [key |-> Primary(ring[s]), domain |-> dom[s]]
        /\ End(s)
        /\ UNCHANGED <<keyfile, domain, begun>>

\* InvalidToken: the temporary file is removed and the file stays as it is.
MigrateFails(s) ==
    /\ stage[s] = "finish" /\ job[s] = "retokenize"
    /\ \E i \in 1..Len(column[s]) : Retokenize(ring[s], column[s][i], dom[s]) = InvalidToken
    /\ Leave(s)
    /\ UNCHANGED <<keyfile, domain, file, written, migrated, reports, late, begun>>

\* The report is printed, of what was read, whatever has become of the file.
PreviewFile(s) ==
    /\ stage[s] = "finish" /\ job[s] = "preview"
    /\ PreviewSucceeds(ring[s], column[s], dom[s])
    /\ reports' = reports \union
            {[key |-> Primary(ring[s]), domain |-> dom[s],
              reissue |-> Preview(ring[s], column[s]).reissue, since |-> since[s]]}
    /\ Leave(s)
    /\ UNCHANGED <<keyfile, domain, file, written, migrated, late, begun>>

\* A killed session, a disk error, or a preview that raises RotationError.
Fail(s) ==
    /\ stage[s] # "idle"
    /\ Leave(s)
    /\ UNCHANGED <<keyfile, domain, file, written, migrated, reports, late, begun>>
-----------------------------------------------------------------------------
Init ==
    /\ keyfile = <<FirstKey>>
    /\ domain = FirstDomain
    /\ file \in FirstColumns
    /\ written = NoLimits
    /\ migrated = NotMigrated
    /\ reports = {}
    /\ late = FALSE
    /\ begun = 0
    /\ stage = [s \in Session |-> "idle"]
    /\ job = [s \in Session |-> "apply"]
    /\ ring = [s \in Session |-> <<>>]
    /\ dom = [s \in Session |-> FirstDomain]
    /\ column = [s \in Session |-> <<>>]
    /\ checked = [s \in Session |-> NoLimits]
    /\ since = [s \in Session |-> {}]
    /\ outlived = {}

Next ==
    \/ \E k \in Key : AddKey(k)
    \/ \E r \in reports : DropKeys(r)
    \/ \E d \in Domain : Redecide(d)
    \/ \E s \in Session :
        \/ \E j \in {"apply", "retokenize", "preview"} : Begin(s, j)
        \/ Read(s)
        \/ Apply(s) \/ ApplyInMemory(s) \/ ApplyRefused(s)
        \/ Migrate(s) \/ MigrateFails(s)
        \/ PreviewFile(s)
        \/ Fail(s)

Spec == Init /\ [][Next]_vars
-----------------------------------------------------------------------------
(* Properties. *)

\* A preview that counted nothing to re-issue means that the primary key alone
\* reads all that the preview read: rotation-preview "authenticates each token"
\* (README.md:536), so a header that only looks current does not deceive it.  And
\* it goes on to read every real token of the file, whoever applies or migrates
\* under the same key, in whichever domain, until a session with another key writes.
CleanPreviewNeedsOnlyPrimary ==
    \A r \in reports : r.reissue = 0 =>
        /\ r.since = {} =>
            \A i \in 1..Len(file) : Detokenize(<<r.key>>, file[i], r.domain) # InvalidToken
        /\ Holds(r) /\ ~late =>
            \A i \in 1..Len(file) : file[i] # Null /\ file[i].format # 0 =>
                Opens(<<r.key>>, file[i], file[i].domain)

\* "Retokenize stored data, then remove the key" (threat-model.md:76): after any
\* number of rotations, each on any clean preview ever printed, the key file has
\* the key of every real token in the file.  The code cannot promise it, and this
\* does not say it, when a session with another primary key writes the file after
\* that preview has read it (late): before the keys are dropped or after.
DropLosesNothing ==
    ~late => \A i \in 1..Len(file) :
        file[i] # Null /\ file[i].format # 0 => file[i].key \in Keys(keyfile)

\* After a retokenize the file can be joined (README.md:90-92): of the tokens
\* that can be read in its domain, those of equal values are equal, whatever keys
\* and formats they had before, and no others are.
MigratedTokensJoin ==
    migrated # NotMigrated =>
        LET readable == {i \in 1..Len(file) :
                file[i] # Null /\ Opens(<<migrated.key>>, file[i], migrated.domain)}
        IN  /\ \A i \in 1..Len(file) : file[i] # Null => file[i].head = IdOf[migrated.key]
            /\ \A i, j \in readable : file[i].value = file[j].value <=> file[i] = file[j]

\* Thresholds that were checked on the values hold of their tokens, in the file
\* that apply or tokenize_column wrote and in every one that retokenize made of it
\* since, also out of an older reading.  Of an input that is replaced between the
\* two readings of apply nothing was checked, and nothing is said.
TokensMeetLimits ==
    written # NoLimits => RiskViolations(ColumnRisk(file), written) = {}

\* All the ways to check a column agree on the columns that sessions read.
ChecksAgree ==
    \A s \in Session : stage[s] = "finish" /\ job[s] = "apply" =>
        \A min \in {limit.min_distinct : limit \in Limits} :
            SameVerdict(column[s], min) /\ BoundedIsExact(column[s], min)
=============================================================================
