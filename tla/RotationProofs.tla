--------------------------- MODULE RotationProofs ---------------------------
(***************************************************************************)
(* Theorems about key rotation, for any keys, ids, domains and columns,    *)
(* any number of sessions that overlap, and any number of rotations: keys  *)
(* may share an id, and a dropped key may come back.                       *)
(***************************************************************************)
EXTENDS Rotation, RiskProofs

-----------------------------------------------------------------------------
(* The inductive invariant. *)

GenuineTokens(col) == \A i \in 1..Len(col) : col[i] # Null => Genuine(col[i])

\* The tokens that Retokenize leaves alone were made with the ring's primary
\* key, and not with another key of its id.
CurrentIsPrimary(keys, col) == \A i \in 1..Len(col) :
    /\ col[i] # Null
    /\ col[i].format = 2
    /\ col[i].head = PrimaryId(keys)
    => col[i].key = Primary(keys)

FileInv ==
    /\ GenuineTokens(file)
    /\ DropLosesNothing

\* A session that did not outlive its primary key can rely on what it has read.
SessionInv == \A s \in Session : stage[s] # "idle" =>
    /\ ring[s] # <<>>
    /\ s \notin outlived => Primary(ring[s]) \in Keys(keyfile)
    /\ stage[s] = "finish" =>
        IF job[s] = "apply"
        THEN column[s] \in Seq(Value \union {Null})
        ELSE /\ column[s] \in Seq(Token \union {Null})
             /\ GenuineTokens(column[s])
             /\ ~late /\ s \notin outlived => CurrentIsPrimary(ring[s], column[s])

\* The real tokens of a column are of one key, in today's format.
RealTokensOf(k, col) == \A i \in 1..Len(col) :
    col[i] # Null /\ col[i].format # 0 => col[i].format = 2 /\ col[i].key = k

\* After a clean preview all tokens are of its key and domain, and the real ones
\* stay of its key as long as no other key is written.
ReportInv == \A r \in reports : r.reissue = 0 =>
    /\ r.since = {} => \A i \in 1..Len(file) : file[i] # Null =>
            file[i].format = 2 /\ file[i].key = r.key /\ file[i].domain = r.domain
    /\ Holds(r) /\ ~late => RealTokensOf(r.key, file)

\* What a preview that has read the file, and not printed yet, can rely on.
PreviewInv == \A s \in Session : stage[s] = "finish" /\ job[s] = "preview" =>
    /\ since[s] = {} => column[s] = file
    /\ since[s] \subseteq {Primary(ring[s])} /\ ~late =>
            column[s] = file \/ RealTokensOf(Primary(ring[s]), file)

MigratedInv == migrated # NotMigrated =>
    \A i \in 1..Len(file) : file[i] # Null => file[i].head = IdOf[migrated.key]

\* What a session keeps, and the rest of the state.
SessionTypes ==
    /\ stage \in [Session -> {"idle", "read", "finish"}]
    /\ job \in [Session -> {"apply", "retokenize", "preview"}]
    /\ ring \in [Session -> Seq(Key)]
    /\ dom \in [Session -> Domain]
    /\ column \in [Session -> Seq(Cells)]
    /\ checked \in [Session -> Limits \union {NoLimits}]
    /\ since \in [Session -> SUBSET Key]
    /\ outlived \subseteq Session

FileTypes ==
    /\ keyfile \in Seq(Key) /\ KeyringLoads(keyfile)
    /\ domain \in Domain
    /\ file \in Seq(Token \union {Null})
    /\ written \in Limits \union {NoLimits}
    /\ migrated \in [key : Key, domain : Domain] \union {NotMigrated}
    /\ reports \subseteq Printed
    /\ late \in BOOLEAN
    /\ begun \in 0..MaxSessions

IInv ==
    /\ RotationTypeOK
    /\ FileInv
    /\ SessionInv
    /\ ReportInv
    /\ PreviewInv
    /\ MigratedInv

-----------------------------------------------------------------------------
(* Lemmas about keyrings and tokens. *)

\* The keys of a keyring, of which the primary is one, have different ids.
LEMMA RingKeys ==
    ASSUME NEW keys \in Seq(Key), keys # <<>>
    PROVE  /\ Primary(keys) \in Key /\ Primary(keys) \in Keys(keys) /\ Keys(keys) \subseteq Key
           /\ PrimaryId(keys) \in KeyId
           /\ KeyringLoads(keys) =>
                \A k \in Keys(keys) : IdOf[k] = PrimaryId(keys) => k = Primary(keys)
<1>1. /\ Len(keys) \in Nat /\ 1 \in 1..Len(keys)
      /\ DOMAIN keys = 1..Len(keys)
      /\ \A i \in 1..Len(keys) : keys[i] \in Key
  BY LenProperties, EmptySeq, ElementOfSeq
<1>2. Keys(keys) = {keys[i] : i \in 1..Len(keys)}
  BY <1>1 DEF Keys, ToSet
<1>3. Primary(keys) = keys[1]
  BY DEF Primary
<1> QED BY <1>1, <1>2, <1>3, KeyAssumption DEF PrimaryId, KeyringLoads

\* The keys of a file that a new one was put in front of.
LEMMA AddedKeys ==
    ASSUME NEW keys \in Seq(Key), NEW k \in Key
    PROVE  /\ <<k>> \o keys \in Seq(Key)
           /\ Keys(keys) \subseteq Keys(<<k>> \o keys)
<1>1. <<k>> \in Seq(Key) /\ Len(<<k>>) = 1 /\ Len(keys) \in Nat
  BY LenProperties
<1> DEFINE more == <<k>> \o keys
<1>2. /\ more \in Seq(Key) /\ Len(more) = 1 + Len(keys)
      /\ \A i \in 1..1 + Len(keys) : more[i] = IF i <= 1 THEN <<k>>[i] ELSE keys[i - 1]
  BY <1>1, ConcatProperties
<1>3. DOMAIN more = 1..1 + Len(keys) /\ DOMAIN keys = 1..Len(keys)
  BY <1>2, LenProperties
<1> HIDE DEF more
<1>4. \A i \in 1..Len(keys) : i + 1 \in 1..1 + Len(keys) /\ more[i + 1] = keys[i]
  BY <1>1, <1>2
<1>5. Keys(keys) = {keys[i] : i \in 1..Len(keys)} /\ Keys(more) = {more[i] : i \in 1..1 + Len(keys)}
  BY <1>3 DEF Keys, ToSet
<1>6. Keys(keys) \subseteq Keys(more)
  BY <1>4, <1>5
<1> QED BY <1>2, <1>6 DEF more

\* The ring's key under its primary id is the primary one.
LEMMA KeyUnderPrimaryId ==
    ASSUME NEW keys \in Seq(Key), keys # <<>>
    PROVE  KeyUnder(keys, PrimaryId(keys)) = Primary(keys)
<1> DEFINE S == {i \in 1..Len(keys) : IdOf[keys[i]] = PrimaryId(keys)}
<1>1. 1 \in S /\ \A i \in S : i \in Nat /\ 1 <= i
  BY EmptySeq, LenProperties DEF PrimaryId, Primary
<1>2. Min(S) \in S /\ \A i \in S : Min(S) <= i
  <2>1. \E m \in S : \A i \in S : m <= i
    BY <1>1
  <2> QED BY <2>1 DEF Min
<1>3. Min(S) = 1
  BY <1>1, <1>2
<1> QED BY <1>3 DEF KeyUnder, Primary

\* A new token of the primary key, or a null.
New(keys, d, r) ==
    /\ r \in Token \union {Null}
    /\ r # Null => /\ Genuine(r) /\ r.head = PrimaryId(keys)
                   /\ r.format = 2 /\ r.key = Primary(keys) /\ r.domain = d

\* What Tokenize returns.
LEMMA TokenizeResult ==
    ASSUME NEW keys \in Seq(Key), keys # <<>>, NEW v \in Value \union {Null}, NEW d \in Domain
    PROVE  New(keys, d, Tokenize(keys, v, d))
<1>1. CASE v = Null
  BY <1>1 DEF Tokenize, New
<1>2. CASE v # Null
  <2> DEFINE r == [head |-> PrimaryId(keys), format |-> 2, key |-> Primary(keys),
                   domain |-> d, value |-> v]
  <2>1. r = Tokenize(keys, v, d)
    BY <1>2 DEF Tokenize
  <2>2. PrimaryId(keys) \in HeadId /\ Primary(keys) \in Key
    BY RingKeys DEF HeadId
  <2>3. r \in Token
    BY <2>2 DEF Token
  <2>4. PrimaryId(keys) = IdOf[Primary(keys)] /\ v \in Value
    BY <1>2 DEF PrimaryId
  <2> QED BY <2>1, <2>2, <2>3, <2>4 DEF Genuine, New
<1> QED BY <1>1, <1>2

\* A token whose header names the primary key and that opens was made with it.
LEMMA CurrentOpens ==
    ASSUME NEW keys \in Seq(Key), keys # <<>>, NEW d, NEW t \in Token, Genuine(t),
           IsCurrent(keys, t), Opens(keys, t, d)
    PROVE  t.format = 2 /\ t.key = Primary(keys) /\ t.domain = d
<1>1. t.head = PrimaryId(keys) /\ t.head \in KeyId
  BY RingKeys DEF IsCurrent
<1>2. t.format # 1
  BY <1>1, KeyAssumption DEF Genuine
<1>3. OpensV2(keys, t, d)
  BY <1>2 DEF Opens, OpensV1
<1> QED BY <1>1, <1>3, KeyUnderPrimaryId DEF OpensV2

\* Such a token opens under its key alone.
LEMMA OpensAlone ==
    ASSUME NEW k \in Key, NEW t \in Token, t.format = 2, t.key = k, t.head = IdOf[k], NEW d, t.domain = d
    PROVE  Opens(<<k>>, t, d)
<1>1. <<k>> \in Seq(Key) /\ <<k>> # <<>> /\ Primary(<<k>>) = k
  BY DEF Primary
<1>2. KeyUnder(<<k>>, IdOf[k]) = k /\ k \in Keys(<<k>>)
  BY <1>1, KeyUnderPrimaryId, RingKeys DEF PrimaryId
<1>3. t.head # NoHead
  BY KeyAssumption
<1> QED BY <1>2, <1>3 DEF Opens, OpensV2, LooksV2

\* A token with the primary's header: t itself, or a new one of the primary key.
LeftOrNew(keys, t, d, r) ==
    /\ r \in Token \union {Null}
    /\ r # Null => /\ Genuine(r) /\ r.head = PrimaryId(keys)
                   /\ \/ r = t
                      \/ r.format = 2 /\ r.key = Primary(keys) /\ r.domain = d

\* What Retokenize returns if the token opens.
LEMMA RetokenizeResult ==
    ASSUME NEW keys \in Seq(Key), keys # <<>>, NEW t \in Token \union {Null}, t # Null => Genuine(t),
           NEW d \in Domain, Retokenize(keys, t, d) # InvalidToken
    PROVE  LeftOrNew(keys, t, d, Retokenize(keys, t, d))
<1>1. CASE t = Null
  BY <1>1 DEF Retokenize, LeftOrNew
<1>2. CASE t # Null /\ IsCurrent(keys, t)
  BY <1>2 DEF Retokenize, IsCurrent, LeftOrNew
<1>3. CASE t # Null /\ ~IsCurrent(keys, t)
  <2>1. Opens(keys, t, d) /\ Retokenize(keys, t, d) = Tokenize(keys, t.value, d)
    BY <1>3 DEF Retokenize, Detokenize
  <2>2. t.value \in Value \union {Null}
    BY <1>3 DEF Token
  <2>3. New(keys, d, Retokenize(keys, t, d))
    BY <2>1, <2>2, TokenizeResult
  <2> QED BY <2>3 DEF LeftOrNew, New
<1> QED BY <1>1, <1>2, <1>3

-----------------------------------------------------------------------------
(* Every step preserves the invariant. *)

LEMMA TypesTogether == RotationTypeOK <=> FileTypes /\ SessionTypes
BY DEF RotationTypeOK, FileTypes, SessionTypes

\* The same one step later.
LEMMA NewTypes == RotationTypeOK' <=> FileTypes' /\ SessionTypes'
BY DEF RotationTypeOK, FileTypes, SessionTypes

\* A session ends; what the others rely on is not touched.
LEMMA EndStep ==
    ASSUME IInv, NEW s \in Session, End(s), since' \in [Session -> SUBSET Key],
           keyfile' = keyfile, ~late' => ~late
    PROVE  /\ SessionTypes' /\ SessionInv' /\ stage'[s] = "idle"
           /\ \A r \in Session : r # s =>
                /\ stage'[r] = stage[r] /\ job'[r] = job[r] /\ ring'[r] = ring[r]
                /\ column'[r] = column[r]
<1>1. SessionTypes'
  <2>1. <<>> \in Seq(Key) /\ <<>> \in Seq(Cells)
    BY EmptySeq
  <2> QED BY <2>1, FirstAssumption DEF IInv, RotationTypeOK, SessionTypes, End
<1>2. stage'[s] = "idle"
  BY DEF IInv, RotationTypeOK, End
<1>3. ASSUME NEW r \in Session, r # s
      PROVE  /\ stage'[r] = stage[r] /\ job'[r] = job[r] /\ ring'[r] = ring[r]
             /\ column'[r] = column[r] /\ (r \in outlived' <=> r \in outlived)
  BY <1>3 DEF IInv, RotationTypeOK, End
<1>4. SessionInv'
  <2> SUFFICES ASSUME NEW r \in Session, stage'[r] # "idle"
               PROVE  /\ ring'[r] # <<>>
                      /\ r \notin outlived' => Primary(ring'[r]) \in Keys(keyfile)
                      /\ stage'[r] = "finish" =>
                            IF job'[r] = "apply"
                            THEN column'[r] \in Seq(Value \union {Null})
                            ELSE /\ column'[r] \in Seq(Token \union {Null})
                                 /\ GenuineTokens(column'[r])
                                 /\ ~late' /\ r \notin outlived' =>
                                        CurrentIsPrimary(ring'[r], column'[r])
    BY DEF SessionInv, Keys, ToSet, Primary, GenuineTokens, CurrentIsPrimary, PrimaryId, Genuine
  <2>1. r # s
    BY <1>2
  <2> QED BY <1>3, <2>1 DEF IInv, SessionInv
<1> QED BY <1>1, <1>2, <1>3, <1>4

\* The file stays, and so does what the previews have read.
LEMMA LeaveStep ==
    ASSUME IInv, NEW s \in Session, Leave(s), UNCHANGED <<keyfile, file, late>>
    PROVE  SessionTypes' /\ SessionInv' /\ PreviewInv'
<1>1. since' \in [Session -> SUBSET Key] /\ \A r \in Session : r # s => since'[r] = since[r]
  BY DEF IInv, RotationTypeOK, Leave
<1>2. /\ SessionTypes' /\ SessionInv' /\ stage'[s] = "idle"
      /\ \A r \in Session : r # s =>
            /\ stage'[r] = stage[r] /\ job'[r] = job[r] /\ ring'[r] = ring[r]
            /\ column'[r] = column[r]
  BY <1>1, EndStep DEF Leave
<1>3. PreviewInv'
  <2> SUFFICES ASSUME NEW r \in Session, stage'[r] = "finish", job'[r] = "preview"
               PROVE  /\ since'[r] = {} => column'[r] = file
                      /\ since'[r] \subseteq {Primary(ring'[r])} /\ ~late =>
                            column'[r] = file \/ RealTokensOf(Primary(ring'[r]), file)
    BY DEF PreviewInv, RealTokensOf, Primary
  <2>1. r # s
    BY <1>2
  <2> QED BY <1>1, <1>2, <2>1 DEF IInv, PreviewInv
<1> QED BY <1>2, <1>3

\* A session begins with the key file as it is.
LEMMA BeginStep ==
    ASSUME IInv, NEW s \in Session, NEW j \in {"apply", "retokenize", "preview"}, Begin(s, j)
    PROVE  IInv'
<1>1. UNCHANGED <<keyfile, domain, file, written, migrated, reports, late, column, checked,
                  since, outlived>>
  BY DEF Begin
<1>2. begun + 1 \in 0..MaxSessions
  BY BoundsAssumption DEF IInv, RotationTypeOK, Begin
<1>3. RotationTypeOK'
  BY <1>1, <1>2 DEF IInv, RotationTypeOK, Begin
<1>4. FileInv' /\ ReportInv' /\ MigratedInv'
  BY <1>1 DEF IInv, FileInv, ReportInv, MigratedInv, GenuineTokens, DropLosesNothing,
              RealTokensOf, Holds
<1>5. keyfile \in Seq(Key) /\ keyfile # <<>> /\ Primary(keyfile) \in Keys(keyfile)
  BY RingKeys DEF IInv, RotationTypeOK, KeyringLoads
<1>6. stage'[s] = "read" /\ ring'[s] = keyfile
  BY DEF IInv, RotationTypeOK, Begin
<1>7. ASSUME NEW r \in Session, r # s
      PROVE  stage'[r] = stage[r] /\ job'[r] = job[r] /\ ring'[r] = ring[r]
  BY <1>7 DEF IInv, RotationTypeOK, Begin
<1>8. SessionInv'
  <2> SUFFICES ASSUME NEW r \in Session, stage'[r] # "idle"
               PROVE  /\ ring'[r] # <<>>
                      /\ r \notin outlived => Primary(ring'[r]) \in Keys(keyfile)
                      /\ stage'[r] = "finish" =>
                            IF job'[r] = "apply"
                            THEN column[r] \in Seq(Value \union {Null})
                            ELSE /\ column[r] \in Seq(Token \union {Null})
                                 /\ GenuineTokens(column[r])
                                 /\ ~late /\ r \notin outlived =>
                                        CurrentIsPrimary(ring'[r], column[r])
    BY <1>1 DEF SessionInv
  <2>1. CASE r = s
    BY <1>5, <1>6, <2>1
  <2>2. CASE r # s
    BY <1>7, <2>2 DEF IInv, SessionInv
  <2> QED BY <2>1, <2>2
<1>9. PreviewInv'
  <2> SUFFICES ASSUME NEW r \in Session, stage'[r] = "finish", job'[r] = "preview"
               PROVE  /\ since[r] = {} => column[r] = file
                      /\ since[r] \subseteq {Primary(ring'[r])} /\ ~late =>
                            column[r] = file \/ RealTokensOf(Primary(ring'[r]), file)
    BY <1>1 DEF PreviewInv, RealTokensOf, Primary
  <2>1. r # s
    BY <1>6
  <2> QED BY <1>7, <2>1 DEF IInv, PreviewInv
<1> QED BY <1>3, <1>4, <1>8, <1>9 DEF IInv

\* What a session reads under a key that is in use: no other key has its id.
LEMMA ReadStep ==
    ASSUME IInv, NEW s \in Session, Read(s)
    PROVE  IInv'
<1>1. UNCHANGED <<keyfile, domain, file, written, migrated, reports, late, begun, job, ring, dom,
                  since, outlived>> /\ stage[s] = "read"
  BY DEF Read
<1>2. PICK col \in IF job[s] = "apply" THEN RawColumns ELSE {file} :
        column' = [column EXCEPT ![s] = col]
  BY DEF Read
<1>3. /\ job[s] = "apply" => col \in Seq(Value \union {Null})
      /\ job[s] # "apply" => col = file /\ col \in Seq(Token \union {Null})
  BY <1>2, RawAssumption DEF IInv, RotationTypeOK
<1>4. col \in Seq(Cells)
  <2>1. Value \union {Null} \subseteq Cells /\ Token \union {Null} \subseteq Cells
    BY DEF Cells
  <2>2. ASSUME NEW S \in SUBSET Cells, col \in Seq(S)
        PROVE  col \in Seq(Cells)
    BY <2>2, SeqMonotonic
  <2> QED BY <1>3, <2>1, <2>2
<1>5. RotationTypeOK'
  BY <1>1, <1>2, <1>4 DEF IInv, RotationTypeOK, Read
<1>6. FileInv' /\ ReportInv' /\ MigratedInv'
  BY <1>1 DEF IInv, FileInv, ReportInv, MigratedInv, GenuineTokens, DropLosesNothing,
              RealTokensOf, Holds
<1>7. stage'[s] = "finish" /\ column'[s] = col
  BY <1>2 DEF IInv, RotationTypeOK, Read
<1>8. ASSUME NEW r \in Session, r # s
      PROVE  stage'[r] = stage[r] /\ column'[r] = column[r]
  BY <1>2, <1>8 DEF IInv, RotationTypeOK, Read
<1>9. ~late /\ s \notin outlived => CurrentIsPrimary(ring[s], file)
  <2> SUFFICES ASSUME ~late, s \notin outlived, NEW i \in 1..Len(file), file[i] # Null,
                      file[i].format = 2, file[i].head = PrimaryId(ring[s])
               PROVE  file[i].key = Primary(ring[s])
    BY DEF CurrentIsPrimary
  <2>1. file[i].key \in Keys(keyfile) /\ IdOf[file[i].key] = PrimaryId(ring[s])
    BY DEF IInv, FileInv, DropLosesNothing, GenuineTokens, Genuine
  <2>2. Primary(ring[s]) \in Keys(keyfile) /\ IdOf[Primary(ring[s])] = PrimaryId(ring[s])
    BY <1>1 DEF IInv, SessionInv, PrimaryId
  <2>3. \A k, m \in Keys(keyfile) : IdOf[k] = IdOf[m] => k = m
    <3>1. DOMAIN keyfile = 1..Len(keyfile)
      BY LenProperties DEF IInv, RotationTypeOK
    <3> QED BY <3>1 DEF IInv, RotationTypeOK, KeyringLoads, Keys, ToSet
  <2> QED BY <2>1, <2>2, <2>3
<1>10. SessionInv'
  <2> SUFFICES ASSUME NEW r \in Session, stage'[r] # "idle"
               PROVE  /\ ring[r] # <<>>
                      /\ r \notin outlived => Primary(ring[r]) \in Keys(keyfile)
                      /\ stage'[r] = "finish" =>
                            IF job[r] = "apply"
                            THEN column'[r] \in Seq(Value \union {Null})
                            ELSE /\ column'[r] \in Seq(Token \union {Null})
                                 /\ GenuineTokens(column'[r])
                                 /\ ~late /\ r \notin outlived =>
                                        CurrentIsPrimary(ring[r], column'[r])
    BY <1>1 DEF SessionInv, CurrentIsPrimary, GenuineTokens, Genuine, PrimaryId, Primary
  <2>1. CASE r = s
    BY <1>1, <1>3, <1>7, <1>9, <2>1 DEF IInv, SessionInv, FileInv
  <2>2. CASE r # s
    BY <1>8, <2>2 DEF IInv, SessionInv
  <2> QED BY <2>1, <2>2
<1>11. PreviewInv'
  <2> SUFFICES ASSUME NEW r \in Session, stage'[r] = "finish", job[r] = "preview"
               PROVE  /\ since[r] = {} => column'[r] = file
                      /\ since[r] \subseteq {Primary(ring[r])} /\ ~late =>
                            column'[r] = file \/ RealTokensOf(Primary(ring[r]), file)
    BY <1>1 DEF PreviewInv, RealTokensOf, Primary
  <2>1. CASE r = s
    BY <1>3, <1>7, <2>1
  <2>2. CASE r # s
    BY <1>8, <2>2 DEF IInv, PreviewInv
  <2> QED BY <2>1, <2>2
<1> QED BY <1>5, <1>6, <1>10, <1>11 DEF IInv

\* A new primary key: the old ones stay.
LEMMA AddKeyStep ==
    ASSUME IInv, NEW k \in Key, AddKey(k)
    PROVE  IInv'
<1>1. UNCHANGED <<domain, file, written, migrated, reports, late, begun, session>>
      /\ keyfile' = <<k>> \o keyfile
  BY DEF AddKey
<1>2. /\ keyfile' \in Seq(Key) /\ KeyringLoads(keyfile')
      /\ Keys(keyfile) \subseteq Keys(keyfile')
  BY <1>1, AddedKeys DEF IInv, RotationTypeOK, AddKey
<1>3. RotationTypeOK'
  BY <1>1, <1>2 DEF IInv, RotationTypeOK, session
<1>4. FileInv' /\ ReportInv' /\ MigratedInv'
  BY <1>1, <1>2 DEF IInv, FileInv, ReportInv, MigratedInv, GenuineTokens, DropLosesNothing,
                   RealTokensOf, Holds
<1>5. SessionInv'
  BY <1>1, <1>2 DEF IInv, SessionInv, session
<1>6. PreviewInv'
  BY <1>1 DEF IInv, PreviewInv, RealTokensOf, session
<1> QED BY <1>3, <1>4, <1>5, <1>6 DEF IInv

\* The old keys go.  Unless another key was written since, the clean preview says
\* that no token of the file needs them; and whoever used one of them as primary
\* key has outlived it.
LEMMA DropKeysStep ==
    ASSUME IInv, NEW r \in reports, DropKeys(r)
    PROVE  IInv'
<1>1. /\ UNCHANGED <<domain, file, written, migrated, reports, begun,
                     stage, job, ring, dom, column, checked, since>>
      /\ keyfile' = <<Primary(keyfile)>>
      /\ late' = (late \/ ~Holds(r))
      /\ outlived' = outlived \union
            {s \in Session : stage[s] # "idle" /\ Primary(ring[s]) # Primary(keyfile)}
  BY DEF DropKeys
<1>2. Primary(keyfile) \in Key /\ keyfile' \in Seq(Key) /\ Len(keyfile') = 1
  BY <1>1, RingKeys DEF IInv, RotationTypeOK, KeyringLoads
<1>3. keyfile' # <<>> /\ keyfile'[1] = Primary(keyfile) /\ DOMAIN keyfile' = 1..1
  BY <1>1, <1>2, LenProperties, EmptySeq
<1>4. KeyringLoads(keyfile') /\ Keys(keyfile') = {Primary(keyfile)}
  BY <1>2, <1>3 DEF KeyringLoads, Keys, ToSet
<1>5. RotationTypeOK'
  BY <1>1, <1>2, <1>4 DEF IInv, RotationTypeOK
<1>6. DropLosesNothing'
  <2> SUFFICES ASSUME ~late, Holds(r), NEW i \in 1..Len(file), file[i] # Null, file[i].format # 0
               PROVE  file[i].key = Primary(keyfile)
    BY <1>1, <1>4 DEF DropLosesNothing
  <2>1. r.reissue = 0 /\ IdOf[r.key] = PrimaryId(keyfile)
    BY DEF DropKeys
  <2>2. file[i].key = r.key
    BY <2>1 DEF IInv, ReportInv, RealTokensOf
  <2>3. r.key \in Keys(keyfile)
    BY <2>2 DEF IInv, FileInv, DropLosesNothing
  <2> QED BY <2>1, <2>2, <2>3, RingKeys DEF IInv, RotationTypeOK, KeyringLoads
<1>7. FileInv' /\ MigratedInv'
  BY <1>1, <1>6 DEF IInv, FileInv, MigratedInv, GenuineTokens
<1>8. ReportInv'
  BY <1>1 DEF IInv, ReportInv, RealTokensOf, Holds
<1>9. PreviewInv'
  BY <1>1 DEF IInv, PreviewInv, RealTokensOf, Primary
<1>10. SessionInv'
  BY <1>1, <1>4 DEF IInv, SessionInv, GenuineTokens, CurrentIsPrimary, Genuine, Primary, PrimaryId
<1> QED BY <1>5, <1>7, <1>8, <1>9, <1>10 DEF IInv

\* The catalog's domain for the column is of no concern to the file.
LEMMA RedecideStep ==
    ASSUME IInv, NEW d \in Domain, Redecide(d)
    PROVE  IInv'
<1>1. UNCHANGED <<keyfile, file, written, migrated, reports, late, begun, session>> /\ domain' = d
  BY DEF Redecide
<1>2. RotationTypeOK'
  BY <1>1 DEF IInv, RotationTypeOK, session
<1>3. FileInv' /\ ReportInv' /\ MigratedInv'
  BY <1>1 DEF IInv, FileInv, ReportInv, MigratedInv, GenuineTokens, DropLosesNothing,
              RealTokensOf, Holds
<1>4. SessionInv' /\ PreviewInv'
  BY <1>1 DEF IInv, SessionInv, PreviewInv, RealTokensOf, session
<1> QED BY <1>2, <1>3, <1>4 DEF IInv

\* A session ends without a write.
LEMMA QuietEndStep ==
    ASSUME IInv, NEW s \in Session, ApplyRefused(s) \/ MigrateFails(s) \/ Fail(s)
    PROVE  IInv'
<1>1. UNCHANGED <<keyfile, domain, file, written, migrated, reports, late, begun>> /\ Leave(s)
  BY DEF ApplyRefused, MigrateFails, Fail
<1>2. FileTypes'
  BY <1>1, TypesTogether DEF IInv, FileTypes
<1>3. FileInv' /\ ReportInv' /\ MigratedInv'
  BY <1>1 DEF IInv, FileInv, ReportInv, MigratedInv, GenuineTokens, DropLosesNothing,
              RealTokensOf, Holds
<1>4. SessionTypes' /\ SessionInv' /\ PreviewInv'
  BY <1>1, LeaveStep
<1> QED BY <1>2, <1>3, <1>4, NewTypes DEF IInv

\* A session replaces the file by tokens of its primary key, and perhaps by
\* texts that look like such tokens.
LEMMA ReplaceStep ==
    ASSUME IInv, NEW s \in Session, NEW col \in Seq(Token \union {Null}),
           Replace(s, col), End(s), UNCHANGED <<keyfile, domain, begun>>,
           stage[s] # "idle",
           GenuineTokens(col),
           ~late /\ s \notin outlived => RealTokensOf(Primary(ring[s]), col),
           written' \in Limits \union {NoLimits},
           migrated' \in [key : Key, domain : Domain] \union {NotMigrated},
           migrated' # NotMigrated => \A i \in 1..Len(col) :
                col[i] # Null => col[i].head = IdOf[migrated'.key]
    PROVE  IInv'
<1> DEFINE k == Primary(ring[s])
           more(r) == [r EXCEPT !.since = @ \union {k}]
<1>1. /\ file' = col
      /\ late' = (late \/ s \in outlived)
      /\ since' = [r \in Session |-> IF r # s /\ stage[r] = "finish" /\ job[r] = "preview"
                                    THEN since[r] \union {k} ELSE {}]
      /\ reports' = {more(r) : r \in reports}
  BY DEF Replace
<1>2. k \in Key
  BY RingKeys DEF IInv, RotationTypeOK, SessionInv
<1>3. ~late' => RealTokensOf(k, col)
  BY <1>1
<1>4. \A r \in reports : /\ more(r) \in Printed
                         /\ more(r).key = r.key /\ more(r).since = r.since \union {k}
  BY <1>2 DEF IInv, RotationTypeOK, Printed
<1> HIDE DEF k, more
<1>5. FileTypes'
  BY <1>1, <1>4, TypesTogether DEF IInv, FileTypes
<1>6. FileInv'
  <2>1. ~late' => k \in Keys(keyfile)
    BY <1>1 DEF IInv, SessionInv, k
  <2>2. DropLosesNothing'
    BY <1>1, <1>3, <2>1 DEF DropLosesNothing, RealTokensOf
  <2> QED BY <1>1, <2>2 DEF FileInv, GenuineTokens
<1>7. ReportInv'
  <2> SUFFICES ASSUME NEW r \in reports
               PROVE  /\ more(r).since # {}
                      /\ Holds(more(r)) /\ ~late' => RealTokensOf(more(r).key, col)
    BY <1>1 DEF ReportInv, RealTokensOf, Holds
  <2>1. more(r).since # {}
    BY <1>4
  <2>2. Holds(more(r)) => more(r).key = k
    BY <1>4 DEF Holds
  <2> QED BY <1>3, <2>1, <2>2
<1>8. since' \in [Session -> SUBSET Key]
  BY <1>1, <1>2 DEF IInv, RotationTypeOK
<1>9. /\ SessionTypes' /\ SessionInv' /\ stage'[s] = "idle"
      /\ \A r \in Session : r # s =>
            /\ stage'[r] = stage[r] /\ job'[r] = job[r] /\ ring'[r] = ring[r]
            /\ column'[r] = column[r]
  BY <1>1, <1>8, EndStep
<1>10. PreviewInv'
  <2> SUFFICES ASSUME NEW r \in Session, stage'[r] = "finish", job'[r] = "preview"
               PROVE  /\ since'[r] # {}
                      /\ since'[r] \subseteq {Primary(ring'[r])} /\ ~late' =>
                            RealTokensOf(Primary(ring'[r]), col)
    BY <1>1 DEF PreviewInv, RealTokensOf, Primary
  <2>1. r # s /\ stage[r] = "finish" /\ job[r] = "preview"
    BY <1>9
  <2>2. since'[r] = since[r] \union {k}
    BY <1>1, <2>1
  <2>3. since'[r] \subseteq {Primary(ring'[r])} => Primary(ring'[r]) = k
    BY <2>2
  <2> QED BY <1>3, <2>2, <2>3
<1>11. MigratedInv'
  BY <1>1 DEF MigratedInv
<1> QED BY <1>5, <1>6, <1>7, <1>9, <1>10, <1>11, NewTypes DEF IInv

\* What a function of the rows makes of a column is a column.
LEMMA NewColumn ==
    ASSUME NEW S, NEW n \in Nat, NEW new, DOMAIN new = 1..n, new = [i \in 1..n |-> new[i]],
           \A i \in 1..n : new[i] \in S
    PROVE  new \in Seq(S) /\ Len(new) = n
<1>1. new \in [1..n -> S]
  OBVIOUS
<1>2. new \in Seq(S)
  BY <1>1, SeqDef
<1>3. Len(new) \in Nat /\ DOMAIN new = 1..Len(new)
  BY <1>2, LenProperties
<1> QED BY <1>2, <1>3

\* apply and tokenize_column write tokens of the primary key only, of the column
\* that was checked or of another.
LEMMA ApplyStep ==
    ASSUME IInv, NEW s \in Session, Apply(s) \/ ApplyInMemory(s)
    PROVE  IInv'
<1>1. /\ stage[s] = "finish" /\ job[s] = "apply" /\ End(s)
      /\ UNCHANGED <<keyfile, domain, begun>>
      /\ written' \in Limits \union {NoLimits} /\ migrated' = NotMigrated
  BY DEF Apply, ApplyInMemory
<1>2. /\ ring[s] \in Seq(Key) /\ ring[s] # <<>> /\ dom[s] \in Domain
      /\ column[s] \in Seq(Value \union {Null})
  BY <1>1 DEF IInv, RotationTypeOK, SessionInv
<1>3. PICK input \in Seq(Value \union {Null}) : Replace(s, TokenizeMany(ring[s], input, dom[s]))
  BY <1>2, RawAssumption DEF Apply, ApplyInMemory
<1> DEFINE n == Len(input)
           new == [i \in 1..n |-> Tokenize(ring[s], input[i], dom[s])]
<1>4. n \in Nat /\ \A i \in 1..n : input[i] \in Value \union {Null}
  BY LenProperties, ElementOfSeq
<1>5. \A i \in 1..n : New(ring[s], dom[s], new[i])
  <2> SUFFICES ASSUME NEW i \in 1..n
               PROVE  New(ring[s], dom[s], new[i])
    OBVIOUS
  <2>1. new[i] = Tokenize(ring[s], input[i], dom[s]) /\ input[i] \in Value \union {Null}
    BY <1>4
  <2> HIDE DEF new
  <2> QED BY <1>2, <2>1, TokenizeResult
<1>6. DOMAIN new = 1..n /\ new = [i \in 1..n |-> new[i]]
  OBVIOUS
<1>7. Replace(s, new)
  BY <1>3 DEF TokenizeMany
<1> HIDE DEF new
<1>8. new \in Seq(Token \union {Null}) /\ Len(new) = n
  BY <1>4, <1>5, <1>6, NewColumn DEF New
<1>9. GenuineTokens(new) /\ RealTokensOf(Primary(ring[s]), new)
  BY <1>5, <1>8 DEF New, GenuineTokens, RealTokensOf
<1> QED BY <1>1, <1>7, <1>8, <1>9, ReplaceStep

\* retokenize writes tokens of its primary key, and leaves texts with that
\* key's header: those that are real tokens were made with it.
LEMMA MigrateStep ==
    ASSUME IInv, NEW s \in Session, Migrate(s)
    PROVE  IInv'
<1>1. /\ stage[s] = "finish" /\ job[s] = "retokenize" /\ End(s)
      /\ UNCHANGED <<keyfile, domain, begun>>
      /\ written' \in Limits \union {NoLimits}
      /\ migrated' = [key |-> Primary(ring[s]), domain |-> dom[s]]
  BY DEF Migrate, IInv, RotationTypeOK
<1>2. /\ ring[s] \in Seq(Key) /\ ring[s] # <<>> /\ dom[s] \in Domain
      /\ column[s] \in Seq(Token \union {Null}) /\ GenuineTokens(column[s])
      /\ ~late /\ s \notin outlived => CurrentIsPrimary(ring[s], column[s])
  BY <1>1 DEF IInv, RotationTypeOK, SessionInv
<1> DEFINE n == Len(column[s])
           new == [i \in 1..n |-> Retokenize(ring[s], column[s][i], dom[s])]
<1>3. n \in Nat /\ \A i \in 1..n : /\ column[s][i] \in Token \union {Null}
                                   /\ column[s][i] # Null => Genuine(column[s][i])
  BY <1>2, LenProperties, ElementOfSeq DEF GenuineTokens
<1>4. DOMAIN new = 1..n /\ new = [i \in 1..n |-> new[i]]
      /\ \A i \in 1..n : new[i] = Retokenize(ring[s], column[s][i], dom[s])
  OBVIOUS
<1>5. Replace(s, new) /\ \A i \in 1..Len(new) : new[i] # InvalidToken
  BY DEF Migrate
<1> HIDE DEF new
<1>6. Len(new) = n
  <2>1. new \in [1..n -> {new[i] : i \in 1..n}]
    BY <1>4
  <2> QED BY <1>3, <1>4, NewColumn
<1>7. \A i \in 1..n : LeftOrNew(ring[s], column[s][i], dom[s], new[i])
  <2> SUFFICES ASSUME NEW i \in 1..n
               PROVE  LeftOrNew(ring[s], column[s][i], dom[s], new[i])
    OBVIOUS
  <2>1. /\ new[i] = Retokenize(ring[s], column[s][i], dom[s]) /\ new[i] # InvalidToken
        /\ column[s][i] \in Token \union {Null}
        /\ column[s][i] # Null => Genuine(column[s][i])
    BY <1>3, <1>4, <1>5, <1>6
  <2> QED BY <1>2, <2>1, RetokenizeResult
<1>8. new \in Seq(Token \union {Null})
  BY <1>3, <1>4, <1>7, NewColumn DEF LeftOrNew
<1>9. ~late /\ s \notin outlived => RealTokensOf(Primary(ring[s]), new)
  <2> SUFFICES ASSUME CurrentIsPrimary(ring[s], column[s]), NEW i \in 1..n,
                      new[i] # Null, new[i].format # 0, new[i] = column[s][i]
               PROVE  new[i].format = 2 /\ new[i].key = Primary(ring[s])
    BY <1>2, <1>6, <1>7 DEF LeftOrNew, RealTokensOf
  <2>1. new[i] \in Token /\ new[i].format \in 0..2
    BY <1>7 DEF Token, LeftOrNew
  <2>2. new[i].head \in KeyId /\ new[i].head = PrimaryId(ring[s]) /\ Genuine(new[i])
    BY <1>2, <1>7, RingKeys DEF LeftOrNew
  <2>3. new[i].format # 1
    BY <2>2, KeyAssumption DEF Genuine
  <2> QED BY <2>1, <2>2, <2>3 DEF CurrentIsPrimary
<1>10. /\ migrated' \in [key : Key, domain : Domain]
       /\ IdOf[migrated'.key] = PrimaryId(ring[s])
  BY <1>1, <1>2, RingKeys DEF PrimaryId
<1>11. GenuineTokens(new) /\ \A i \in 1..Len(new) : new[i] # Null => new[i].head = PrimaryId(ring[s])
  BY <1>6, <1>7 DEF GenuineTokens, LeftOrNew
<1> QED BY <1>1, <1>5, <1>8, <1>9, <1>10, <1>11, ReplaceStep

\* If a preview counts nothing, all that it read is current and opens, and so is
\* of its primary key and domain.
LEMMA CleanPreview ==
    ASSUME IInv, NEW s \in Session, PreviewFile(s)
    PROVE  LET count == Preview(ring[s], column[s]).reissue IN
           /\ count \in Nat
           /\ count = 0 => \A i \in 1..Len(column[s]) : column[s][i] # Null =>
                /\ column[s][i].format = 2 /\ column[s][i].key = Primary(ring[s])
                /\ column[s][i].domain = dom[s]
<1>1. stage[s] = "finish" /\ job[s] = "preview" /\ PreviewSucceeds(ring[s], column[s], dom[s])
  BY DEF PreviewFile
<1>2. /\ ring[s] \in Seq(Key) /\ ring[s] # <<>>
      /\ column[s] \in Seq(Token \union {Null}) /\ GenuineTokens(column[s])
  BY <1>1 DEF IInv, RotationTypeOK, SessionInv
<1> DEFINE tokens == {i \in 1..Len(column[s]) : column[s][i] # Null}
           old == tokens \ {i \in tokens : IsCurrent(ring[s], column[s][i])}
<1>3. Preview(ring[s], column[s]).reissue = Cardinality(old)
  BY DEF Preview
<1>4. IsFiniteSet(old) /\ Cardinality(old) \in Nat
  <2>1. Len(column[s]) \in Nat
    BY <1>2, LenProperties
  <2>2. IsFiniteSet(1..Len(column[s]))
    BY <2>1, FS_Interval
  <2>3. IsFiniteSet(old)
    BY <2>2, FS_Subset
  <2> QED BY <2>3, FS_CardinalityType
<1>5. Cardinality(old) = 0 => \A i \in 1..Len(column[s]) : column[s][i] # Null =>
            IsCurrent(ring[s], column[s][i])
  <2>1. Cardinality(old) = 0 => old = {}
    BY <1>4, FS_EmptySet
  <2> QED BY <2>1
<1> HIDE DEF old
<1>6. ASSUME NEW i \in 1..Len(column[s]), column[s][i] # Null, IsCurrent(ring[s], column[s][i])
      PROVE  /\ column[s][i].format = 2 /\ column[s][i].key = Primary(ring[s])
             /\ column[s][i].domain = dom[s]
  <2>1. column[s][i] \in Token /\ Genuine(column[s][i])
    <3>1. column[s][i] \in Token \union {Null}
      BY <1>2, ElementOfSeq
    <3> QED BY <1>2, <1>6, <3>1 DEF GenuineTokens
  <2>2. Opens(ring[s], column[s][i], dom[s])
    BY <1>1, <1>6 DEF PreviewSucceeds, Detokenize
  <2> QED BY <1>2, <1>6, <2>1, <2>2, CurrentOpens
<1> QED BY <1>3, <1>4, <1>5, <1>6

\* What a clean report says of what was read holds of the file as far as nothing
\* else was written.
LEMMA PreviewStep ==
    ASSUME IInv, NEW s \in Session, PreviewFile(s)
    PROVE  IInv'
<1> DEFINE now == [key |-> Primary(ring[s]), domain |-> dom[s],
                   reissue |-> Preview(ring[s], column[s]).reissue, since |-> since[s]]
<1>1. /\ stage[s] = "finish" /\ job[s] = "preview" /\ Leave(s)
      /\ UNCHANGED <<keyfile, domain, file, written, migrated, late, begun>>
      /\ reports' = reports \union {now}
  BY DEF PreviewFile
<1>2. Primary(ring[s]) \in Key /\ dom[s] \in Domain /\ since[s] \in SUBSET Key
  BY <1>1, RingKeys DEF IInv, RotationTypeOK, SessionInv
<1>3. /\ now.key = Primary(ring[s]) /\ now.domain = dom[s] /\ now.since = since[s]
      /\ now.reissue = Preview(ring[s], column[s]).reissue
  OBVIOUS
<1>4. now \in Printed
  BY <1>2, CleanPreview DEF Printed
<1> HIDE DEF now
<1>5. FileTypes'
  BY <1>1, <1>4, TypesTogether DEF IInv, FileTypes
<1>6. FileInv' /\ MigratedInv'
  BY <1>1 DEF IInv, FileInv, MigratedInv, GenuineTokens, DropLosesNothing
<1>7. SessionTypes' /\ SessionInv' /\ PreviewInv'
  BY <1>1, LeaveStep
<1>8. now.reissue = 0 =>
        /\ now.since = {} => \A i \in 1..Len(file) : file[i] # Null =>
                file[i].format = 2 /\ file[i].key = now.key /\ file[i].domain = now.domain
        /\ Holds(now) /\ ~late => RealTokensOf(now.key, file)
  <2>1. /\ since[s] = {} => column[s] = file
        /\ since[s] \subseteq {Primary(ring[s])} /\ ~late =>
                column[s] = file \/ RealTokensOf(Primary(ring[s]), file)
    BY <1>1 DEF IInv, PreviewInv
  <2>2. now.reissue = 0 => \A i \in 1..Len(column[s]) : column[s][i] # Null =>
            /\ column[s][i].format = 2 /\ column[s][i].key = now.key
            /\ column[s][i].domain = now.domain
    BY <1>3, CleanPreview
  <2> QED BY <1>3, <2>1, <2>2 DEF Holds, RealTokensOf
<1>9. ReportInv'
  BY <1>1, <1>8 DEF IInv, ReportInv, RealTokensOf, Holds
<1> QED BY <1>5, <1>6, <1>7, <1>9, NewTypes DEF IInv

\* One key, no session, and a file of its tokens.
LEMMA InitInvariant == Init => IInv
<1> SUFFICES ASSUME Init PROVE IInv
  OBVIOUS
<1>1. keyfile = <<FirstKey>> /\ FirstKey \in Key /\ keyfile \in Seq(Key)
      /\ Len(keyfile) = 1 /\ keyfile[1] = FirstKey /\ DOMAIN keyfile = 1..1
  BY FirstAssumption, LenProperties DEF Init
<1>2. KeyringLoads(keyfile) /\ Keys(keyfile) = {FirstKey}
  <2>1. keyfile # <<>>
    BY <1>1, EmptySeq
  <2> QED BY <1>1, <2>1 DEF KeyringLoads, Keys, ToSet
<1>3. RotationTypeOK
  <2>1. <<>> \in Seq(Key) /\ <<>> \in Seq(Cells)
    BY EmptySeq
  <2>2. SessionTypes
    BY <2>1, FirstAssumption DEF Init, SessionTypes
  <2>3. file \in Seq(Token \union {Null}) /\ begun \in 0..MaxSessions
    BY FirstAssumption, BoundsAssumption DEF Init
  <2>4. FileTypes
    BY <1>1, <1>2, <2>3, FirstAssumption DEF Init, FileTypes
  <2> QED BY <2>2, <2>4, TypesTogether
<1>4. FileInv
  BY <1>2, FirstAssumption DEF Init, FileInv, GenuineTokens, DropLosesNothing
<1>5. SessionInv /\ ReportInv /\ PreviewInv /\ MigratedInv
  BY DEF Init, SessionInv, ReportInv, PreviewInv, MigratedInv
<1> QED BY <1>3, <1>4, <1>5 DEF IInv

\* Every step of the operator and of every session.
LEMMA StepInvariant ==
    ASSUME IInv, [Next]_vars
    PROVE  IInv'
<1>1. CASE UNCHANGED vars
  <2>1. RotationTypeOK'
    BY <1>1 DEF IInv, RotationTypeOK, vars, session
  <2>2. FileInv' /\ ReportInv' /\ MigratedInv'
    BY <1>1 DEF IInv, FileInv, ReportInv, MigratedInv, GenuineTokens, DropLosesNothing,
                RealTokensOf, Holds, vars
  <2>3. SessionInv' /\ PreviewInv'
    BY <1>1 DEF IInv, SessionInv, PreviewInv, RealTokensOf, vars, session
  <2> QED BY <2>1, <2>2, <2>3 DEF IInv
<1> QED BY <1>1, AddKeyStep, DropKeysStep, RedecideStep, BeginStep, ReadStep, ApplyStep,
        QuietEndStep, MigrateStep, PreviewStep DEF Next

-----------------------------------------------------------------------------
(* The theorems. *)

\* No key is needed that was dropped, and no session leaves a token alone that
\* is not of its primary key.
THEOREM Invariance == Spec => []IInv
<1>1. IInv /\ [Next]_vars => IInv'
  BY StepInvariant
<1> QED BY <1>1, InitInvariant, PTL DEF Spec

\* The model's state always has its type; in particular retokenize never
\* writes an error in place of a token.
THEOREM TypeCorrect == Spec => []RotationTypeOK
<1>1. IInv => RotationTypeOK
  BY DEF IInv
<1> QED BY <1>1, Invariance, PTL

\* threat-model.md:76: whatever order rotations, migrations, previews and writes
\* come in, and however old the clean preview that the keys were dropped on, the
\* key file has the key of every real token of the file, unless a session with
\* another primary key wrote the file after that preview had read it.
THEOREM DroppingKeysIsSafe == Spec => []DropLosesNothing
<1>1. IInv => DropLosesNothing
  BY DEF IInv, FileInv
<1> QED BY <1>1, Invariance, PTL

\* README.md:536: the primary key alone reads what a clean preview has read, and
\* every real token of the file as long as no session with another key writes.
THEOREM CleanPreviewIsEnough == Spec => []CleanPreviewNeedsOnlyPrimary
<1>1. IInv => CleanPreviewNeedsOnlyPrimary
  <2> SUFFICES ASSUME IInv, NEW r \in reports, r.reissue = 0, NEW i \in 1..Len(file)
               PROVE  /\ r.since = {} =>
                            Detokenize(<<r.key>>, file[i], r.domain) # InvalidToken
                      /\ Holds(r) /\ ~late /\ file[i] # Null /\ file[i].format # 0 =>
                            Opens(<<r.key>>, file[i], file[i].domain)
    BY DEF CleanPreviewNeedsOnlyPrimary
  <2>1. r.key \in Key
    BY DEF IInv, RotationTypeOK, Printed
  <2>2. file[i] # Null => file[i] \in Token /\ Genuine(file[i])
    <3>1. file[i] \in Token \union {Null}
      BY ElementOfSeq DEF IInv, RotationTypeOK
    <3> QED BY <3>1 DEF IInv, FileInv, GenuineTokens
  <2>3. ASSUME file[i] # Null, file[i].format = 2, file[i].key = r.key
        PROVE  Opens(<<r.key>>, file[i], file[i].domain)
    <3>1. file[i].head = IdOf[r.key]
      BY <2>2, <2>3 DEF Genuine
    <3> QED BY <2>1, <2>2, <2>3, <3>1, OpensAlone
  <2>4. ASSUME r.since = {}
        PROVE  Detokenize(<<r.key>>, file[i], r.domain) # InvalidToken
    <3>1. CASE file[i] = Null
      BY <3>1, KeyAssumption DEF Detokenize
    <3>2. CASE file[i] # Null
      <4>1. file[i].format = 2 /\ file[i].key = r.key /\ file[i].domain = r.domain
        BY <2>4, <3>2 DEF IInv, ReportInv
      <4>2. Opens(<<r.key>>, file[i], r.domain)
        BY <2>3, <3>2, <4>1
      <4>3. file[i].value \in Value \union {Null}
        BY <2>2, <3>2 DEF Token
      <4> QED BY <3>2, <4>2, <4>3, KeyAssumption DEF Detokenize
    <3> QED BY <3>1, <3>2
  <2>5. ASSUME Holds(r), ~late, file[i] # Null, file[i].format # 0
        PROVE  Opens(<<r.key>>, file[i], file[i].domain)
    BY <2>3, <2>5 DEF IInv, ReportInv, RealTokensOf
  <2> QED BY <2>4, <2>5
<1> QED BY <1>1, Invariance, PTL

\* README.md:90-92: after a retokenize, the readable tokens of equal values are
\* equal and those of different values differ.
THEOREM MigratedFilesJoin == Spec => []MigratedTokensJoin
<1>1. IInv => MigratedTokensJoin
  <2> SUFFICES ASSUME IInv, migrated # NotMigrated
               PROVE  MigratedTokensJoin
    BY DEF MigratedTokensJoin
  <2> DEFINE k == migrated.key
             readable == {i \in 1..Len(file) :
                            file[i] # Null /\ Opens(<<k>>, file[i], migrated.domain)}
  <2>1. k \in Key /\ \A i \in 1..Len(file) : file[i] # Null => file[i].head = IdOf[k]
    BY DEF IInv, RotationTypeOK, MigratedInv
  <2>2. <<k>> \in Seq(Key) /\ <<k>> # <<>> /\ Primary(<<k>>) = k /\ PrimaryId(<<k>>) = IdOf[k]
    BY <2>1 DEF Primary, PrimaryId
  <2>3. ASSUME NEW i \in readable
        PROVE  /\ file[i] \in Token /\ file[i].head = IdOf[k]
               /\ file[i].format = 2 /\ file[i].key = k /\ file[i].domain = migrated.domain
    <3>1. i \in 1..Len(file) /\ file[i] # Null /\ Opens(<<k>>, file[i], migrated.domain)
      BY <2>3
    <3>2. file[i] \in Token /\ Genuine(file[i])
      <4>1. file[i] \in Token \union {Null}
        BY <3>1, ElementOfSeq DEF IInv, RotationTypeOK
      <4> QED BY <3>1, <4>1 DEF IInv, FileInv, GenuineTokens
    <3>3. file[i].head = IdOf[k] /\ IdOf[k] \in KeyId
      BY <2>1, <3>1, KeyAssumption
    <3>4. IsCurrent(<<k>>, file[i])
      BY <2>2, <3>3, KeyAssumption DEF IsCurrent, LooksV2
    <3> QED BY <2>2, <3>1, <3>2, <3>3, <3>4, CurrentOpens
  <2>4. ASSUME NEW i \in readable, NEW j \in readable
        PROVE  file[i].value = file[j].value <=> file[i] = file[j]
    <3>1. \A t \in Token : t = [head |-> t.head, format |-> t.format, key |-> t.key,
                                domain |-> t.domain, value |-> t.value]
      BY DEF Token
    <3>2. file[i] = [head |-> IdOf[k], format |-> 2, key |-> k, domain |-> migrated.domain,
                     value |-> file[i].value]
      BY <2>3, <3>1
    <3>3. file[j] = [head |-> IdOf[k], format |-> 2, key |-> k, domain |-> migrated.domain,
                     value |-> file[j].value]
      BY <2>3, <3>1
    <3> QED BY <3>2, <3>3
  <2> QED BY <2>1, <2>4 DEF MigratedTokensJoin
<1> QED BY <1>1, Invariance, PTL

\* However a column is checked, apply, tokenize_column, report and risk-check
\* agree on every column that a session reads.
THEOREM ChecksAlwaysAgree == Spec => []ChecksAgree
<1>1. IInv => ChecksAgree
  <2> SUFFICES ASSUME IInv, NEW s \in Session, stage[s] = "finish", job[s] = "apply",
                      NEW limit \in Limits
               PROVE  SameVerdict(column[s], limit.min_distinct)
                      /\ BoundedIsExact(column[s], limit.min_distinct)
    BY DEF ChecksAgree
  <2>1. column[s] \in Seq(Value \union {Null})
    BY DEF IInv, SessionInv
  <2> QED BY <2>1, LimitsAssumption, EveryCheckAgrees, BoundedCountIsExact
<1> QED BY <1>1, Invariance, PTL

-----------------------------------------------------------------------------
(* The thresholds hold of the tokens. *)

\* What apply wrote, and retokenize after it: the tokens, under one key and in one
\* domain, of a column that meets the thresholds.
Encodes(col, k, d, plain) ==
    /\ Len(col) = Len(plain)
    /\ \A i \in 1..Len(plain) : col[i] = Tokenize(<<k>>, plain[i], d)

Sound(col, limit) == limit # NoLimits =>
    \E k \in Key, d \in Domain, plain \in Seq(Value \union {Null}) :
        /\ Encodes(col, k, d, plain)
        /\ RiskViolations(ColumnRisk(plain), limit) = {}

\* The file, and what the sessions have read of it, which may be an older one.
LimitsInv ==
    /\ Sound(file, written)
    /\ \A s \in Session : Sound(column[s], checked[s])

\* The invariant of the next state, in terms of its columns.
LEMMA SoundLater ==
    ASSUME Sound(file', written'), \A s \in Session : Sound(column'[s], checked'[s])
    PROVE  LimitsInv'
BY DEF LimitsInv, Sound, Encodes, Tokenize, RiskViolations, ColumnRisk, PrimaryId, Primary

\* Only what a session has read since it began is in its hands.
LEMMA SessionsStaySound ==
    ASSUME IInv, LimitsInv, NEW s \in Session, End(s)
    PROVE  \A r \in Session : Sound(column'[r], checked'[r])
<1> SUFFICES ASSUME NEW r \in Session
             PROVE  Sound(column'[r], checked'[r])
  OBVIOUS
<1>1. CASE r = s
  <2>1. checked'[r] = NoLimits
    BY <1>1 DEF End, IInv, RotationTypeOK
  <2> QED BY <2>1 DEF Sound
<1>2. CASE r # s
  <2>1. column'[r] = column[r] /\ checked'[r] = checked[r]
    BY <1>2 DEF End, IInv, RotationTypeOK
  <2> QED BY <2>1 DEF LimitsInv
<1> QED BY <1>1, <1>2

\* Of a keyring, Tokenize uses the primary key alone.
LEMMA TokenizeWithPrimary ==
    ASSUME NEW keys, NEW v, NEW d
    PROVE  Tokenize(keys, v, d) = Tokenize(<<Primary(keys)>>, v, d)
BY DEF Tokenize, Primary, PrimaryId

\* A token is never null, and one key and domain give equal values equal tokens
\* and different values different ones.
LEMMA TokensHaveTheShape ==
    ASSUME NEW col, NEW k \in Key, NEW d \in Domain, NEW plain \in Seq(Value \union {Null}),
           Encodes(col, k, d, plain)
    PROVE  SameShape(plain, col)
<1>1. \A i \in 1..Len(plain) : plain[i] \in Value \union {Null}
  BY RowsOfAColumn
<1>2. \A v \in Value \union {Null} :
        /\ v = Null => Tokenize(<<k>>, v, d) = Null
        /\ v # Null => Tokenize(<<k>>, v, d) # Null /\ Tokenize(<<k>>, v, d).value = v
  <2> SUFFICES ASSUME NEW v \in Value \union {Null}, v # Null
               PROVE  Tokenize(<<k>>, v, d) # Null /\ Tokenize(<<k>>, v, d).value = v
    BY DEF Tokenize
  <2>1. <<k>> \in Seq(Key) /\ <<k>> # <<>>
    OBVIOUS
  <2>2. Tokenize(<<k>>, v, d).value = v
    BY DEF Tokenize
  <2>3. Tokenize(<<k>>, v, d) \in Token
    <3>1. Primary(<<k>>) = k /\ IdOf[k] \in HeadId
      BY KeyAssumption DEF Primary, HeadId
    <3> QED BY <3>1 DEF Tokenize, Token, PrimaryId
  <2> QED BY <2>2, <2>3, TokenAssumption
<1> QED BY <1>1, <1>2 DEF SameShape, Encodes

\* A column that apply or tokenize_column does not refuse meets the thresholds.
LEMMA NotRefused ==
    ASSUME NEW col \in Seq(Value \union {Null}), NEW limit \in Limits,
           \/ ~Refuses(col, limit)
           \/ /\ limit = OnlyDistinct(limit.min_distinct)
              /\ ~IsLowCardinality(ColumnRisk(col), limit.min_distinct)
    PROVE  RiskViolations(ColumnRisk(col), limit) = {}
<1>1. limit.min_distinct \in Nat \ {0}
  BY LimitsAssumption
<1>2. ProfileColumn(col) = ColumnRisk(col)
  BY <1>1, BoundedCountIsExact DEF BoundedIsExact
<1>3. SameVerdict(col, limit.min_distinct)
  BY <1>1, EveryCheckAgrees
<1>4. ~RiskCheckFails(col, limit)
  <2>1. CASE limit = OnlyDistinct(limit.min_distinct)
    <3>1. ~IsLowCardinality(ColumnRisk(col), limit.min_distinct)
      BY <1>3, <2>1 DEF SameVerdict, Refuses
    <3>2. RiskCheckFails(col, OnlyDistinct(limit.min_distinct)) =
              IsLowCardinality(ColumnRisk(col), limit.min_distinct)
      BY <1>3 DEF SameVerdict
    <3> QED BY <2>1, <3>1, <3>2
  <2>2. CASE limit # OnlyDistinct(limit.min_distinct)
    BY <2>2 DEF Refuses
  <2> QED BY <2>1, <2>2
<1> QED BY <1>2, <1>4 DEF RiskCheckFails

\* If the second reading of apply is the first one, what was checked is written.
LEMMA LimitsApply ==
    ASSUME IInv, NEW s \in Session, Apply(s) \/ ApplyInMemory(s)
    PROVE  Sound(file', written')
<1> SUFFICES ASSUME written' # NoLimits
             PROVE  Sound(file', written')
  BY DEF Sound
<1>1. /\ ring[s] \in Seq(Key) /\ ring[s] # <<>> /\ dom[s] \in Domain
      /\ column[s] \in Seq(Value \union {Null})
  BY DEF Apply, ApplyInMemory, IInv, RotationTypeOK, SessionInv
<1>2. file' = TokenizeMany(ring[s], column[s], dom[s])
  <2>1. CASE Apply(s)
    <3>1. PICK limit \in Limits, input \in RawColumns :
            /\ Replace(s, TokenizeMany(ring[s], input, dom[s]))
            /\ written' = IF input = column[s] THEN limit ELSE NoLimits
      BY <2>1 DEF Apply
    <3>2. input = column[s]
      BY <3>1
    <3> QED BY <3>1, <3>2 DEF Replace
  <2>2. CASE ApplyInMemory(s)
    BY <2>2 DEF ApplyInMemory, Replace
  <2> QED BY <2>1, <2>2
<1>3. written' \in Limits /\ RiskViolations(ColumnRisk(column[s]), written') = {}
  <2>1. CASE Apply(s)
    <3>1. written' \in Limits /\ ~Refuses(column[s], written')
      BY <2>1 DEF Apply
    <3> QED BY <1>1, <3>1, NotRefused
  <2>2. CASE ApplyInMemory(s)
    <3>1. /\ written' \in Limits /\ written' = OnlyDistinct(written'.min_distinct)
          /\ ~IsLowCardinality(ColumnRisk(column[s]), written'.min_distinct)
      BY <2>2 DEF ApplyInMemory
    <3> QED BY <1>1, <3>1, NotRefused
  <2> QED BY <2>1, <2>2
<1>4. Primary(ring[s]) \in Key
  BY <1>1, RingKeys
<1>5. Encodes(file', Primary(ring[s]), dom[s], column[s])
  <2> DEFINE new == TokenizeMany(ring[s], column[s], dom[s])
             n == Len(column[s])
  <2>1. n \in Nat /\ DOMAIN new = 1..n /\ new = [i \in 1..n |-> new[i]]
    BY <1>1, LenProperties DEF TokenizeMany
  <2>2. \A i \in 1..n : new[i] = Tokenize(<<Primary(ring[s])>>, column[s][i], dom[s])
    BY TokenizeWithPrimary DEF TokenizeMany
  <2> HIDE DEF new, n
  <2>3. Len(new) = n
    <3>1. \A i \in 1..n : new[i] \in {new[j] : j \in 1..n}
      OBVIOUS
    <3> QED BY <2>1, <3>1, NewColumn
  <2> QED BY <1>2, <2>2, <2>3 DEF Encodes, new, n
<1> QED BY <1>1, <1>3, <1>4, <1>5 DEF Sound

\* retokenize turns the tokens of a column into tokens of the same column, or
\* leaves them all alone.
LEMMA LimitsMigrate ==
    ASSUME IInv, LimitsInv, NEW s \in Session, Migrate(s)
    PROVE  Sound(file', written')
<1> SUFFICES ASSUME written' = checked[s], checked[s] # NoLimits
             PROVE  Sound(file', written')
  BY DEF Migrate, Sound
<1>1. PICK k \in Key, d \in Domain, plain \in Seq(Value \union {Null}) :
        /\ Encodes(column[s], k, d, plain)
        /\ RiskViolations(ColumnRisk(plain), checked[s]) = {}
  BY DEF LimitsInv, Sound
<1>2. /\ ring[s] \in Seq(Key) /\ ring[s] # <<>> /\ dom[s] \in Domain
      /\ Primary(ring[s]) \in Key
  BY RingKeys DEF Migrate, IInv, RotationTypeOK, SessionInv
<1> DEFINE n == Len(plain)
           new == [i \in 1..n |-> Retokenize(ring[s], column[s][i], dom[s])]
<1>3. n \in Nat /\ \A i \in 1..n : plain[i] \in Value \union {Null}
  BY <1>1, RowsOfAColumn
<1>4. file' = new /\ \A i \in 1..Len(new) : new[i] # InvalidToken
  <2>1. Len(column[s]) = n
    BY <1>1 DEF Encodes
  <2> QED BY <2>1 DEF Migrate, Replace
<1>5. DOMAIN new = 1..n /\ new = [i \in 1..n |-> new[i]]
  OBVIOUS
<1>6. \A i \in 1..n : new[i] = Retokenize(ring[s], Tokenize(<<k>>, plain[i], d), dom[s])
  BY <1>1 DEF Encodes
<1> HIDE DEF new, n
<1>7. Len(new) = n
  <2>1. \A i \in 1..n : new[i] \in {new[j] : j \in 1..n}
    OBVIOUS
  <2> QED BY <1>3, <1>5, <2>1, NewColumn
<1>8. CASE IdOf[k] = PrimaryId(ring[s])
  <2>1. ASSUME NEW i \in 1..n
        PROVE  new[i] = Tokenize(<<k>>, plain[i], d)
    <3>1. CASE plain[i] = Null
      BY <1>6, <3>1 DEF Tokenize, Retokenize
    <3>2. CASE plain[i] # Null
      <4>1. Tokenize(<<k>>, plain[i], d).head = IdOf[k] /\ IdOf[k] # NoHead
        BY <3>2, KeyAssumption DEF Tokenize, PrimaryId, Primary
      <4>2. IsCurrent(ring[s], Tokenize(<<k>>, plain[i], d))
        BY <1>8, <4>1 DEF IsCurrent, LooksV2
      <4> QED BY <1>6, <4>2 DEF Retokenize
    <3> QED BY <3>1, <3>2
  <2>2. Encodes(file', k, d, plain)
    BY <1>4, <1>7, <2>1 DEF Encodes, n
  <2> QED BY <1>1, <2>2 DEF Sound
<1>9. CASE IdOf[k] # PrimaryId(ring[s])
  <2>1. ASSUME NEW i \in 1..n
        PROVE  new[i] = Tokenize(<<Primary(ring[s])>>, plain[i], dom[s])
    <3>1. CASE plain[i] = Null
      BY <1>6, <3>1 DEF Tokenize, Retokenize
    <3>2. CASE plain[i] # Null
      <4> DEFINE t == Tokenize(<<k>>, plain[i], d)
      <4>1. t.head = IdOf[k] /\ t.value = plain[i]
        BY <3>2 DEF Tokenize, PrimaryId, Primary
      <4>2. t # Null
        <5>1. SameShape(plain, column[s])
          BY <1>1, TokensHaveTheShape
        <5> QED BY <1>1, <3>2, <5>1 DEF SameShape, Encodes, n
      <4>3. ~IsCurrent(ring[s], t) /\ new[i] = Retokenize(ring[s], t, dom[s])
            /\ new[i] # InvalidToken
        BY <1>4, <1>6, <1>7, <1>9, <4>1 DEF IsCurrent
      <4> HIDE DEF t
      <4>4. Opens(ring[s], t, dom[s]) /\ new[i] = Tokenize(ring[s], t.value, dom[s])
        BY <4>2, <4>3 DEF Retokenize, Detokenize
      <4> QED BY <4>1, <4>4, TokenizeWithPrimary
    <3> QED BY <3>1, <3>2
  <2>2. Encodes(file', Primary(ring[s]), dom[s], plain)
    BY <1>4, <1>7, <2>1 DEF Encodes, n
  <2> QED BY <1>1, <1>2, <2>2 DEF Sound
<1> QED BY <1>8, <1>9

\* The thresholds that were checked on the values hold of their tokens in the
\* file, however often and by whatever sessions it was retokenized since.
THEOREM TokensMeetTheLimits == Spec => []TokensMeetLimits
<1>1. Init => LimitsInv
  BY DEF Init, LimitsInv, Sound
<1>2. IInv /\ LimitsInv /\ [Next]_vars => LimitsInv'
  <2> SUFFICES ASSUME IInv, LimitsInv, [Next]_vars
               PROVE  LimitsInv'
    OBVIOUS
  <2>1. CASE UNCHANGED <<file, written, column, checked>>
    BY <2>1, SoundLater DEF LimitsInv
  <2>2. ASSUME NEW s \in Session, Read(s)
        PROVE  LimitsInv'
    <3>1. file' = file /\ written' = written
      BY <2>2 DEF Read
    <3>2. ASSUME NEW r \in Session
          PROVE  Sound(column'[r], checked'[r])
      <4>1. CASE r # s
        <5>1. column'[r] = column[r] /\ checked'[r] = checked[r]
          BY <2>2, <4>1 DEF Read, IInv, RotationTypeOK
        <5> QED BY <5>1 DEF LimitsInv
      <4>2. CASE r = s
        <5>1. checked'[r] = IF job[s] = "apply" THEN NoLimits ELSE written
          BY <2>2, <4>2 DEF Read, IInv, RotationTypeOK
        <5>2. job[s] # "apply" => column'[r] = file
          BY <2>2, <4>2 DEF Read, IInv, RotationTypeOK
        <5> QED BY <5>1, <5>2 DEF LimitsInv, Sound
      <4> QED BY <4>1, <4>2
    <3> QED BY <3>1, <3>2, SoundLater DEF LimitsInv
  <2>3. ASSUME NEW s \in Session, Apply(s) \/ ApplyInMemory(s) \/ Migrate(s)
        PROVE  LimitsInv'
    <3>1. Sound(file', written')
      BY <2>3, LimitsApply, LimitsMigrate
    <3>2. \A r \in Session : Sound(column'[r], checked'[r])
      BY <2>3, SessionsStaySound DEF Apply, ApplyInMemory, Migrate
    <3> QED BY <3>1, <3>2, SoundLater
  <2>4. ASSUME NEW s \in Session, End(s), UNCHANGED <<file, written>>
        PROVE  LimitsInv'
    <3>1. \A r \in Session : Sound(column'[r], checked'[r])
      BY <2>4, SessionsStaySound
    <3> QED BY <2>4, <3>1, SoundLater DEF LimitsInv
  <2>5. \/ UNCHANGED <<file, written, column, checked>>
        \/ \E s \in Session : \/ Read(s)
                              \/ Apply(s) \/ ApplyInMemory(s) \/ Migrate(s)
                              \/ End(s) /\ UNCHANGED <<file, written>>
    BY DEF Next, vars, session, AddKey, DropKeys, Redecide, Begin, ApplyRefused, MigrateFails,
           PreviewFile, Fail, Leave
  <2> QED BY <2>1, <2>2, <2>3, <2>4, <2>5
<1>3. LimitsInv => TokensMeetLimits
  <2> SUFFICES ASSUME LimitsInv, written # NoLimits
               PROVE  RiskViolations(ColumnRisk(file), written) = {}
    BY DEF TokensMeetLimits
  <2>1. PICK k \in Key, d \in Domain, plain \in Seq(Value \union {Null}) :
          /\ Encodes(file, k, d, plain)
          /\ RiskViolations(ColumnRisk(plain), written) = {}
    BY DEF LimitsInv, Sound
  <2>2. ColumnRisk(file) = ColumnRisk(plain)
    BY <2>1, TokensHaveTheShape, ShapeDecidesRisk
  <2> QED BY <2>1, <2>2
<1> QED BY <1>1, <1>2, <1>3, Invariance, PTL DEF Spec
=============================================================================
