---------------------------- MODULE Tokenization ----------------------------
(***************************************************************************)
(* Tokens and keyrings (tokenization.py, keys.py).  A keyring is the       *)
(* sequence of keys in the key file: the primary first, then older keys.   *)
(*                                                                         *)
(* The cipher is abstracted to what AES-SIV guarantees: a text opens under *)
(* the key, domain and header it was made with, and under nothing else.    *)
(* What does not open under any key has format 0: a token that was         *)
(* altered, or text that never was one.  head is the key id that the first *)
(* bytes of a text seem to name.  Key ids are short, so two keys may share *)
(* one, and the first bytes of a v1 token, which are random, may look like *)
(* a header; that they also name a key in use has odds of one in 2^40 and  *)
(* is left out.                                                            *)
(***************************************************************************)
EXTENDS Risk

CONSTANTS
    Key,        \* master keys
    KeyId,      \* the ids of keys
    IdOf,       \* IdOf[k]: the id of key k
    StrayId,    \* an id that no key has
    NoHead,     \* the text does not look like v2
    Domain,     \* token domains
    NoKey,      \* a text of format 0 was made with no key
    InvalidToken    \* the error

ASSUME KeyAssumption ==
    /\ IdOf \in [Key -> KeyId]
    /\ NoKey \notin Key
    /\ StrayId \notin KeyId
    /\ InvalidToken \notin Value \union {Null}
    /\ NoHead \notin KeyId \union {StrayId}

HeadId == KeyId \union {StrayId, NoHead}

Token == [head : HeadId, format : 0..2, key : Key \union {NoKey}, domain : Domain,
          value : Value \union {Null}]

\* A missing value is not a text.
ASSUME TokenAssumption == Null \notin Token

\* Mutant: Keyring() takes two keys that share an id.
AnyKeysLoad(keys) == keys # <<>>

\* load_keyring: at least one key, and no two different keys share an id.
KeyringLoads(keys) ==
    /\ keys # <<>>
    /\ \A i, j \in 1..Len(keys) : IdOf[keys[i]] = IdOf[keys[j]] => keys[i] = keys[j]

Keys(ring) == ToSet(ring)
Primary(ring) == ring[1]
PrimaryId(ring) == IdOf[Primary(ring)]

\* Keyring._keys: of the keys with one id, the first is kept.
KeyUnder(ring, id) == ring[Min({i \in 1..Len(ring) : IdOf[ring[i]] = id})]

Tokenize(ring, value, domain) ==
    IF value = Null THEN Null
    ELSE [head |-> PrimaryId(ring), format |-> 2, key |-> Primary(ring),
          domain |-> domain, value |-> value]

TokenizeMany(ring, col, domain) == [i \in 1..Len(col) |-> Tokenize(ring, col[i], domain)]

LooksV2(token) == token.head # NoHead

OpensV2(ring, token, domain) ==
    /\ LooksV2(token)
    /\ token.head \in {IdOf[k] : k \in Keys(ring)}
    /\ token.format = 2
    /\ token.key = KeyUnder(ring, token.head)
    /\ token.domain = domain

\* v1 tokens do not name their key: each key of the ring is tried.
OpensV1(ring, token, domain) ==
    /\ token.format = 1
    /\ token.key \in Keys(ring)
    /\ token.domain = domain

Opens(ring, token, domain) == OpensV2(ring, token, domain) \/ OpensV1(ring, token, domain)

Detokenize(ring, token, domain) ==
    IF token = Null THEN Null
    ELSE IF Opens(ring, token, domain) THEN token.value ELSE InvalidToken

\* The header only: nothing is decrypted.
IsCurrent(ring, token) == LooksV2(token) /\ token.head = PrimaryId(ring)

\* Mutant: the token is made again in the old format's way, under its own key.
RetokenizeSameKey(ring, token, domain) ==
    IF token = Null \/ IsCurrent(ring, token) THEN token
    ELSE IF ~Opens(ring, token, domain) THEN InvalidToken
    ELSE Tokenize(<<token.key>>, token.value, domain)

Retokenize(ring, token, domain) ==
    IF token = Null \/ IsCurrent(ring, token) THEN token
    ELSE IF ~Opens(ring, token, domain) THEN InvalidToken
    ELSE Tokenize(ring, Detokenize(ring, token, domain), domain)
-----------------------------------------------------------------------------
(* preview_rotation, of one column. *)

\* Mutant: the header is counted, and nothing is decrypted.
PreviewUnauthenticated(ring, col, domain) == \A i \in 1..Len(col) : col[i] = Null \/ col[i] # Null

\* The preview raises at the first token that does not open.
PreviewSucceeds(ring, col, domain) ==
    \A i \in 1..Len(col) : Detokenize(ring, col[i], domain) # InvalidToken

Preview(ring, col) ==
    LET tokens == {i \in 1..Len(col) : col[i] # Null}
        current == {i \in tokens : IsCurrent(ring, col[i])}
    IN  [total |-> Len(col), null |-> Len(col) - Cardinality(tokens),
         current |-> Cardinality(current), reissue |-> Cardinality(tokens \ current)]
=============================================================================
