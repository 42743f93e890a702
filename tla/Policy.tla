------------------------------- MODULE Policy -------------------------------
(***************************************************************************)
(* What a role may do with a column: Policy (policy.py), the catalog       *)
(* lookups it makes (review.py), and the comparison of two revisions       *)
(* (access.py).  All of it is a function of a policy and a catalog:        *)
(*  - a policy maps each role it knows to the labels it lists, and each of *)
(*    those to a grant;                                                    *)
(*  - a catalog maps each column that was reviewed to its decision.        *)
(* Both are functions whose domains are the keys the dicts hold.  A column *)
(* is a (table, column) pair: a Key.                                       *)
(***************************************************************************)
CONSTANTS
    Role, Key,
    Label,      \* the labels decisions carry
    Public,     \* colgov.PUBLIC, one of them
    Domain      \* token domains

ASSUME PublicAssumption == Public \in Label

Treatment == {"deny", "tokenize", "clear"}
Grant == [view : Treatment, detokenize : BOOLEAN]
Decision == [label : Label, domain : Domain]

Policies == UNION {[roles -> UNION {[labels -> Grant] : labels \in SUBSET Label}] :
                      roles \in SUBSET Role}
Catalogs == UNION {[keys -> Decision] : keys \in SUBSET Key}

\* Policy.load accepts the file: a policy without roles is refused.
Loads(policy) == DOMAIN policy # {}
-----------------------------------------------------------------------------
(* Policy._lookup, resolve and may_detokenize. *)

NoGrant == [view |-> "deny", detokenize |-> FALSE]
PublicDefault == [view |-> "clear", detokenize |-> FALSE]

\* Mutant: a column without a decision is treated as public.
LookupUnreviewedIsPublic(policy, catalog, role, key) ==
    IF role \in DOMAIN policy /\ key \in DOMAIN catalog
    THEN LET label == catalog[key].label
         IN  IF label \in DOMAIN policy[role] THEN policy[role][label]
             ELSE IF label = Public THEN PublicDefault ELSE NoGrant
    ELSE IF role \in DOMAIN policy THEN PublicDefault ELSE NoGrant

\* The role's grant on the column.  An unknown role, an unreviewed column and a
\* label the role does not list are denied; public is clear unless listed.
Lookup(policy, catalog, role, key) ==
    IF role \in DOMAIN policy /\ key \in DOMAIN catalog
    THEN LET label == catalog[key].label
         IN  IF label \in DOMAIN policy[role] THEN policy[role][label]
             ELSE IF label = Public THEN PublicDefault ELSE NoGrant
    ELSE NoGrant

Resolve(policy, catalog, role, key) == Lookup(policy, catalog, role, key).view
MayDetokenize(policy, catalog, role, key) == Lookup(policy, catalog, role, key).detokenize

\* Mutant: forgets that roles see public columns by default.
GrantedLabelsListed(policy) ==
    {label \in Label : \E role \in DOMAIN policy :
        label \in DOMAIN policy[role] /\ policy[role][label].view # "deny"}

\* Policy.granted_labels: the labels at least one role may see.
GrantedLabels(policy) ==
    {label \in Label : \E role \in DOMAIN policy :
        IF label \in DOMAIN policy[role] THEN policy[role][label].view # "deny"
                                         ELSE label = Public}

\* cmd_check's findings about a column that a schema lists.
NotReviewed(catalog, key) == key \notin DOMAIN catalog
GrantedToNobody(policy, catalog, key) ==
    key \in DOMAIN catalog /\ catalog[key].label \notin GrantedLabels(policy)
-----------------------------------------------------------------------------
(* explain_access and compare_access. *)

\* AccessExplanation, as far as _effective compares it; "decision" holds the
\* label and domain of the column's decision, if there is one.
Explanation(policy, catalog, role, key) ==
    [view |-> Resolve(policy, catalog, role, key),
     detokenize |-> MayDetokenize(policy, catalog, role, key),
     decision |-> IF key \in DOMAIN catalog THEN {catalog[key]} ELSE {}]

\* _rights: what an explanation allows.
Rights(e) ==
    (CASE e.view = "clear"    -> {"token", "clear"}
       [] e.view = "tokenize" -> {"token"}
       [] e.view = "deny"     -> {})
    \union (IF e.detokenize THEN {"detokenize"} ELSE {})

Kind(before, after) ==
    LET gained == Rights(after) \ Rights(before) # {}
        lost == Rights(before) \ Rights(after) # {}
    IN  CASE gained /\ lost -> "mixed"
          [] gained /\ ~lost -> "expansion"
          [] ~gained /\ lost -> "restriction"
          [] OTHER -> "configuration"

\* Mutant: only the columns that the old catalog decided are compared.
ComparedKeysBefore(cat1, cat2, schema) == DOMAIN cat1 \union schema

ComparedKeys(cat1, cat2, schema) == DOMAIN cat1 \union DOMAIN cat2 \union schema

\* compare_access: a change for every compared column and every role of either
\* policy whose effective access differs.
Changes(pol1, cat1, pol2, cat2, schema) ==
    LET before(kr) == Explanation(pol1, cat1, kr[2], kr[1])
        after(kr) == Explanation(pol2, cat2, kr[2], kr[1])
        compared == ComparedKeys(cat1, cat2, schema) \X (DOMAIN pol1 \union DOMAIN pol2)
    IN  {[key |-> kr[1], role |-> kr[2], kind |-> Kind(before(kr), after(kr))] :
            kr \in {kr \in compared : before(kr) # after(kr)}}

\* cmd_policy_diff --fail-on-expansion returns 0.
GatePasses(pol1, cat1, pol2, cat2, schema) ==
    \A change \in Changes(pol1, cat1, pol2, cat2, schema) :
        change.kind \notin {"expansion", "mixed"}

RightsOf(policy, catalog, role, key) == Rights(Explanation(policy, catalog, role, key))
=============================================================================
