----------------------------- MODULE PolicyGate -----------------------------
(***************************************************************************)
(* A repository that keeps its policy and its catalog under review, with   *)
(* `colgov policy-diff --fail-on-expansion` as the gate every merge has to *)
(* pass (docs: the CI example).  A branch is edited freely, by hand or     *)
(* with the catalog's operations, and then compared with what main is at   *)
(* that moment and merged.                                                 *)
(***************************************************************************)
EXTENDS Policy, Naturals

CONSTANTS
    Grants,     \* the grants that edits use, a subset of Grant
    Schema,     \* the columns of the schemas given to policy-diff, perhaps none
    MaxEdits    \* bound: edits on a branch before it is merged or thrown away

ASSUME GrantsAssumption == Grants \subseteq Grant
ASSUME SchemaAssumption == Schema \subseteq Key
ASSUME EditsAssumption == MaxEdits \in Nat

VARIABLES
    policy, catalog,    \* on main
    newPolicy, newCatalog,  \* on the branch
    edits,              \* how many edits the branch has
    baseline            \* the rights on main at the start; only the properties read it

gateVars == <<policy, catalog, newPolicy, newCatalog, edits, baseline>>

AllRights(pol, cat) == [role \in Role |-> [key \in Key |-> RightsOf(pol, cat, role, key)]]

Right == {"token", "clear", "detokenize"}

GateTypeOK ==
    /\ policy \in Policies /\ newPolicy \in Policies
    /\ catalog \in Catalogs /\ newCatalog \in Catalogs
    /\ edits \in 0..MaxEdits
    /\ baseline \in [Role -> [Key -> SUBSET Right]]
-----------------------------------------------------------------------------
Extend(f, k, v) == [x \in DOMAIN f \union {k} |-> IF x = k THEN v ELSE f[x]]
Without(f, k) == [x \in DOMAIN f \ {k} |-> f[x]]

Edit == edits < MaxEdits /\ edits' = edits + 1 /\ UNCHANGED <<policy, catalog, baseline>>

\* The policy file is edited: a role, or one of its grants, is set or removed.
AddRole(role) ==
    /\ Edit
    /\ role \notin DOMAIN newPolicy
    /\ newPolicy' = Extend(newPolicy, role, [label \in {} |-> NoGrant])
    /\ UNCHANGED newCatalog

RemoveRole(role) ==
    /\ Edit
    /\ role \in DOMAIN newPolicy
    /\ newPolicy' = Without(newPolicy, role)
    /\ UNCHANGED newCatalog

SetGrant(role, label, grant) ==
    /\ Edit
    /\ role \in DOMAIN newPolicy
    /\ newPolicy' = [newPolicy EXCEPT ![role] = Extend(@, label, grant)]
    /\ UNCHANGED newCatalog

RemoveGrant(role, label) ==
    /\ Edit
    /\ role \in DOMAIN newPolicy
    /\ label \in DOMAIN newPolicy[role]
    /\ newPolicy' = [newPolicy EXCEPT ![role] = Without(@, label)]
    /\ UNCHANGED newCatalog

\* Mutant: the label is stored in place of the decision.
DecideLabelOnly(key, decision) ==
    /\ Edit
    /\ newCatalog' = Extend(newCatalog, key, decision.label)
    /\ UNCHANGED newPolicy

\* Catalog.decide and Catalog.revoke.
Decide(key, decision) ==
    /\ Edit
    /\ newCatalog' = Extend(newCatalog, key, decision)
    /\ UNCHANGED newPolicy

Revoke(key) ==
    /\ Edit
    /\ newCatalog' = Without(newCatalog, key)
    /\ UNCHANGED newPolicy

\* Main moves on to the branch, through the gate: policy-diff loads both
\* revisions and returns 0.
Merge ==
    /\ Loads(policy) /\ Loads(newPolicy)
    /\ GatePasses(policy, catalog, newPolicy, newCatalog, Schema)
    /\ policy' = newPolicy
    /\ catalog' = newCatalog
    /\ edits' = 0
    /\ UNCHANGED <<newPolicy, newCatalog, baseline>>

\* A new branch is cut from main.
Discard ==
    /\ newPolicy' = policy
    /\ newCatalog' = catalog
    /\ edits' = 0
    /\ UNCHANGED <<policy, catalog, baseline>>
-----------------------------------------------------------------------------
GateInit ==
    /\ policy \in Policies /\ Loads(policy) /\ newPolicy = policy
    /\ catalog \in Catalogs /\ newCatalog = catalog
    /\ edits = 0
    /\ baseline = AllRights(policy, catalog)

GateNext ==
    \/ \E role \in Role :
        \/ AddRole(role) \/ RemoveRole(role)
        \/ \E label \in Label :
            RemoveGrant(role, label) \/ \E grant \in Grants : SetGrant(role, label, grant)
    \/ \E key \in Key : Revoke(key) \/ \E decision \in Decision : Decide(key, decision)
    \/ Merge \/ Discard

GateSpec == GateInit /\ [][GateNext]_gateVars
-----------------------------------------------------------------------------
\* However many gated merges there were, and whatever roles, grants and columns
\* came and went in between, nobody has a right on main that they did not have
\* at the start: no expansion hides in a column or a role that one of the two
\* revisions lacks, or in a sequence of merges each of which looks harmless.
RightsNeverExceedBaseline ==
    \A role \in Role, key \in Key :
        RightsOf(policy, catalog, role, key) \subseteq baseline[role][key]

\* `colgov check` says nothing about a column exactly when some role's view has
\* it: "not reviewed" and "not granted to any role" together are the columns that
\* are denied to everybody, public ones and deny grants included.
CheckAgreesWithViews ==
    \A key \in Key :
        NotReviewed(newCatalog, key) \/ GrantedToNobody(newPolicy, newCatalog, key) <=>
            \A role \in Role : Resolve(newPolicy, newCatalog, role, key) = "deny"

\* Taking a decision back never gives anyone a right ("it goes back to pending
\* (and denied)"), and neither does removing a role.
RemovalNeverExpands ==
    [][(\E key \in Key : Revoke(key)) \/ (\E role \in Role : RemoveRole(role)) =>
        \A role \in Role, key \in Key :
            RightsOf(newPolicy', newCatalog', role, key) \subseteq
                RightsOf(newPolicy, newCatalog, role, key)]_gateVars
=============================================================================
