-------------------------- MODULE PolicyGateProofs --------------------------
(***************************************************************************)
(* Theorems about the policy gate, for every set of roles, columns,        *)
(* labels, domains and grants, and for any number of merges; and about the *)
(* views colgov generates, for every policy, catalog, table, mapping of    *)
(* companion columns and dbt manifest, and so for every branch.            *)
(***************************************************************************)
EXTENDS MCPolicyGate, TLAPS

\* No decision, or no such role: no rights.
LEMMA UnknownHasNoRights ==
    ASSUME NEW pol, NEW cat, NEW role, NEW key,
           role \notin DOMAIN pol \/ key \notin DOMAIN cat
    PROVE  RightsOf(pol, cat, role, key) = {}
<1>1. Lookup(pol, cat, role, key) = NoGrant
  BY DEF Lookup
<1>2. Explanation(pol, cat, role, key).view = "deny"
      /\ Explanation(pol, cat, role, key).detokenize = FALSE
  BY <1>1 DEF Explanation, Resolve, MayDetokenize, NoGrant
<1> QED BY <1>2 DEF RightsOf, Rights

\* The gate compares every role and column that can have a right in the new
\* revision, and a right gained there makes the change an expansion or mixed.
LEMMA GateIsSound ==
    ASSUME NEW pol1, NEW cat1, NEW pol2, NEW cat2, NEW schema, NEW role, NEW key,
           GatePasses(pol1, cat1, pol2, cat2, schema)
    PROVE  RightsOf(pol2, cat2, role, key) \subseteq RightsOf(pol1, cat1, role, key)
<1> DEFINE e1 == Explanation(pol1, cat1, role, key)
           e2 == Explanation(pol2, cat2, role, key)
<1>1. CASE role \notin DOMAIN pol2 \/ key \notin DOMAIN cat2
  BY <1>1, UnknownHasNoRights
<1>2. CASE role \in DOMAIN pol2 /\ key \in DOMAIN cat2 /\ e1 = e2
  BY <1>2 DEF RightsOf
<1>3. CASE role \in DOMAIN pol2 /\ key \in DOMAIN cat2 /\ e1 # e2
  <2>1. <<key, role>> \in ComparedKeys(cat1, cat2, schema) \X (DOMAIN pol1 \union DOMAIN pol2)
    BY <1>3 DEF ComparedKeys
  <2>2. [key |-> key, role |-> role, kind |-> Kind(e1, e2)]
            \in Changes(pol1, cat1, pol2, cat2, schema)
    BY <1>3, <2>1 DEF Changes
  <2>3. Kind(e1, e2) \notin {"expansion", "mixed"}
    BY <2>2 DEF GatePasses
  <2>4. Rights(e2) \ Rights(e1) = {}
    BY <2>3 DEF Kind
  <2> QED BY <2>4 DEF RightsOf
<1> QED BY <1>1, <1>2, <1>3

\* Main never grants what it did not grant at the start, after any number of
\* gated merges (README: "Pass --fail-on-expansion in CI").
THEOREM RightsBounded == GateSpec => []RightsNeverExceedBaseline
<1>1. GateInit => RightsNeverExceedBaseline
  BY DEF GateInit, AllRights, RightsNeverExceedBaseline
<1>2. RightsNeverExceedBaseline /\ [GateNext]_gateVars => RightsNeverExceedBaseline'
  <2> SUFFICES ASSUME RightsNeverExceedBaseline, [GateNext]_gateVars
               PROVE  RightsNeverExceedBaseline'
    OBVIOUS
  <2>1. CASE policy' = policy /\ catalog' = catalog /\ baseline' = baseline
    BY <2>1 DEF RightsNeverExceedBaseline
  <2>2. CASE Merge
    <3>1. \A role \in Role, key \in Key :
            RightsOf(newPolicy, newCatalog, role, key) \subseteq RightsOf(policy, catalog, role, key)
      BY <2>2, GateIsSound DEF Merge
    <3> QED BY <2>2, <3>1 DEF Merge, RightsNeverExceedBaseline
  <2>3. ~Merge => policy' = policy /\ catalog' = catalog /\ baseline' = baseline
    BY DEF GateNext, gateVars, AddRole, RemoveRole, RemoveGrant, SetGrant, Revoke, Decide,
           Edit, Discard
  <2> QED BY <2>1, <2>2, <2>3
<1> QED BY <1>1, <1>2, PTL DEF GateSpec

-----------------------------------------------------------------------------
(* What every revision looks like. *)

RevisionsOK ==
    /\ policy \in Policies /\ newPolicy \in Policies
    /\ catalog \in Catalogs /\ newCatalog \in Catalogs

\* A policy is a function from some roles to functions from some labels.
LEMMA PoliciesDef ==
    ASSUME NEW p
    PROVE  p \in Policies <=>
             /\ p = [role \in DOMAIN p |-> p[role]]
             /\ DOMAIN p \subseteq Role
             /\ \A role \in DOMAIN p :
                  /\ p[role] = [label \in DOMAIN p[role] |-> p[role][label]]
                  /\ DOMAIN p[role] \subseteq Label
                  /\ \A label \in DOMAIN p[role] : p[role][label] \in Grant
<1> DEFINE G == UNION {[labels -> Grant] : labels \in SUBSET Label}
<1>1. \A g : g \in G <=> /\ g = [label \in DOMAIN g |-> g[label]]
                         /\ DOMAIN g \subseteq Label
                         /\ \A label \in DOMAIN g : g[label] \in Grant
  OBVIOUS
<1>2. p \in Policies <=> \E roles \in SUBSET Role : p \in [roles -> G]
  BY DEF Policies
<1>3. p \in Policies <=> /\ p = [role \in DOMAIN p |-> p[role]]
                         /\ DOMAIN p \subseteq Role
                         /\ \A role \in DOMAIN p : p[role] \in G
  <2> HIDE DEF G
  <2> QED BY <1>2
<1> QED BY <1>1, <1>3

LEMMA CatalogsDef ==
    ASSUME NEW c
    PROVE  c \in Catalogs <=>
             /\ c = [key \in DOMAIN c |-> c[key]]
             /\ DOMAIN c \subseteq Key
             /\ \A key \in DOMAIN c : c[key] \in Decision
BY DEF Catalogs

\* Extending, shrinking and updating keep a revision well formed.
LEMMA EditPolicy ==
    ASSUME NEW p \in Policies, NEW role \in Role
    PROVE  /\ Extend(p, role, [label \in {} |-> NoGrant]) \in Policies
           /\ Without(p, role) \in Policies
           /\ role \in DOMAIN p =>
                \A label \in Label :
                  /\ [p EXCEPT ![role] = Without(@, label)] \in Policies
                  /\ \A grant \in Grant : [p EXCEPT ![role] = Extend(@, label, grant)] \in Policies
<1>1. Extend(p, role, [label \in {} |-> NoGrant]) \in Policies
  <2> DEFINE none == [label \in {} |-> NoGrant]
             q == Extend(p, role, none)
  <2>1. /\ none = [label \in DOMAIN none |-> none[label]]
        /\ DOMAIN none = {}
    OBVIOUS
  <2> HIDE DEF none
  <2>2. /\ q = [x \in DOMAIN q |-> q[x]]
        /\ DOMAIN q = DOMAIN p \union {role}
        /\ \A x \in DOMAIN q : q[x] = IF x = role THEN none ELSE p[x]
    BY DEF Extend
  <2> HIDE DEF q
  <2>3. \A x \in DOMAIN q :
          /\ q[x] = [label \in DOMAIN q[x] |-> q[x][label]]
          /\ DOMAIN q[x] \subseteq Label
          /\ \A label \in DOMAIN q[x] : q[x][label] \in Grant
    BY <2>1, <2>2, PoliciesDef
  <2>4. DOMAIN q \subseteq Role
    BY <2>2, PoliciesDef
  <2>5. q \in Policies
    BY <2>2, <2>3, <2>4, PoliciesDef
  <2> QED BY <2>5 DEF q, none
<1>2. Without(p, role) \in Policies
  BY PoliciesDef DEF Without
<1>3. ASSUME role \in DOMAIN p, NEW label \in Label
      PROVE  [p EXCEPT ![role] = Without(@, label)] \in Policies
  BY <1>3, PoliciesDef DEF Without
<1>4. ASSUME role \in DOMAIN p, NEW label \in Label, NEW grant \in Grant
      PROVE  [p EXCEPT ![role] = Extend(@, label, grant)] \in Policies
  BY <1>4, PoliciesDef DEF Extend
<1> QED BY <1>1, <1>2, <1>3, <1>4

LEMMA EditCatalog ==
    ASSUME NEW c \in Catalogs, NEW key \in Key
    PROVE  /\ Without(c, key) \in Catalogs
           /\ \A decision \in Decision : Extend(c, key, decision) \in Catalogs
<1>1. Without(c, key) \in Catalogs
  BY CatalogsDef DEF Without
<1>2. ASSUME NEW decision \in Decision
      PROVE  Extend(c, key, decision) \in Catalogs
  BY <1>2, CatalogsDef DEF Extend
<1> QED BY <1>1, <1>2

\* Main and the branch always hold a policy and a catalog.
THEOREM RevisionsAreWellFormed == GateSpec => []RevisionsOK
<1>1. GateInit => RevisionsOK
  BY DEF GateInit, RevisionsOK
<1>2. RevisionsOK /\ [GateNext]_gateVars => RevisionsOK'
  <2> SUFFICES ASSUME RevisionsOK, [GateNext]_gateVars
               PROVE  RevisionsOK'
    OBVIOUS
  <2>1. ASSUME NEW role \in Role, AddRole(role) \/ RemoveRole(role)
        PROVE  RevisionsOK'
    BY <2>1, EditPolicy DEF AddRole, RemoveRole, Edit, RevisionsOK
  <2>2. ASSUME NEW role \in Role, NEW label \in Label, RemoveGrant(role, label)
        PROVE  RevisionsOK'
    BY <2>2, EditPolicy DEF RemoveGrant, Edit, RevisionsOK
  <2>3. ASSUME NEW role \in Role, NEW label \in Label, NEW grant \in Grants,
               SetGrant(role, label, grant)
        PROVE  RevisionsOK'
    BY <2>3, EditPolicy, GrantsAssumption DEF SetGrant, Edit, RevisionsOK
  <2>4. ASSUME NEW key \in Key, Revoke(key)
        PROVE  RevisionsOK'
    BY <2>4, EditCatalog DEF Revoke, Edit, RevisionsOK
  <2>5. ASSUME NEW key \in Key, NEW decision \in Decision, Decide(key, decision)
        PROVE  RevisionsOK'
    BY <2>5, EditCatalog DEF Decide, Edit, RevisionsOK
  <2>6. CASE Merge \/ Discard
    BY <2>6 DEF Merge, Discard, RevisionsOK
  <2>7. CASE UNCHANGED gateVars
    BY <2>7 DEF gateVars, RevisionsOK
  <2> QED BY <2>1, <2>2, <2>3, <2>4, <2>5, <2>6, <2>7 DEF GateNext
<1> QED BY <1>1, <1>2, PTL DEF GateSpec

\* Whatever a well-formed policy and catalog say, the grant looked up is one,
\* and the rights it gives are among the three there are.
LEMMA LookupIsAGrant ==
    ASSUME NEW pol \in Policies, NEW cat \in Catalogs, NEW role, NEW key
    PROVE  Lookup(pol, cat, role, key) \in Grant
<1>1. NoGrant \in Grant /\ PublicDefault \in Grant
  BY DEF NoGrant, PublicDefault, Grant, Treatment
<1>2. role \in DOMAIN pol =>
        \A label \in DOMAIN pol[role] : pol[role][label] \in Grant
  BY PoliciesDef
<1> QED BY <1>1, <1>2 DEF Lookup

LEMMA RightsAreRights ==
    ASSUME NEW pol \in Policies, NEW cat \in Catalogs, NEW role, NEW key
    PROVE  RightsOf(pol, cat, role, key) \subseteq Right
<1> DEFINE e == Explanation(pol, cat, role, key)
<1>1. e.view \in Treatment
  BY LookupIsAGrant DEF Explanation, Resolve, Grant
<1>2. e.view = "clear" \/ e.view = "tokenize" \/ e.view = "deny"
  BY <1>1 DEF Treatment
<1> HIDE DEF e
<1>3. Rights(e) \subseteq Right
  BY <1>2 DEF Rights, Right
<1> QED BY <1>3 DEF RightsOf, e

\* A branch never has more edits than its bound, and the baseline that rights are
\* measured against is a set of rights for each role and column.
THEOREM GateTypeCorrect == GateSpec => []GateTypeOK
<1> DEFINE Counted == edits \in 0..MaxEdits
           Based == baseline \in [Role -> [Key -> SUBSET Right]]
<1>1. GateInit => Counted /\ Based
  <2> SUFFICES ASSUME GateInit
               PROVE  Counted /\ Based
    OBVIOUS
  <2>1. Counted
    BY EditsAssumption DEF GateInit
  <2>2. policy \in Policies /\ catalog \in Catalogs /\ baseline = AllRights(policy, catalog)
    BY DEF GateInit
  <2>3. \A role \in Role, key \in Key : RightsOf(policy, catalog, role, key) \in SUBSET Right
    BY <2>2, RightsAreRights
  <2>4. Based
    BY <2>2, <2>3 DEF AllRights
  <2> QED BY <2>1, <2>4
<1>2. Counted /\ Based /\ [GateNext]_gateVars => Counted' /\ Based'
  <2> SUFFICES ASSUME Counted, Based, [GateNext]_gateVars
               PROVE  Counted' /\ Based'
    OBVIOUS
  <2>1. CASE Edit
    BY <2>1, EditsAssumption DEF Edit
  <2>2. CASE Merge \/ Discard
    BY <2>2, EditsAssumption DEF Merge, Discard
  <2>3. CASE UNCHANGED gateVars
    BY <2>3 DEF gateVars
  <2>4. GateNext => Edit \/ Merge \/ Discard
    BY DEF GateNext, AddRole, RemoveRole, RemoveGrant, SetGrant, Revoke, Decide
  <2> QED BY <2>1, <2>2, <2>3, <2>4
<1>3. RevisionsOK /\ Counted /\ Based => GateTypeOK
  BY DEF RevisionsOK, GateTypeOK
<1> QED BY <1>1, <1>2, <1>3, RevisionsAreWellFormed, PTL DEF GateSpec

\* `colgov check` finds fault with a column exactly when nobody sees it
\* (cmd_check and granted_labels, policy.py:109, against resolve).
THEOREM CheckIsExact == GateSpec => []CheckAgreesWithViews
<1>1. RevisionsOK => CheckAgreesWithViews
  <2> SUFFICES ASSUME RevisionsOK, NEW key \in Key
               PROVE  NotReviewed(newCatalog, key) \/ GrantedToNobody(newPolicy, newCatalog, key)
                        <=> \A role \in Role :
                                Resolve(newPolicy, newCatalog, role, key) = "deny"
    BY DEF CheckAgreesWithViews
  <2>1. CASE key \notin DOMAIN newCatalog
    BY <2>1 DEF NotReviewed, Resolve, Lookup, NoGrant
  <2>2. CASE key \in DOMAIN newCatalog
    <3> DEFINE label == newCatalog[key].label
    <3>1. label \in Label
      BY <2>2, CatalogsDef DEF RevisionsOK, Decision
    <3>2. DOMAIN newPolicy \subseteq Role
      BY PoliciesDef DEF RevisionsOK
    <3>3. ASSUME NEW role \in Role
          PROVE  Resolve(newPolicy, newCatalog, role, key) # "deny" <=>
                   /\ role \in DOMAIN newPolicy
                   /\ IF label \in DOMAIN newPolicy[role]
                      THEN newPolicy[role][label].view # "deny" ELSE label = Public
      BY <2>2 DEF Resolve, Lookup, NoGrant, PublicDefault
    <3> QED BY <2>2, <3>1, <3>2, <3>3 DEF NotReviewed, GrantedToNobody, GrantedLabels
  <2> QED BY <2>1, <2>2
<1> QED BY <1>1, RevisionsAreWellFormed, PTL

\* Revoking a decision or removing a role never gives anyone a right.
THEOREM RemovalIsSafe == GateSpec => RemovalNeverExpands
<1>1. ASSUME NEW k \in Key, Revoke(k), NEW role \in Role, NEW key \in Key
      PROVE  RightsOf(newPolicy', newCatalog', role, key) \subseteq
               RightsOf(newPolicy, newCatalog, role, key)
  <2>1. CASE key = k
    <3>1. key \notin DOMAIN newCatalog'
      BY <1>1, <2>1 DEF Revoke, Without
    <3> QED BY <3>1, UnknownHasNoRights
  <2>2. CASE key # k
    <3>1. newPolicy' = newPolicy
      BY <1>1 DEF Revoke
    <3>2. /\ key \in DOMAIN newCatalog' <=> key \in DOMAIN newCatalog
          /\ key \in DOMAIN newCatalog => newCatalog'[key] = newCatalog[key]
      BY <1>1, <2>2 DEF Revoke, Without
    <3>3. Lookup(newPolicy', newCatalog', role, key) = Lookup(newPolicy, newCatalog, role, key)
      BY <3>1, <3>2 DEF Lookup
    <3> QED BY <3>3 DEF RightsOf, Rights, Explanation, Resolve, MayDetokenize
  <2> QED BY <2>1, <2>2
<1>2. ASSUME NEW r \in Role, RemoveRole(r), NEW role \in Role, NEW key \in Key
      PROVE  RightsOf(newPolicy', newCatalog', role, key) \subseteq
               RightsOf(newPolicy, newCatalog, role, key)
  <2>1. CASE role = r
    <3>1. role \notin DOMAIN newPolicy'
      BY <1>2, <2>1 DEF RemoveRole, Without
    <3> QED BY <3>1, UnknownHasNoRights
  <2>2. CASE role # r
    <3>1. newCatalog' = newCatalog
      BY <1>2 DEF RemoveRole
    <3>2. /\ role \in DOMAIN newPolicy' <=> role \in DOMAIN newPolicy
          /\ role \in DOMAIN newPolicy => newPolicy'[role] = newPolicy[role]
      BY <1>2, <2>2 DEF RemoveRole, Without
    <3>3. Lookup(newPolicy', newCatalog', role, key) = Lookup(newPolicy, newCatalog, role, key)
      BY <3>1, <3>2 DEF Lookup
    <3> QED BY <3>3 DEF RightsOf, Rights, Explanation, Resolve, MayDetokenize
  <2> QED BY <2>1, <2>2
<1>3. [GateNext]_gateVars =>
        [(\E key \in Key : Revoke(key)) \/ (\E role \in Role : RemoveRole(role)) =>
            \A role \in Role, key \in Key :
                RightsOf(newPolicy', newCatalog', role, key) \subseteq
                    RightsOf(newPolicy, newCatalog, role, key)]_gateVars
  BY <1>1, <1>2
<1> QED BY <1>3, PTL DEF GateSpec, RemovalNeverExpands
-----------------------------------------------------------------------------
(* The views that sql-view prints. *)

\* What generate_view_sql has checked by the time it returns: companions are
\* columns of the table other than their own column, and every column that the
\* plan tokenizes has one.
LEMMA GeneratedIsMapped ==
    ASSUME NEW plan, NEW physical, NEW mapping, NEW source, NEW view,
           SqlGenerates(plan, physical, mapping, source, view)
    PROVE  /\ source # view
           /\ \A c \in DOMAIN mapping : mapping[c] # c /\ mapping[c] \in physical
           /\ Treated(plan, "tokenize") \subseteq DOMAIN mapping
BY DEF SqlGenerates, MappingOK, Range

\* The selected columns, and what each one is: a clear column is itself, and a
\* tokenized one its companion.
LEMMA SelectedColumns ==
    ASSUME NEW plan, NEW mapping,
           \A c \in DOMAIN mapping : mapping[c] # c,
           Treated(plan, "tokenize") \subseteq DOMAIN mapping
    PROVE  \A s : s \in Select(plan, mapping) <=>
             \/ \E c \in Treated(plan, "clear") :
                    s = [column |-> c, name |-> c] /\ s.column = s.name
             \/ \E c \in Treated(plan, "tokenize") :
                    s = [column |-> mapping[c], name |-> c] /\ s.column # s.name
BY DEF Select

\* sql-view shows what Policy.apply shows, whatever the policy and the catalog
\* say, whatever columns the file has and whatever mapping is passed
\* (generate_view_sql, sql.py:40).
THEOREM SqlViewsAgree ==
    ASSUME NEW pol, NEW cat, NEW role, NEW physical, NEW strings, NEW mapping
    PROVE  SqlShowsTheView(pol, cat, role, physical, strings, mapping)
<1> DEFINE plan == SqlPlan(pol, cat, role, physical, mapping)
           selected == Select(plan, mapping)
           tokens == {s \in selected : s.column # s.name}
           shown == {[shows |-> IF s \in tokens THEN "token" ELSE "raw", name |-> s.name] :
                         s \in selected}
<1> SUFFICES ASSUME SqlView(plan, physical, strings, mapping, "source", "view")
             PROVE  /\ shown = Built(plan)
                    /\ \A s \in tokens : s.column = mapping[s.name] /\ s.column \in strings
  BY DEF SqlShowsTheView, SqlPlan, LogicalColumns
<1>1. /\ \A c \in DOMAIN mapping : mapping[c] # c /\ mapping[c] \in strings
      /\ Treated(plan, "tokenize") \subseteq DOMAIN mapping
  <2>1. SqlGenerates(plan, physical, mapping, "source", "view")
    BY DEF SqlView
  <2>2. Range(mapping) \intersect physical \subseteq strings
    BY DEF SqlView
  <2>3. \A c \in DOMAIN mapping : mapping[c] \in Range(mapping)
    BY DEF Range
  <2> HIDE DEF plan
  <2> QED BY <2>1, <2>2, <2>3, GeneratedIsMapped
<1> HIDE DEF plan
<1>2. \A s : s \in selected <=>
         \/ \E c \in Treated(plan, "clear") :
                s = [column |-> c, name |-> c] /\ s.column = s.name
         \/ \E c \in Treated(plan, "tokenize") :
                s = [column |-> mapping[c], name |-> c] /\ s.column # s.name
  BY <1>1, SelectedColumns
<1> HIDE DEF selected
<1>3. ASSUME NEW x
      PROVE  x \in shown <=> x \in Built(plan)
  <2>1. x \in shown <=> \E s \in selected :
            x = [shows |-> IF s.column # s.name THEN "token" ELSE "raw", name |-> s.name]
    OBVIOUS
  <2>2. x \in Built(plan) <=>
            \/ \E c \in Treated(plan, "clear") : x = [shows |-> "raw", name |-> c]
            \/ \E c \in Treated(plan, "tokenize") : x = [shows |-> "token", name |-> c]
    BY DEF Built
  <2>3. x \in shown => x \in Built(plan)
    BY <1>2, <2>1, <2>2
  <2>4. ASSUME NEW c \in Treated(plan, "clear"), x = [shows |-> "raw", name |-> c]
        PROVE  x \in shown
    <3>1. [column |-> c, name |-> c] \in selected
      BY <1>2
    <3> QED BY <2>1, <2>4, <3>1
  <2>5. ASSUME NEW c \in Treated(plan, "tokenize"), x = [shows |-> "token", name |-> c]
        PROVE  x \in shown
    <3>1. [column |-> mapping[c], name |-> c] \in selected /\ mapping[c] # c
      BY <1>1, <1>2
    <3> QED BY <2>1, <2>5, <3>1
  <2> QED BY <2>2, <2>3, <2>4, <2>5
<1>4. shown = Built(plan)
  BY <1>3
<1>5. \A s \in tokens : s.column = mapping[s.name] /\ s.column \in strings
  BY <1>1, <1>2
<1> QED BY <1>4, <1>5

\* What a role sees through Policy.apply, and so through a generated view, it has
\* the right to: the raw column only with the right to it in clear, its tokens
\* only with the right to tokens (_build_view and _rights).
THEOREM ViewsWithinRights ==
    ASSUME NEW pol, NEW cat, NEW role, NEW columns,
           NEW b \in Built(Plan(pol, cat, role, columns))
    PROVE  /\ b.name \in columns
           /\ (IF b.shows = "raw" THEN "clear" ELSE "token")
                  \in RightsOf(pol, cat, role, b.name)
<1> DEFINE plan == Plan(pol, cat, role, columns)
<1>1. \A c \in DOMAIN plan :
        c \in columns /\ plan[c] = Explanation(pol, cat, role, c).view
  BY DEF Plan, Explanation
<1>2. \A c \in DOMAIN plan :
        /\ plan[c] = "clear" => "clear" \in RightsOf(pol, cat, role, c)
        /\ plan[c] = "tokenize" => "token" \in RightsOf(pol, cat, role, c)
  BY <1>1 DEF RightsOf, Rights
<1>3. PICK c \in DOMAIN plan :
        \/ plan[c] = "clear" /\ b = [shows |-> "raw", name |-> c]
        \/ plan[c] = "tokenize" /\ b = [shows |-> "token", name |-> c]
  <2> HIDE DEF plan
  <2>1. b \in Built(plan)
    BY DEF plan
  <2> QED BY <2>1 DEF Built, Treated
<1> QED BY <1>1, <1>2, <1>3

-----------------------------------------------------------------------------
(* dbt-views. *)

\* No view is a source of any relation: the one it could be has the views' schema,
\* and so would be the source of its own view, which is refused.
LEMMA ViewsAreNoSources ==
    ASSUME NEW pol, NEW cat, NEW role, NEW viewSchema, NEW mappings, NEW from, NEW to,
           RelationGenerates(pol, cat, role, to, viewSchema, mappings)
    PROVE  ViewName(from, viewSchema) # SourceName(to)
<1>1. SourceName(to) # ViewName(to, viewSchema)
  BY GeneratedIsMapped DEF RelationGenerates
<1>2. ViewName(from, viewSchema) = SourceName(to) => viewSchema = to.schema
  BY DEF ViewName, SourceName
<1> QED BY <1>1, <1>2 DEF ViewName, SourceName

\* dbt-views prints SQL that shows reviewed columns only and replaces neither a
\* source table nor another of its views, whatever the manifest holds
\* (generate_dbt_views, dbt.py:52).
THEOREM DbtIsSafe ==
    ASSUME NEW pol, NEW cat, NEW role, NEW nodes, NEW viewSchema, NEW mappings
    PROVE  DbtViewsAreSafe(pol, cat, role, nodes, viewSchema, mappings)
<1> DEFINE rels == Relations(nodes)
<1> SUFFICES ASSUME DbtGenerates(pol, cat, role, rels, viewSchema, mappings)
             PROVE  /\ \A i \in 1..Len(rels) :
                         rels[i].physical \ Range(MappingOf(mappings, rels[i])) \subseteq DOMAIN cat
                    /\ \A i, j \in 1..Len(rels) :
                         /\ ViewName(rels[i], viewSchema) # SourceName(rels[j])
                         /\ i # j => ViewName(rels[i], viewSchema) # ViewName(rels[j], viewSchema)
  BY DEF DbtViewsAreSafe, DbtViews
<1> HIDE DEF rels
<1>1. \A i \in 1..Len(rels) : RelationGenerates(pol, cat, role, rels[i], viewSchema, mappings)
  BY DEF DbtGenerates
<1>2. \A i \in 1..Len(rels) :
        rels[i].physical \ Range(MappingOf(mappings, rels[i])) \subseteq DOMAIN cat
  BY <1>1 DEF RelationGenerates, ColumnsOf
<1>3. \A i, j \in 1..Len(rels) : ViewName(rels[i], viewSchema) # SourceName(rels[j])
  BY <1>1, ViewsAreNoSources
<1>4. \A i, j \in 1..Len(rels) :
        ViewName(rels[i], viewSchema) = ViewName(rels[j], viewSchema) => i = j
  BY DEF DbtGenerates
<1> QED BY <1>2, <1>3, <1>4

\* Every branch of the gated repository has generated views that agree with the
\* role's own and overwrite nothing.
THEOREM BranchViewsAgree == MCSpec => []GeneratedViewsAgree
<1>1. GeneratedViewsAgree
  BY SqlViewsAgree, DbtIsSafe DEF GeneratedViewsAgree
<1> QED BY <1>1, PTL
=============================================================================
