---------------------------- MODULE MCPolicyGate ----------------------------
(* PolicyGate on a small instance.  It starts from a policy in which one    *)
(* role may detokenize a label and is denied public columns, and another    *)
(* role lists nothing, with one column reviewed or not.  Generated views    *)
(* are looked at for the branch, which is everything main ever becomes.     *)
EXTENDS PolicyGate, Views

CONSTANTS r1, r2, c1, c2, pii,
          tok   \* a companion column that nobody reviewed

MCGrants == {[view |-> "deny", detokenize |-> FALSE],
             [view |-> "tokenize", detokenize |-> TRUE],
             [view |-> "clear", detokenize |-> FALSE]}

MCInit ==
    /\ policy = [role \in {r1, r2} |->
                    IF role = r1
                    THEN [label \in {pii, Public} |->
                            [view |-> IF label = pii THEN "tokenize" ELSE "deny",
                             detokenize |-> label = pii]]
                    ELSE [label \in {} |-> NoGrant]]
    /\ catalog \in {[key \in {} |-> [label |-> pii]]} \union [{c1} -> Decision]
    /\ newPolicy = policy
    /\ newCatalog = catalog
    /\ edits = 0
    /\ baseline = AllRights(policy, catalog)

MCSpec == MCInit /\ [][GateNext]_gateVars
-----------------------------------------------------------------------------
\* Companions: none, an unreviewed column, a reviewed one; and three mappings that
\* are refused (two in which a companion has a companion, and a shared companion).
Mappings == {<<>>, c1 :> tok, c1 :> c2, (c1 :> tok) @@ (c2 :> c1), (c1 :> c2) @@ (c2 :> tok),
             (c1 :> tok) @@ (c2 :> tok)}
Tables == {{c1, c2}, {c1, c2, tok}}
Strings == {c1, c2}

Node(table, schema, identifier, documented, physical, ephemeral) ==
    [table |-> table, database |-> "db", schema |-> schema, identifier |-> identifier,
     documented |-> documented, physical |-> physical, ephemeral |-> ephemeral]

\* Two tables of one name in two schemas, one of which dbt views may go to; one
\* table with an undocumented column and a companion, beside an ephemeral model.
Artifacts ==
    {<<Node("t1", "raw", "t", {c1}, {c1}, FALSE), Node("t2", schema, id, {c2}, {c2}, FALSE)>> :
        schema \in {"raw", "governed"}, id \in {"t", "u"}}
    \union {<<Node("t1", "raw", "t", {c1}, {c1, c2, tok}, FALSE),
              Node("t3", "raw", "t", {c1}, {}, eph)>> : eph \in BOOLEAN}

\* Whatever policy and catalog a branch reaches, the SQL of sql-view shows what
\* the role's own view shows, and that of dbt-views shows reviewed columns only
\* and overwrites nothing.
GeneratedViewsAgree ==
    \A role \in DOMAIN newPolicy :
        /\ \A physical \in Tables, strings \in {Strings, Strings \union {tok}}, mapping \in Mappings :
            SqlShowsTheView(newPolicy, newCatalog, role, physical, strings, mapping)
        /\ \A nodes \in Artifacts, mappings \in {<<>>, "t1" :> (c1 :> tok)} :
            DbtViewsAreSafe(newPolicy, newCatalog, role, nodes, "governed", mappings)
=============================================================================
