-------------------------------- MODULE Views --------------------------------
(***************************************************************************)
(* The views of a table that colgov makes for a role.  Policy.apply and    *)
(* the pandas, polars and Spark adapters build the view itself; sql-view   *)
(* and dbt-views print SQL that selects it, from a source table in which   *)
(* companion columns hold the tokens.  Both are functions of the policy,   *)
(* the catalog and the table's columns; a column is named by its key.      *)
(***************************************************************************)
EXTENDS Policy, Sequences, Functions, SequencesExt

\* Policy.plan
Plan(policy, catalog, role, columns) == [c \in columns |-> Resolve(policy, catalog, role, c)]

Treated(plan, treatment) == {c \in DOMAIN plan : plan[c] = treatment}

\* _build_view: what a view shows, raw values or tokens, under a column's name.
Built(plan) ==
    {[shows |-> "raw", name |-> c] : c \in Treated(plan, "clear")}
        \union {[shows |-> "token", name |-> c] : c \in Treated(plan, "tokenize")}
-----------------------------------------------------------------------------
(* generate_view_sql.  mapping takes logical columns to their token columns. *)

MappingOK(physical, mapping) ==
    /\ DOMAIN mapping \union Range(mapping) \subseteq physical
    /\ \A c \in DOMAIN mapping : mapping[c] # c
    /\ IsInjective(mapping)
    /\ DOMAIN mapping \intersect Range(mapping) = {}

\* Mutant: companion columns are part of the view.
AllColumns(physical, mapping) == physical

LogicalColumns(physical, mapping) == physical \ Range(mapping)

SqlPlan(policy, catalog, role, physical, mapping) ==
    Plan(policy, catalog, role, LogicalColumns(physical, mapping))

\* column AS name
Select(plan, mapping) ==
    {[column |-> c, name |-> c] : c \in Treated(plan, "clear")}
        \union {[column |-> mapping[c], name |-> c] :
                    c \in Treated(plan, "tokenize") \intersect DOMAIN mapping}

SqlGenerates(plan, physical, mapping, source, view) ==
    /\ MappingOK(physical, mapping)
    /\ Treated(plan, "tokenize") \subseteq DOMAIN mapping
    /\ Select(plan, mapping) # {}
    /\ source # view

\* colgov sql-view prints SQL for a data file, whose columns of strings it knows.
SqlView(plan, physical, strings, mapping, source, view) ==
    /\ Range(mapping) \intersect physical \subseteq strings
    /\ SqlGenerates(plan, physical, mapping, source, view)
-----------------------------------------------------------------------------
(* dbt-views.  A node of the manifest is a relation: documented are the      *)
(* columns the manifest lists, physical those of catalog.json, if it has the *)
(* node.  Names are triples: no component of a name may hold a dot.          *)

\* load_dbt_relations: ephemeral models are no relations.
Relations(nodes) == SelectSeq(nodes, LAMBDA n : ~n.ephemeral)

LoadsDbt(nodes) ==
    LET rels == Relations(nodes)
    IN  /\ rels # <<>>
        /\ \A i \in 1..Len(rels) : rels[i].physical # {}
        /\ \A i, j \in 1..Len(rels) : rels[i].table = rels[j].table => i = j

ColumnsOf(relation) == relation.physical

SourceName(relation) == <<relation.database, relation.schema, relation.identifier>>
ViewName(relation, viewSchema) == <<relation.database, viewSchema, relation.identifier>>

MappingOf(mappings, relation) ==
    IF relation.table \in DOMAIN mappings THEN mappings[relation.table] ELSE <<>>

\* Every column of the table is reviewed, companions apart, and its view has SQL.
RelationGenerates(policy, catalog, role, relation, viewSchema, mappings) ==
    LET mapping == MappingOf(mappings, relation)
        columns == ColumnsOf(relation)
    IN  /\ columns \ Range(mapping) \subseteq DOMAIN catalog
        /\ SqlGenerates(SqlPlan(policy, catalog, role, columns, mapping), columns, mapping,
                        SourceName(relation), ViewName(relation, viewSchema))

\* generate_dbt_views returns: the views of all relations, or none.
DbtGenerates(policy, catalog, role, rels, viewSchema, mappings) ==
    /\ DOMAIN mappings \subseteq {rels[i].table : i \in 1..Len(rels)}
    /\ \A i, j \in 1..Len(rels) :
        ViewName(rels[i], viewSchema) = ViewName(rels[j], viewSchema) => i = j
    /\ \A i \in 1..Len(rels) :
        RelationGenerates(policy, catalog, role, rels[i], viewSchema, mappings)

\* colgov dbt-views prints SQL.
DbtViews(policy, catalog, role, nodes, viewSchema, mappings) ==
    /\ LoadsDbt(nodes)
    /\ DbtGenerates(policy, catalog, role, Relations(nodes), viewSchema, mappings)
-----------------------------------------------------------------------------
(* Properties of the views of one policy and catalog. *)

\* sql-view ("the raw column is never used for that treatment", sql.py:40) shows
\* what Policy.apply shows of the same table: under each name the raw column
\* exactly if the role sees it in clear, its own companion, of strings, exactly if
\* the role sees tokens, and no companion under a name of its own.
SqlShowsTheView(policy, catalog, role, physical, strings, mapping) ==
    LET plan == SqlPlan(policy, catalog, role, physical, mapping)
        selected == Select(plan, mapping)
        tokens == {s \in selected : s.column # s.name}
        shown == {[shows |-> IF s \in tokens THEN "token" ELSE "raw", name |-> s.name] :
                      s \in selected}
    IN  SqlView(plan, physical, strings, mapping, "source", "view") =>
            /\ shown = Built(Plan(policy, catalog, role, physical \ Range(mapping)))
            /\ \A s \in tokens : s.column = mapping[s.name] /\ s.column \in strings

\* dbt-views prints SQL only if somebody reviewed every column that a table
\* really has, companions apart ("so undocumented manifest columns are not
\* missed", dbt.py:52); and running that SQL touches no source table of any
\* relation and creates no view twice.
DbtViewsAreSafe(policy, catalog, role, nodes, viewSchema, mappings) ==
    LET rels == Relations(nodes)
    IN  DbtViews(policy, catalog, role, nodes, viewSchema, mappings) =>
            /\ \A i \in 1..Len(rels) :
                rels[i].physical \ Range(MappingOf(mappings, rels[i])) \subseteq DOMAIN catalog
            /\ \A i, j \in 1..Len(rels) :
                /\ ViewName(rels[i], viewSchema) # SourceName(rels[j])
                /\ i # j => ViewName(rels[i], viewSchema) # ViewName(rels[j], viewSchema)
=============================================================================
