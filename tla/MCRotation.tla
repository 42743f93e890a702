----------------------------- MODULE MCRotation -----------------------------
(* Rotation on a small instance: three keys, two of which share an id, two  *)
(* token domains, and columns of two and three rows.                        *)
EXTENDS Rotation, TLC

CONSTANTS k1, k2, k3, a, b, v1, v2, email, contact

MCIdOf == [k \in Key |-> IF k = k2 THEN b ELSE a]

Share(num, den) == [num |-> num, den |-> den]
MCLimits == {OnlyDistinct(2),
             [min_distinct |-> 1, max_top_share |-> Share(1, 2), min_frequency |-> 1]}

\* Tokens of the first key in both formats, and a text that only looks like one.
FirstTokens ==
    {t \in Token : /\ t.format # 0 => t.key = FirstKey /\ t.value # Null
                   /\ t.format = 0 => t.key = NoKey /\ t.value = Null /\ t.domain = email
                   /\ t.head \in (CASE t.format = 2 -> {IdOf[FirstKey]}
                                    [] t.format = 1 -> {StrayId}
                                    [] OTHER -> {a, b})}

\* A token in today's format, of either domain, beside any token of the column's domain.
MCFirstColumns == {col \in [1..2 -> FirstTokens] : col[1].format = 2 /\ col[2].domain = email}
\* All different, nulls among values or alone, and one value more frequent than another.
MCRawColumns == {<<v1, v2>>, <<v2, v1>>, <<v1, Null>>, <<v2, Null>>, <<Null, Null>>,
                 <<v1, v1, v2>>, <<v2, v2, v1>>}
Symmetry == Permutations(Session) \union Permutations(Value)
=============================================================================
