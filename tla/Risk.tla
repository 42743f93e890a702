-------------------------------- MODULE Risk --------------------------------
(***************************************************************************)
(* When a column is too predictable to tokenize.  colgov measures this in  *)
(* four ways: exactly (column_risk, and Spark's aggregations), with a      *)
(* table of frequencies (profile_columns), and, for columns that need not  *)
(* fit in memory, with a count that stops early (apply and report of the   *)
(* command line).  A column is a sequence of values and nulls.             *)
(***************************************************************************)
EXTENDS Naturals, FiniteSetsExt, SequencesExt

CONSTANTS
    Value,      \* the plaintexts
    Null        \* a missing value

ASSUME NullAssumption == Null \notin Value

NonNull(col) == {i \in 1..Len(col) : col[i] # Null}
Distinct(col) == {col[i] : i \in NonNull(col)}
Frequency(col, v) == Cardinality({i \in 1..Len(col) : col[i] = v})

\* top_share is top over the rows that are not null.
Profile(rows, nulls, frequency) ==
    LET seen == {v \in DOMAIN frequency : frequency[v] > 0}
        sizes == {frequency[v] : v \in seen}
    IN  [n_rows |-> rows, n_null |-> nulls, n_distinct |-> Cardinality(seen),
         min_frequency |-> IF sizes = {} THEN 0 ELSE Min(sizes),
         top |-> IF sizes = {} THEN 0 ELSE Max(sizes)]

\* column_risk, and _small_column_risk of Spark.
ColumnRisk(col) ==
    Profile(Len(col), Len(col) - Cardinality(NonNull(col)),
            [v \in Distinct(col) |-> Frequency(col, v)])

NonNullRows(risk) == risk.n_rows - risk.n_null

IsLowCardinality(risk, min) == NonNullRows(risk) > 0 /\ risk.n_distinct < min

\* _check_cardinality of Spark, from one countDistinct.
SparkRefuses(col, min) ==
    LET n == Cardinality(Distinct(col)) IN 0 < n /\ n < min

\* profile_columns: one row of the frequencies table per (keyed) value.
Upsert(table, v) == IF v = Null THEN table ELSE [table EXCEPT ![v] = @ + 1]

ProfileColumn(col) ==
    LET nulls == Cardinality({i \in 1..Len(col) : col[i] = Null})
    IN  Profile(Len(col), nulls, FoldLeft(Upsert, [v \in Value |-> 0], col))

\* A share of 1 and a frequency of 1 forbid nothing: the defaults of RiskThresholds.
NoShare == [num |-> 1, den |-> 1]
OnlyDistinct(min) == [min_distinct |-> min, max_top_share |-> NoShare, min_frequency |-> 1]

RiskViolations(risk, limit) ==
    IF NonNullRows(risk) = 0 THEN {}
    ELSE {f \in {"distinct", "top share", "minimum frequency"} :
            \/ f = "distinct" /\ risk.n_distinct < limit.min_distinct
            \/ f = "top share"
               /\ risk.top * limit.max_top_share.den > NonNullRows(risk) * limit.max_top_share.num
            \/ f = "minimum frequency" /\ risk.min_frequency < limit.min_frequency}

\* colgov risk-check finds fault with the column.
RiskCheckFails(col, limit) == RiskViolations(ProfileColumn(col), limit) # {}
-----------------------------------------------------------------------------
(* The bounded count of _check_rows_and_cardinality and cmd_report.         *)

EmptyCount == [open |-> TRUE, nulls |-> 0, counts |-> [v \in Value |-> 0]]

Counted(count) == {v \in Value : count.counts[v] > 0}

\* Mutant: the column stays open until it has more than min values.
CountRowLate(count, v, min) ==
    IF v = Null THEN [count EXCEPT !.nulls = @ + 1]
    ELSE IF ~count.open THEN count
    ELSE LET next == [count EXCEPT !.counts[v] = @ + 1]
         IN  [next EXCEPT !.open = Cardinality(Counted(next)) <= min]

\* Nulls are counted to the end; values only while the column is open.
CountRow(count, v, min) ==
    IF v = Null THEN [count EXCEPT !.nulls = @ + 1]
    ELSE IF ~count.open THEN count
    ELSE LET next == [count EXCEPT !.counts[v] = @ + 1]
         IN  [next EXCEPT !.open = Cardinality(Counted(next)) < min]

BoundedCount(col, min) ==
    FoldLeft(LAMBDA count, v : CountRow(count, v, min), EmptyCount, col)

\* The streaming check of cmd_apply raises LowCardinalityError with this profile.
BoundedRefuses(count) == count.open /\ Counted(count) # {}
BoundedProfile(col, count) == Profile(Len(col), count.nulls, count.counts)

\* What cmd_report prints of a column.
Report(col, min) ==
    LET count == BoundedCount(col, min)
        distinct == Cardinality(Counted(count))
    IN  [non_null |-> Len(col) - count.nulls,
         distinct |-> IF count.open THEN distinct ELSE 0,
         distinct_at_least |-> distinct,
         low_cardinality |-> Len(col) - count.nulls > 0 /\ count.open]
-----------------------------------------------------------------------------
(* Properties of a column. *)

\* Wherever a column is checked (by tokenize_column, pandas or polars, Spark,
\* apply, report, or risk-check with no limit but the distinct one), the answer
\* is the same: refuse it if it holds values but fewer than min distinct ones.
SameVerdict(col, min) ==
    LET verdict == IsLowCardinality(ColumnRisk(col), min)
    IN  /\ SparkRefuses(col, min) = verdict
        /\ BoundedRefuses(BoundedCount(col, min)) = verdict
        /\ RiskCheckFails(col, OnlyDistinct(min)) = verdict
        /\ Report(col, min).low_cardinality = verdict

\* A column that never reached min distinct values was counted in full, so the
\* profile in the error is the exact one (cli.py:822-824); until it does, no more than
\* min values are held.
BoundedIsExact(col, min) ==
    LET count == BoundedCount(col, min)
    IN  /\ Cardinality(Counted(count)) <= min
        /\ BoundedRefuses(count) => BoundedProfile(col, count) = ColumnRisk(col)
        /\ ProfileColumn(col) = ColumnRisk(col)
=============================================================================
