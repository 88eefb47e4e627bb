------------------------------- MODULE Totals -------------------------------
(* The sum of a column, in two forms: by counting, where a row that says n   *)
(* stands for the units <<row, 1>> to <<row, n>> and the sum is the number   *)
(* of units; and row after row, of amounts that may be negative.             *)
EXTENDS Integers, FiniteSets

\* The units of the rows of f, none of which says more than max.
UnitsOf(f, max) == {u \in (DOMAIN f) \X (1 .. max) : u[2] <= f[u[1]]}

Total(f, max) == Cardinality(UnitsOf(f, max))

Pick(rows) == CHOOSE s \in rows : TRUE

SumOver(f, rows) ==
    LET sum[S \in SUBSET rows] == IF S = {} THEN 0 ELSE f[Pick(S)] + sum[S \ {Pick(S)}]
    IN sum[rows]

Sum(f) == SumOver(f, DOMAIN f)
=============================================================================
