---------------------------- MODULE MCProjections ----------------------------
EXTENDS Projections, TLC
CONSTANTS r1, r2, c1
MCVersions == {r1, r2}
MCIds == {c1}
MCSnapshot(v) == IF v = r1 THEN {c1} ELSE {}

\* Every caller of the repository leaves apply_cleanup FALSE.
Usual == [activate |-> TRUE, dbt |-> TRUE, aged |-> TRUE, cleans |-> FALSE]
MCOptions == {Usual, [Usual EXCEPT !.activate = FALSE], [Usual EXCEPT !.dbt = FALSE, !.aged = FALSE]}
\* Only loads, one after the other.
MCNoOptions == {}
MCTools == Permutations(Tools)
=============================================================================
