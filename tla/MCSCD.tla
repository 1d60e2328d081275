-------------------------------- MODULE MCSCD --------------------------------
(***************************************************************************)
(* Small instances of SCD for TLC.                                         *)
(***************************************************************************)
EXTENDS SCD, TLC

CONSTANTS u1, u2, o1, o2, c1, s1, s2, a, b, c, d, p

Vol(cells, lo, hi, start, end) ==
    [cells |-> cells, altLo |-> lo, altHi |-> hi, start |-> start, end |-> end]

\* One volume in a cell, one over both cells that is higher and later: they
\* overlap, touch in altitude and time, and neither contains the other
MCExtents == {Vol({a}, 0, 1, 0, 2), Vol({a, b}, 1, 2, 1, 3)}

\* A start or an end the client leaves out is chosen by the DSS; the first one
\* is clear of the first volume
MCSubExtents == {Vol({b}, 0, 2, None, 3), Vol({a, b}, 0, 2, 0, None)}

\* A subscription that begins when the second volume ends and is clear of the
\* first, and one without cells
EdgeSubExtents ==
    {Vol({b}, 0, 2, 3, None), Vol({}, 0, 2, None, 3)}

OpsOnly == {<<TRUE, FALSE>>}
AllTriggers == {<<TRUE, FALSE>>, <<FALSE, TRUE>>, <<TRUE, TRUE>>}
Planned == {"Accepted"}
PlannedOrOff == {"Accepted", "Nonconforming"}

Symmetry ==
    Permutations(Managers) \cup Permutations(OpIDs) \cup Permutations(SubIDs)

\* The two cells are all the children of p, so a union that has both becomes p
ABChildren == [x \in {p} |-> {a, b}]

NoParents == {}
NoChildren == [x \in {} |-> {}]
=============================================================================
