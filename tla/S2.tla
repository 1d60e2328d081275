---------------------------------- MODULE S2 ----------------------------------
(***************************************************************************)
(* The operations of the S2 library (github.com/golang/geo/s2) that the    *)
(* DSS uses on coverings.  All requests are covered with cells of one      *)
(* level, 13 (pkg/geo/s2.go); a union may bring in coarser cells.          *)
(***************************************************************************)

CONSTANTS
    Cells,      \* cells of level 13
    Parents,    \* coarser cells that stand for several of them
    Children    \* the level-13 cells of each coarser cell

ASSUME CellsAssumption ==
    /\ Cells \cap Parents = {}
    /\ Children \in [Parents -> SUBSET Cells]

\* CellUnion.Normalize: siblings that are all present are replaced by their parent
Normalize(cells) ==
    LET whole == {p \in Parents : Children[p] \subseteq cells \/ p \in cells}
    IN  (cells \ UNION {Children[p] : p \in whole}) \cup whole

CellUnionFromUnion(cells1, cells2) == Normalize(cells1 \cup cells2)

\* The level-13 cells that a covering stands for
Region(cells) ==
    {c \in Cells : c \in cells \/ \E p \in Parents \cap cells : c \in Children[p]}

Contains(cells1, cells2) == cells2 \subseteq Region(cells1)

\* Mutant: a normalized union is left as it is
LeaveNormalized(cells) == cells

\* geo.Levelify: CellUnion.Denormalize, back to level 13
Levelify(cells) == Region(cells)

=============================================================================
