-------------------------------- MODULE MCRID --------------------------------
(***************************************************************************)
(* A small instance of RID for TLC.                                        *)
(***************************************************************************)
EXTENDS RID

CONSTANTS u1, w1, w2, i1, s1, s2, a, b, c, p

Req(cells, start, end) == [cells |-> cells, start |-> start, end |-> end]

\* ISAs of now and of later, on one side and on both
MCISAExtents == {Req({a}, None, 1), Req({b, c}, 1, 2)}

\* A subscription that ends soon, and one that begins later and has no end
MCSubExtents == {Req({a}, None, 1), Req({a, b}, 1, None)}

\* a, b and c are all the cells of p
Siblings == [x \in {p} |-> {a, b, c}]
=============================================================================
