------------------------------ MODULE MCMockSCD -------------------------------
(***************************************************************************)
(* Small instances of MockSCD for TLC.                                     *)
(***************************************************************************)
EXTENDS MockSCD, TLC

CONSTANTS a, b, x, f1, o1, o2, o3, r1, r2

Polygon(x0, x1, t0, t1) ==
    [shape |-> "polygon", x0 |-> x0, x1 |-> x1, r |-> 0, s |-> 1,
     z0 |-> 0, z1 |-> 1, t0 |-> t0, t1 |-> t1]

Round(x0, r, s) ==
    [shape |-> "circle", x0 |-> x0, x1 |-> x0, r |-> r, s |-> s,
     z0 |-> 1, z1 |-> 2, t0 |-> 0, t1 |-> 2]

Intent(volumes, priority, state, invalid) ==
    [volumes |-> volumes, off_nominal_volumes |-> <<>>, priority |-> priority,
     state |-> state, invalid_fields |-> invalid]

\* A circle, with bounds that are too narrow, two volumes that it touches, of
\* a higher priority, one of these out of conformance, and a request whose
\* authorisation is not valid
MCIntents == {Intent(<<Round(4, 1, 2)>>, 0, "Accepted", {}),
              Intent(<<Polygon(0, 1, 0, 1), Polygon(2, 2, 1, 2)>>, 1, "Activated", {}),
              Intent(<<Polygon(2, 2, 1, 2)>>, 1, "Nonconforming", {}),
              Intent(<<Polygon(0, 1, 0, 1)>>, 0, "Accepted", {"endurance"})}

MCAreas == {Polygon(0, 4, 0, 2)}

Symmetry == Permutations(MockUSSs) \cup Permutations(OpIDs) \cup Permutations(Requests)
=============================================================================
