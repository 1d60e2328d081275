--------------------------------- MODULE Vol4 ---------------------------------
(***************************************************************************)
(* Volumes of monitorlib/scd.py.  A volume has times t0..t1, altitudes     *)
(* z0..z1 (metres) and an outline, flattened to one axis: a polygon from   *)
(* x0 to x1, or a circle of radius r around x0 whose width in degrees of   *)
(* longitude is s times its height, s growing with the latitude (for a     *)
(* polygon r is 0; for a circle x1 is not used).                           *)
(***************************************************************************)
EXTENDS Integers, FiniteSetsExt, SequencesExt

Volume4D ==
    [shape : {"polygon", "circle"}, x0 : Int, x1 : Int, r : Nat, s : Nat,
     z0 : Int, z1 : Int, t0 : Int, t1 : Int]

Circle(v) == v.shape = "circle"

\* The outline as shapely sees it
West(v) == IF Circle(v) THEN v.x0 - v.s * v.r ELSE v.x0
East(v) == IF Circle(v) THEN v.x0 + v.s * v.r ELSE v.x1

start_of(vols) == Min({v.t0 : v \in Range(vols)})
end_of(vols)   == Max({v.t1 : v \in Range(vols)})

meter_altitude_bounds_of(vols) ==
    <<Min({v.z0 : v \in Range(vols)}), Max({v.z1 : v \in Range(vols)})>>

\* The width of a circle is divided by the cosine of its angular radius, in
\* place of its latitude: as if s were 1.
rect_bounds_of(vols) ==
    <<Min({v.x0 - v.r : v \in Range(vols)}),
      Max({IF Circle(v) THEN v.x0 + v.r ELSE v.x1 : v \in Range(vols)})>>

\* make_vol4 of the four bounds, as the handlers do before a search
bounding_vol4(vols) ==
    LET rect == rect_bounds_of(vols)
        alts == meter_altitude_bounds_of(vols)
    IN  [shape |-> "polygon", x0 |-> rect[1], x1 |-> rect[2], r |-> 0, s |-> 1,
         z0 |-> alts[1], z1 |-> alts[2],
         t0 |-> start_of(vols), t1 |-> end_of(vols)]

\* Volumes that touch overlap
OverlapInTimeAndAltitude(v, w) ==
    /\ v.t1 >= w.t0 /\ v.t0 <= w.t1
    /\ v.z1 >= w.z0 /\ v.z0 <= w.z1

Overlap(v, w) ==
    OverlapInTimeAndAltitude(v, w) /\ East(v) >= West(w) /\ West(v) <= East(w)

AnyOverlap(vols, others) == \E v \in Range(vols), w \in Range(others) : Overlap(v, w)

\* The branch for a polygon in the second place asks whether the first is one
vol4_intersect(v, w) ==
    IF OverlapInTimeAndAltitude(v, w) /\ Circle(v) /\ ~Circle(w) THEN "ValueError"
    ELSE IF Overlap(v, w) THEN "True" ELSE "False"

\* The first pair that decides
vol4s_intersect(vols, others) ==
    LET deciding == {p \in (DOMAIN vols) \X (DOMAIN others) :
                        vol4_intersect(vols[p[1]], others[p[2]]) # "False"}
        first == CHOOSE p \in deciding : \A q \in deciding :
                    p[1] < q[1] \/ (p[1] = q[1] /\ p[2] <= q[2])
    IN  IF deciding = {} THEN "False" ELSE vol4_intersect(vols[first[1]], others[first[2]])

=============================================================================
