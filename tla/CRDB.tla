--------------------------------- MODULE CRDB ---------------------------------
(***************************************************************************)
(* What the stores assume of CockroachDB's SQL.                            *)
(***************************************************************************)
EXTENDS Integers, FiniteSets

CONSTANTS
    MaxResultLimit, \* LIMIT of the searches
    None            \* an absent row, NULL, an omitted parameter

ASSUME LimitAssumption == MaxResultLimit \in Nat

\* The sets of rows that SELECT ... LIMIT may return of the ones that match
Limited(matching) ==
    IF Cardinality(matching) <= MaxResultLimit
    THEN {matching}
    ELSE {S \in SUBSET matching : Cardinality(S) = MaxResultLimit}

\* x = y in a WHERE clause: not true as soon as one side is NULL
SQLEqual(x, y) == x # None /\ y # None /\ x = y

=============================================================================
