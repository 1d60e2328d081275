------------------------------- MODULE Airspace -------------------------------
(***************************************************************************)
(* What strategic coordination promises: the flights planned by the USSs   *)
(* that coordinate never conflict with what was planned before them.       *)
(* The Others plan as they like, and what conflicts is for Conflicts to    *)
(* say.                                                                    *)
(***************************************************************************)
CONSTANTS
    PlanIDs,
    Coordinated,          \* the USSs that keep the promise
    Others,               \* the USSs that do not
    Intents,              \* what a plan may ask for
    Conflicts(_, _),      \* the first may not be planned while the second is
    None

VARIABLE plans            \* [PlanIDs -> [manager, intent] or None]

Plans == {p \in PlanIDs : plans[p] # None}

AirspaceInit == plans = [p \in PlanIDs |-> None]

\* A coordinated plan comes in only where it conflicts with none there is
Plan(p, uss, intent) ==
    /\ plans[p] = None
    /\ \A q \in Plans : ~Conflicts(intent, plans[q].intent)
    /\ plans' = [plans EXCEPT ![p] = [manager |-> uss, intent |-> intent]]

\* A plan is never changed, only removed
Withdraw(p) ==
    /\ plans[p] # None
    /\ plans' = [plans EXCEPT ![p] = None]

\* Whatever others do, they leave the coordinated plans alone
PlanElsewhere(p, plan) ==
    /\ plans[p] # None => plans[p].manager \in Others
    /\ plans' = [plans EXCEPT ![p] = plan]

AirspaceNext ==
    \/ \E p \in PlanIDs, uss \in Coordinated, intent \in Intents : Plan(p, uss, intent)
    \/ \E p \in PlanIDs : Withdraw(p)
    \/ \E p \in PlanIDs, plan \in [manager : Others, intent : Intents] \cup {None} :
            PlanElsewhere(p, plan)

AirspaceSpec == AirspaceInit /\ [][AirspaceNext]_plans

=============================================================================
