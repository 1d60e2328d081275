------------------------------ MODULE MCQualifier ------------------------------
(* Two planners; the suites of the repository cut down to one generator of  *)
(* each kind, and resources that form a chain, a cycle, miss one, or cannot *)
(* be made.                                                                 *)
EXTENDS Qualifier

MCPlanners == <<"uss1", "uss2">>
AnyPlanners == [must_include |-> {}, maximum_roles |-> <<>>]
OneRoleEach == [must_include |-> {}, maximum_roles |-> [p \in PlannerSet |-> 1]]
WithUss1 == [must_include |-> {"uss1"}, maximum_roles |-> [p \in {"uss2"} |-> 1]]

Scenario(type, reaction) == [kind |-> "scenario", type |-> type, planners |-> <<>>, on_failure |-> reaction]
Generator(type, roles, selector, reaction) ==
    [kind |-> "combinations", action |-> Scenario(type, reaction), roles |-> roles,
     selector |-> selector, on_failure |-> "Continue"]
Suite(actions) == [kind |-> "suite", actions |-> actions, on_failure |-> "Continue"]

F3548 == Suite(<<Generator("NominalPlanning", 2, OneRoleEach, "Continue"),
                 Generator("NominalPlanningPriority", 2, OneRoleEach, "Continue")>>)
FlightAuth == Suite(<<Suite(<<Generator("NominalPlanning", 2, WithUss1, "Abort")>>),
                      Generator("Validation", 1, AnyPlanners, "Continue")>>)
UFT == Suite(<<Scenario("StartMessageSigningReport", "Abort"),
               [kind |-> "repeat", times |-> 2, action |-> Scenario("RecordPlanners", "Continue"),
                on_failure |-> "Continue"],
               Generator("NominalPlanning", 2, AnyPlanners, "Continue"),
               Scenario("FinalizeMessageSigningReport", "Continue")>>)
MCSuites == {F3548, FlightAuth, UFT}

\* The actions of the suites, and theirs: no suite is deeper than three levels
Unfolded(S) == S \cup UNION {ToSet(Actions(n)) : n \in {m \in S : m.kind # "scenario"}}
MCNodes == Unfolded(Unfolded(Unfolded(MCSuites)))

Needing(name, needs) == [name |-> name, needs |-> needs, valid |-> TRUE]
MCDeclarations == {
    <<Needing("dss", {"auth"}), Needing("planners", {"auth"}), Needing("auth", {})>>,
    <<Needing("auth", {}), Needing("dss", {"planners"}), Needing("planners", {"dss"})>>,
    <<Needing("dss", {"planners"}), Needing("planners", {"auth"})>>,
    <<Needing("dss", {"auth"}), [Needing("planners", {}) EXCEPT !.valid = FALSE], Needing("auth", {})>>}
=============================================================================
