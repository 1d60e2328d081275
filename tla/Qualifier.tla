------------------------------- MODULE Qualifier -------------------------------
(***************************************************************************)
(* uss_qualifier: the resources of a test run, the tree of test suites,    *)
(* action generators and test scenarios it executes, the phases a scenario *)
(* goes through, and the flight planning scenarios.                        *)
(*                                                                         *)
(* A scenario's run() is a script: the calls it makes in order, each with  *)
(* what can come of it.  The flight planners under test, and the DSS, may  *)
(* answer a call wrongly or not at all; a result names those at fault, and *)
(* apart from them the participants that the failed check names.           *)
(***************************************************************************)
EXTENDS Integers, Sequences, FiniteSets, FiniteSetsExt, SequencesExt

CONSTANTS
    Planners,      \* sequence of flight planners of the flight_planners resource
    Suites,        \* the test suites one of which is run
    Nodes,         \* the suites, generators and scenarios in them, at any depth
    Declarations,  \* possible resource declarations: sequences of [name, needs, valid]
    Invalid,       \* flight intents of Validation with an invalid authorisation
    MaxFaults,     \* bound: faulty answers
    None           \* no value; as a participant, one that is not a flight planner

PlannerSet == ToSet(Planners)

ASSUME ConstantsAssumption ==
    /\ MaxFaults \in Nat /\ Invalid \in Nat \ {0}
    /\ Planners \in Seq(PlannerSet) /\ Len(Planners) > 0 /\ IsInjective(Planners)
    /\ None \notin Nodes /\ None \notin BOOLEAN /\ None # {}

ASSUME NoneAssumption == None \notin PlannerSet

\* Resources are declared in a dictionary, so that no name occurs twice
ASSUME DeclarationsAssumption ==
    \A d \in Declarations :
        /\ d \in Seq(ToSet(d))
        /\ \A i, j \in DOMAIN d : d[i].name = d[j].name => i = j
        /\ \A i \in DOMAIN d : d[i].valid \in BOOLEAN

VARIABLES
    stage,         \* "resources", "run", "done" or "failed"
    declared, pool, scan, made,   \* create_resources: where the pass is, and whether it made any
    suite, stack,  \* the suite, and the action lists being executed
    verdict,       \* successful of the suite's report
    node, script,  \* the scenario that runs, and the calls left of its run()
    phase, report, known,         \* its _phase, report and the planners that told their capabilities
    sweep, to_remove,             \* cleanup_flights
    created,       \* [planner -> its created_flight_ids]
    flights,       \* [planner -> the flights it really holds]
    ids, faults,   \* flights requested, faulty answers so far
    hidden,        \* history: flights kept by a planner that denied planning or keeping them
    log            \* the scenarios' reports, with a history of what they met

setup == <<declared, pool, scan, made>>
tree == <<suite, stack, verdict>>
scenario == <<node, script, phase, report, known, sweep, to_remove>>
world == <<created, flights, ids, faults, hidden>>
vars == <<stage, setup, tree, scenario, world, log>>

(***************************************************************************)
(* create_resources: passes over the declarations, each making what has    *)
(* its dependencies, until one makes nothing                               *)
(***************************************************************************)
Names == {declared[i].name : i \in DOMAIN declared}

\* Mutant: one pass is thought to be enough
EndPassOnce ==
    /\ stage = "resources" /\ scan > Len(declared)
    /\ stage' = IF pool = Names THEN "run" ELSE "failed"
    /\ UNCHANGED <<setup, tree, scenario, world, log>>

\* _make_resource raises for a type or specification that is not valid, or
\* when the constructor has an argument that no dependency is declared for
MakeResource ==
    /\ stage = "resources" /\ scan <= Len(declared)
    /\ LET d == declared[scan]
           ready == d.name \notin pool /\ d.needs \subseteq pool
       IN IF ready /\ ~d.valid THEN stage' = "failed" /\ UNCHANGED <<pool, scan, made>>
          ELSE /\ pool' = IF ready THEN pool \cup {d.name} ELSE pool
               /\ made' = (made \/ ready)
               /\ scan' = scan + 1
               /\ UNCHANGED stage
    /\ UNCHANGED <<declared, tree, scenario, world, log>>

EndPass ==
    /\ stage = "resources" /\ scan > Len(declared)
    /\ IF made THEN scan' = 1 /\ made' = FALSE /\ UNCHANGED stage
       ELSE stage' = (IF pool = Names THEN "run" ELSE "failed") /\ UNCHANGED <<scan, made>>
    /\ UNCHANGED <<declared, pool, tree, scenario, world, log>>

(***************************************************************************)
(* FlightPlannerCombinations: an odometer over the role assignments        *)
(***************************************************************************)
is_valid_combination(participants, selector) ==
    /\ selector.must_include \subseteq ToSet(participants)
    /\ \A p \in DOMAIN selector.maximum_roles :
          Cardinality({r \in DOMAIN participants : participants[r] = p}) <= selector.maximum_roles[p]

\* Mutant: a role that overflows is not set back
IncrementCarry(a) ==
    LET i == Max({j \in DOMAIN a : a[j] < Len(Planners)})
    IN [a EXCEPT ![i] = @ + 1]

\* The last role that can advance does, and those after it start again
Increment(a) ==
    LET i == Max({j \in DOMAIN a : a[j] < Len(Planners)})
    IN [j \in DOMAIN a |-> IF j < i THEN a[j] ELSE IF j = i THEN a[j] + 1 ELSE 1]

make_subset(a) == [j \in DOMAIN a |-> Planners[a[j]]]

Selected(a, selector) ==
    IF is_valid_combination(make_subset(a), selector) THEN <<make_subset(a)>> ELSE <<>>

\* The combinations that come from each role assignment on
CombinationsFrom(n, selector) ==
    LET From[a \in [1..n -> 1..Len(Planners)]] ==
            Selected(a, selector)
            \o (IF \A j \in 1..n : a[j] = Len(Planners) THEN <<>> ELSE From[Increment(a)])
    IN From

Combinations(n, selector) == CombinationsFrom(n, selector)[[j \in 1..n |-> 1]]

\* The actions of a list: those declared, or one for each repetition or combination
Actions(n) ==
    CASE n.kind = "suite" -> n.actions
      [] n.kind = "repeat" -> [i \in 1..n.times |-> n.action]
      [] n.kind = "combinations" ->
            LET c == Combinations(n.roles, n.selector)
            IN [i \in DOMAIN c |-> [n.action EXCEPT !.planners = c[i]]]

\* The planners a scenario takes
Roles == [NominalPlanning |-> 2, NominalPlanningPriority |-> 2, Validation |-> 1, RecordPlanners |-> 0,
          StartMessageSigningReport |-> 0, FinalizeMessageSigningReport |-> 0]

ASSUME NodesAssumption ==
    /\ \A s \in Suites : s \in Nodes /\ s.kind = "suite"
    /\ \A n \in Nodes :
          IF n.kind = "scenario"
          THEN n.type \in DOMAIN Roles /\ n.planners \in Seq(PlannerSet) /\ Len(n.planners) = Roles[n.type]
          ELSE Actions(n) \in Seq(Nodes) /\ (n.kind = "combinations" => n.roles \in Nat)

\* A suite is built down to its scenarios before it runs: none is within itself
ASSUME NestingAssumption ==
    \A S \in SUBSET {n \in Nodes : n.kind # "scenario"} :
        S # {} => \E n \in S : ToSet(Actions(n)) \cap S = {}

(***************************************************************************)
(* What the calls of a scenario can come to                                *)
(***************************************************************************)
\* A result: the participants at fault (None: the DSS or mock_uss), the severity
\* of the failed check and the planners it names, how the script goes on ("next",
\* "stop": run() returns, "leave": the test step's helper returns False and is not
\* heeded, "raise"), what it does to the planner
Result(fault, failed, blamed, then, effect) ==
    [fault |-> fault, failed |-> failed, blamed |-> blamed, then |-> then, effect |-> effect]

Ok(effect) == Result({}, {}, {}, "next", effect)
Raised(fault, effect) == Result(fault, {}, {}, "raise", effect)
Wrong(u, severity, then, effect) == Result({u}, {severity}, {u}, then, effect)

\* A wrong answer that no check tells from a right one
Unnoticed(u, effect) == Result({u}, {}, {}, "next", effect)

\* get_target_information of check_capabilities: a planner that does not answer
\* is left out
information(u) == {Ok("know"), Wrong(u, "Medium", "next", "none"), Raised({u}, "none")}

\* ... and then looked for, to an IndexError
support(u) ==
    IF u \notin known THEN {Raised({}, "none")}
    ELSE {Ok("none"), Wrong(u, "High", "stop", "none")}

prerequisite(u) ==
    IF u \notin known THEN {Raised({}, "none")}
    ELSE {Ok("none"), Result({}, {}, {}, "stop", "none")}

\* A planner is believed to have cleared the area when it says so
clear_area(u) ==
    {Ok("clear"), Unnoticed(u, "none"), Wrong(u, "High", "stop", "none"), Raised({u}, "none")}

Occupied == \E u \in PlannerSet : flights[u] # {}

\* create_flight raises for any answer but a 200, the flight may have been planned
LostAnswer(u) == {Raised({u}, "none"), Raised({u}, "plan_unknown")}

\* inject_successful_flight_intent; a flight of priority needs no free airspace.
\* A planner may claim to have planned, or deny it.
inject_successful_flight_intent(u, priority) ==
    LostAnswer(u) \cup
    {IF priority \/ ~Occupied THEN Ok("plan") ELSE Result({}, {"High"}, {u}, "stop", "none"),
     Unnoticed(u, "claim"), Wrong(u, "High", "stop", "none"), Wrong(u, "High", "stop", "plan_unknown")}

\* The second flight is in conflict with the first, unless that was never planned
attempt_conflicting(u) ==
    LostAnswer(u) \cup
    {IF Occupied THEN Ok("none") ELSE Result({}, {"High"}, {u}, "stop", "plan"),
     Unnoticed(u, "plan_unknown")}
    \cup {Wrong(u, "High", "stop", effect) : effect \in {"none", "plan", "plan_unknown", "claim"}}

attempt_invalid(u) ==
    LostAnswer(u) \cup {Ok("none"), Unnoticed(u, "plan_unknown")}
    \cup {Wrong(u, "Medium", "next", effect) : effect \in {"none", "plan", "plan_unknown", "claim"}}

\* validate_shared_operational_intent: the search of the DSS, and the details.
\* Whoever planned the flight, its checks name scenario.uss1.
uss1 == node.planners[1]

\* Mutant: they name the last planner
FindBlamesLast(u) ==
    {Ok("none"), Raised({None}, "none"), Result({None}, {"High"}, {}, "leave", "none")}
    \cup {Result({p}, {"High"}, {node.planners[Len(node.planners)]}, "leave", "none") : p \in {u, None}}

find_op_intent(u) ==
    {Ok("none"), Raised({None}, "none"), Result({None}, {"High"}, {}, "leave", "none")}
    \cup {Result({p}, {"High"}, {uss1}, "leave", "none") : p \in {u, None}}

get_full_op_intent(u) ==
    {Ok("none"), Raised({u}, "none"), Result({u}, {"High"}, {uss1}, "leave", "none"),
     Result({u}, {"Medium"}, {uss1}, "next", "none")}

get_status == {Ok("none"), Result({None}, {"High"}, {}, "stop", "none"), Raised({None}, "none")}

Results(call) ==
    LET u == call[2] IN
    CASE call[1] = "information" -> information(u)
      [] call[1] = "support" -> support(u)
      [] call[1] = "prerequisite" -> prerequisite(u)
      [] call[1] = "clear_area" -> clear_area(u)
      [] call[1] = "inject" -> inject_successful_flight_intent(u, FALSE)
      [] call[1] = "inject_priority" -> inject_successful_flight_intent(u, TRUE)
      [] call[1] = "attempt_conflicting" -> attempt_conflicting(u)
      [] call[1] = "attempt_invalid" -> attempt_invalid(u)
      [] call[1] = "find_op_intent" -> find_op_intent(u)
      [] call[1] = "get_full_op_intent" -> get_full_op_intent(u)
      [] call[1] = "get_status" -> get_status

(***************************************************************************)
(* The scenarios' run()                                                    *)
(***************************************************************************)
Step(calls) == <<<<"begin_test_step">>>> \o calls \o <<<<"end_test_step">>>>
Case(name, steps) == <<<<"begin_test_case", name>>>> \o steps \o <<<<"end_test_case">>>>
Run(cases) == <<<<"begin_test_scenario">>>> \o cases \o <<<<"end_test_scenario">>>>

Each(call, us) == [i \in DOMAIN us |-> <<call, us[i]>>]

\* all_flight_planners has every planner once; a scenario has one or two
Distinct(us) == IF us = <<us[1], us[1]>> THEN <<us[1]>> ELSE us

check_capabilities(us, prerequisites) ==
    Step(Each("information", Distinct(us)) \o Each("support", us) \o Each("prerequisite", prerequisites))

\* Mutant: only the first planner is cleared
SetupClearsFirst(us, prerequisites) ==
    Case("Setup", check_capabilities(us, prerequisites) \o Step(<<<<"clear_area", us[1]>>>>))

Setup(us, prerequisites) ==
    Case("Setup", check_capabilities(us, prerequisites) \o Step(Each("clear_area", us)))

\* A flight is injected, and looked for in the DSS and at the planner
Planned(call, u) ==
    Step(<<<<call, u>>>>) \o Step(<<<<"find_op_intent", u>>, <<"get_full_op_intent", u>>>>)

NominalPlanning(us) == Run(
    Setup(us, <<>>)
    \o Case("Plan first flight", Planned("inject", us[1]))
    \o Case("Attempt second flight", Step(<<<<"attempt_conflicting", us[2]>>>>)))

NominalPlanningPriority(us) == Run(
    Setup(us, <<us[2]>>)
    \o Case("Plan first flight", Planned("inject", us[1]))
    \o Case("Plan priority flight", Planned("inject_priority", us[2]))
    \o Case("Activate priority flight", <<>>))

\* The test step ends with the first flight intent, inside the loop
attempt_invalid_flights(u) ==
    <<<<"begin_test_step">>>>
    \o [i \in 1..(2 * Invalid) |-> IF i % 2 = 1 THEN <<"attempt_invalid", u>> ELSE <<"end_test_step">>]

Validation(us) == Run(
    Setup(us, <<>>)
    \o Case("Attempt invalid flights", attempt_invalid_flights(us[1]))
    \o Case("Plan valid flight", Step(<<<<"inject", us[1]>>>>)))

RecordPlanners == Run(<<>>)

StartMessageSigningReport == Run(Case("Start message signing",
    Step(<<<<"get_status", None>>>>) \o Step(<<>>)))

FinalizeMessageSigningReport == Run(Case("Finalize message signing", Step(<<>>)))

Script(n) ==
    CASE n.type = "NominalPlanning" -> NominalPlanning(n.planners)
      [] n.type = "NominalPlanningPriority" -> NominalPlanningPriority(n.planners)
      [] n.type = "Validation" -> Validation(n.planners)
      [] n.type = "RecordPlanners" -> RecordPlanners
      [] n.type = "StartMessageSigningReport" -> StartMessageSigningReport
      [] n.type = "FinalizeMessageSigningReport" -> FinalizeMessageSigningReport

\* The scenarios with flights document a cleanup step
HasCleanup(n) == n.planners # <<>>

(***************************************************************************)
(* TestScenario: phases, report and errors                                 *)
(***************************************************************************)
NoReport == [cases |-> {}, failed |-> {}, error |-> FALSE, ended |-> FALSE, faulty |-> {}, blamed |-> {}]
Running == stage = "run" /\ phase # "Complete" /\ node # None
Calls(op) == Running /\ script # <<>> /\ Head(script)[1] = op

\* record_execution_error: the scenario is Complete, without its cleanup
record_execution_error ==
    /\ report' = [report EXCEPT !.error = TRUE]
    /\ phase' = "Complete" /\ script' = <<>>
    /\ UNCHANGED <<known, sweep, to_remove>>

\* A method that expects one of these phases, and goes to another
Method(op, expected, to) ==
    /\ Calls(op)
    /\ IF phase \in expected
       THEN phase' = to /\ script' = Tail(script) /\ UNCHANGED <<report, known, sweep, to_remove>>
       ELSE record_execution_error
    /\ UNCHANGED <<stage, setup, tree, node, world, log>>

begin_test_scenario == Method("begin_test_scenario", {"NotStarted"}, "ReadyForTestCase")
begin_test_step == Method("begin_test_step", {"ReadyForTestStep"}, "RunningTestStep")
end_test_step == Method("end_test_step", {"RunningTestStep"}, "ReadyForTestStep")
end_test_case == Method("end_test_case", {"ReadyForTestStep"}, "ReadyForTestCase")

\* A test case may run only once
begin_test_case ==
    /\ Calls("begin_test_case")
    /\ IF phase = "ReadyForTestCase" /\ Head(script)[2] \notin report.cases
       THEN /\ phase' = "ReadyForTestStep" /\ script' = Tail(script)
            /\ report' = [report EXCEPT !.cases = @ \cup {Head(script)[2]}]
            /\ UNCHANGED <<known, sweep, to_remove>>
       ELSE record_execution_error
    /\ UNCHANGED <<stage, setup, tree, node, world, log>>

end_test_scenario ==
    /\ Calls("end_test_scenario")
    /\ IF phase = "ReadyForTestCase"
       THEN /\ phase' = "ReadyForCleanup" /\ script' = Tail(script)
            /\ report' = [report EXCEPT !.ended = TRUE]
            /\ UNCHANGED <<known, sweep, to_remove>>
       ELSE record_execution_error
    /\ UNCHANGED <<stage, setup, tree, node, world, log>>

(***************************************************************************)
(* A call of a planner or the DSS, with record_query and its check         *)
(***************************************************************************)
Methods == {"begin_test_scenario", "begin_test_case", "begin_test_step",
            "end_test_step", "end_test_case", "end_test_scenario"}

\* request_flight keeps the ID of a planned flight; clear_area keeps them all
Keep(u, r) ==
    /\ created' = IF r.effect \in {"plan", "claim"} THEN [created EXCEPT ![u] = @ \cup {ids}] ELSE created
    /\ flights' = CASE r.effect \in {"plan", "plan_unknown"} -> [flights EXCEPT ![u] = @ \cup {ids}]
                    [] r.effect = "clear" -> [flights EXCEPT ![u] = {}]
                    [] OTHER -> flights
    /\ hidden' = IF r.effect = "plan_unknown" /\ r.failed = {} /\ r.then = "next" THEN hidden \cup {ids} ELSE hidden

\* The rest of the script after the end of this test step, which is left out
AfterStep(s) == SubSeq(s, 1 + Min({i \in DOMAIN s : s[i][1] = "end_test_step"}), Len(s))

Goes(r) ==
    IF r.then = "raise" \/ phase # "RunningTestStep"
    THEN /\ phase' = "Complete" /\ script' = <<>>
         /\ report' = [report EXCEPT !.error = TRUE, !.faulty = @ \cup r.fault]
    ELSE /\ script' = CASE r.then = "next" -> Tail(script)
                        [] r.then = "stop" -> <<>>
                        [] r.then = "leave" -> AfterStep(script)
         /\ report' = [report EXCEPT !.faulty = @ \cup r.fault, !.failed = @ \cup r.failed,
                                     !.blamed = @ \cup r.blamed]
         /\ UNCHANGED phase

Query ==
    /\ Running /\ script # <<>> /\ Head(script)[1] \notin Methods
    /\ LET u == Head(script)[2] IN
       \E r \in Results(Head(script)) :
          /\ r.fault # {} => faults < MaxFaults
          /\ faults' = IF r.fault # {} THEN faults + 1 ELSE faults
          /\ Keep(u, r)
          /\ ids' = IF r.effect \in {"plan", "plan_unknown", "claim"} THEN ids + 1 ELSE ids
          /\ known' = IF r.effect = "know" THEN known \cup {u} ELSE known
          /\ Goes(r)
    /\ UNCHANGED <<stage, setup, tree, node, sweep, to_remove, log>>

(***************************************************************************)
(* Cleanup                                                                 *)
(***************************************************************************)
\* run() has returned: go_to_cleanup, and cleanup() up to its first call.
\* cleanup_flights takes the planners from the last to the first.
go_to_cleanup ==
    /\ Running /\ script = <<>> /\ phase # "CleaningUp"
    /\ IF HasCleanup(node) THEN phase' = "CleaningUp" /\ sweep' = Reverse(node.planners)
       ELSE phase' = "Complete" /\ UNCHANGED sweep
    /\ UNCHANGED <<stage, setup, tree, node, script, report, known, to_remove, world, log>>

\* Mutant: the first planner is left out
CleanupPlannerLast ==
    /\ Running /\ phase = "CleaningUp" /\ to_remove = None /\ sweep # <<>>
    /\ to_remove' = IF Len(sweep) = Len(node.planners) THEN created[Head(sweep)] ELSE {}
    /\ UNCHANGED <<stage, setup, tree, node, script, phase, report, known, sweep, world, log>>

\* The planner's flights are copied ...
CleanupPlanner ==
    /\ Running /\ phase = "CleaningUp" /\ to_remove = None /\ sweep # <<>>
    /\ to_remove' = created[Head(sweep)]
    /\ UNCHANGED <<stage, setup, tree, node, script, phase, report, known, sweep, world, log>>

\* ... and deleted one by one; a planner does not know a flight that is gone
cleanup_flight ==
    /\ Running /\ phase = "CleaningUp" /\ to_remove \notin {None, {}}
    /\ LET u == Head(sweep)
           id == Min(to_remove)
           closed == id \in flights[u]
       IN \/ \* Closed, or rightly not
             /\ flights' = [flights EXCEPT ![u] = @ \ {id}]
             /\ created' = [created EXCEPT ![u] = IF closed THEN @ \ {id} ELSE @]
             /\ report' = IF closed THEN report
                          ELSE [report EXCEPT !.failed = @ \cup {"Medium"}, !.blamed = @ \cup {u}]
             /\ to_remove' = to_remove \ {id}
             /\ UNCHANGED <<faults, phase, hidden>>
          \/ \* Closed, says the planner
             /\ faults < MaxFaults /\ faults' = faults + 1
             /\ created' = [created EXCEPT ![u] = @ \ {id}]
             /\ report' = [report EXCEPT !.faulty = @ \cup {u}]
             /\ to_remove' = to_remove \ {id}
             /\ hidden' = hidden \cup {id}
             /\ UNCHANGED <<flights, phase>>
          \/ \* the planner fails to delete it
             /\ faults < MaxFaults /\ faults' = faults + 1
             /\ report' = [report EXCEPT !.failed = @ \cup {"Medium"}, !.faulty = @ \cup {u},
                                         !.blamed = @ \cup {u}]
             /\ to_remove' = to_remove \ {id}
             /\ UNCHANGED <<flights, created, phase, hidden>>
          \/ \* no answer: the scenario ends
             /\ faults < MaxFaults /\ faults' = faults + 1
             /\ \/ UNCHANGED flights
                \/ flights' = [flights EXCEPT ![u] = @ \ {id}]
             /\ report' = [report EXCEPT !.error = TRUE, !.faulty = @ \cup {u}]
             /\ phase' = "Complete" /\ to_remove' = None
             /\ UNCHANGED <<created, hidden>>
    /\ UNCHANGED <<stage, setup, tree, node, script, known, sweep, ids, log>>

NextPlanner ==
    /\ Running /\ phase = "CleaningUp" /\ to_remove = {}
    /\ sweep' = Tail(sweep) /\ to_remove' = None
    /\ UNCHANGED <<stage, setup, tree, node, script, phase, report, known, world, log>>

end_cleanup ==
    /\ Running /\ phase = "CleaningUp" /\ to_remove = None /\ sweep = <<>>
    /\ phase' = "Complete"
    /\ UNCHANGED <<stage, setup, tree, node, script, report, known, sweep, to_remove, world, log>>

(***************************************************************************)
(* Suites and action generators                                            *)
(***************************************************************************)
Top == stack[Len(stack)]
Idle == stage = "run" /\ node = None

\* Mutant: the report of the last action is the report of the list
AfterLast(frame, ok) ==
    [frame EXCEPT !.ok = ok,
                  !.next = IF ~ok /\ frame.actions[@].on_failure = "Abort"
                           THEN Len(frame.actions) + 1 ELSE @ + 1]

\* An action has ended: the list goes on, unless its failure aborts it
After(frame, ok) ==
    [frame EXCEPT !.ok = @ /\ ok,
                  !.next = IF ~ok /\ frame.actions[@].on_failure = "Abort"
                           THEN Len(frame.actions) + 1 ELSE @ + 1]

RunAction ==
    /\ Idle /\ stack # <<>> /\ Top.next <= Len(Top.actions)
    /\ LET n == Top.actions[Top.next] IN
       IF n.kind = "scenario"
       THEN /\ node' = n /\ script' = Script(n) /\ phase' = "NotStarted"
            /\ report' = NoReport /\ known' = {}
            /\ log' = Append(log, [type |-> n.type, planners |-> n.planners, successful |-> None,
                                   stale |-> {u \in ToSet(n.planners) : created[u] # {}},
                                   crowded |-> \E u \in PlannerSet \ ToSet(n.planners) : flights[u] # {},
                                   faulty |-> {}, blamed |-> {}, ended |-> FALSE])
            /\ UNCHANGED stack
       ELSE /\ stack' = Append(stack, [actions |-> Actions(n), next |-> 1, ok |-> TRUE])
            /\ UNCHANGED <<node, script, phase, report, known, log>>
    /\ UNCHANGED <<stage, setup, suite, verdict, sweep, to_remove, world>>

\* get_report().successful
successful == ~report.error /\ report.failed \subseteq {"Low"}

EndScenario ==
    /\ stage = "run" /\ node # None /\ phase = "Complete"
    /\ log' = [log EXCEPT ![Len(log)].successful = successful,
                          ![Len(log)].faulty = report.faulty, ![Len(log)].blamed = report.blamed,
                          ![Len(log)].ended = report.ended]
    /\ stack' = [stack EXCEPT ![Len(stack)] = After(@, successful)]
    /\ node' = None /\ script' = <<>> /\ phase' = "Undefined" /\ report' = NoReport
    /\ known' = {} /\ sweep' = <<>> /\ to_remove' = None
    /\ UNCHANGED <<stage, setup, suite, verdict, world>>

\* A list has ended, and so has the action of its parent
EndActions ==
    /\ Idle /\ stack # <<>> /\ Top.next > Len(Top.actions)
    /\ IF Len(stack) = 1
       THEN stack' = <<>> /\ verdict' = Top.ok /\ stage' = "done"
       ELSE /\ stack' = [Front(stack) EXCEPT ![Len(stack) - 1] = After(@, Top.ok)]
            /\ UNCHANGED <<verdict, stage>>
    /\ UNCHANGED <<setup, suite, scenario, world, log>>

Init ==
    /\ stage = "resources"
    /\ declared \in Declarations /\ pool = {} /\ scan = 1 /\ made = FALSE
    /\ suite \in Suites
    /\ stack = <<[actions |-> suite.actions, next |-> 1, ok |-> TRUE]>> /\ verdict = None
    /\ node = None /\ script = <<>> /\ phase = "Undefined" /\ report = NoReport
    /\ known = {} /\ sweep = <<>> /\ to_remove = None
    /\ created = [u \in PlannerSet |-> {}] /\ flights = [u \in PlannerSet |-> {}]
    /\ ids = 1 /\ faults = 0 /\ hidden = {} /\ log = <<>>

\* The program has ended
Exit == stage \in {"done", "failed"} /\ UNCHANGED vars

Progress ==
    \/ MakeResource \/ EndPass
    \/ RunAction \/ EndScenario \/ EndActions
    \/ begin_test_scenario \/ begin_test_case \/ begin_test_step
    \/ end_test_step \/ end_test_case \/ end_test_scenario
    \/ Query
    \/ go_to_cleanup \/ CleanupPlanner \/ cleanup_flight \/ NextPlanner \/ end_cleanup

Next == Progress \/ Exit

Spec == Init /\ [][Next]_vars

-----------------------------------------------------------------------------

(***************************************************************************)
(* create_resources gives up only when it has to: it makes all of the      *)
(* resources unless some of them wait for each other, for one that is not  *)
(* declared, or one cannot be made (resource.py:42-119).                   *)
(***************************************************************************)
Needs(r) == UNION {declared[i].needs : i \in {j \in DOMAIN declared : declared[j].name = r}}
Stuck == \E S \in SUBSET Names : S # {} /\ \A r \in S : Needs(r) \cap S # {} \/ ~(Needs(r) \subseteq Names)

ResourcesMade ==
    /\ stage = "failed" => Stuck \/ (\E i \in DOMAIN declared : ~declared[i].valid)
    /\ stage \in {"run", "done"} => pool = Names /\ ~Stuck /\ (\A i \in DOMAIN declared : declared[i].valid)

(***************************************************************************)
(* An action generator runs its action for every assignment of planners to *)
(* roles that the selector admits, and for each only once                  *)
(* (planner_combinations.py:46-120, flight_planners.py:74-99).             *)
(***************************************************************************)
Generators == {stack[i].actions[stack[i].next] : i \in {j \in DOMAIN stack : stack[j].next <= Len(stack[j].actions)}}

CombinationsComplete ==
    \A g \in Generators : g.kind = "combinations" =>
        LET c == Combinations(g.roles, g.selector)
        IN /\ IsInjective(c)
           /\ ToSet(c) = {us \in [1..g.roles -> PlannerSet] : is_valid_combination(us, g.selector)}

(***************************************************************************)
(* The verdict on a suite is sound: it is a success just when every report *)
(* in it is, and then every scenario of every suite and generator in it    *)
(* has run, in order (suite.py:117-126, 164-188, repeat.py:41-50).         *)
(***************************************************************************)
Scenarios[n \in Nodes] ==
    IF n.kind = "scenario" THEN <<<<n.type, n.planners>>>>
    ELSE FlattenSeq([i \in DOMAIN Actions(n) |-> Scenarios[Actions(n)[i]]])

VerdictOfReports == stage = "done" => verdict = (\A i \in DOMAIN log : log[i].successful)

VerdictSound ==
    /\ VerdictOfReports
    /\ stage = "done" /\ verdict =>
          [i \in DOMAIN log |-> <<log[i].type, log[i].planners>>] = Scenarios[suite]

(***************************************************************************)
(* A success says something: when no scenario has failed, every flight     *)
(* that a planner owned up to is gone, wherever scenarios stopped or gave  *)
(* wrong results.  What may be left is a flight whose planner answered     *)
(* 'Rejected' or 'ConflictWithFlight' where that was expected and planned  *)
(* it all the same, or 'Closed' without removing it: no check tells these  *)
(* from right answers (nominal_planning.py:123-144, test_steps.py:253-279, *)
(* flight_planner.py:92-100).  An area falsely said to be cleared, or a    *)
(* flight falsely said to be planned, is no excuse.                        *)
(***************************************************************************)
SuccessIsClean ==
    Idle /\ (\A i \in DOMAIN log : log[i].successful) =>
        \A u \in PlannerSet : created[u] = {} /\ flights[u] \subseteq hidden

(***************************************************************************)
(* A scenario does not fail by itself: an answer to it was wrong, or an    *)
(* earlier scenario left a flight behind.  The exception is Validation     *)
(* with more than one invalid flight intent, which ends its test step      *)
(* inside the loop over them (validation.py:104-134).                      *)
(***************************************************************************)
FailuresJustified ==
    \A i \in DOMAIN log : log[i].successful = FALSE =>
        \/ log[i].faulty # {} \/ log[i].stale # {} \/ log[i].crowded
        \/ log[i].type = "Validation" /\ Invalid > 1

(***************************************************************************)
(* Who is named by a failed check need not be at fault, but only the first *)
(* planner answers for everybody: uss1 is also named for what uss2 or the  *)
(* DSS got wrong (astm/utm/test_steps.py:51-112, called for uss2's flight  *)
(* at nominal_planning_priority.py:133), and for an area that others left  *)
(* occupied.  Another planner is named for its own wrong answers or flights*)
(* left behind, and for planning where uss1 had claimed a flight; never for*)
(* an error of the DSS.                                                    *)
(***************************************************************************)
Blamable(r, u) ==
    \/ u \in r.faulty \/ u \in r.stale
    \/ r.planners[1] \in r.faulty
    \/ u = r.planners[1] /\ (r.faulty # {} \/ r.crowded)

BlameExplained == \A i \in DOMAIN log : \A u \in log[i].blamed : Blamable(log[i], u)

=============================================================================
